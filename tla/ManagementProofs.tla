--------------------------- MODULE ManagementProofs ---------------------------
(***************************************************************************)
(* The management for any number of agents, sockets, tasks and clients:    *)
(* types, that clients end up with the last snapshot broadcast, and that   *)
(* an agent which was stopped and replaced begins no new dial.             *)
(***************************************************************************)
EXTENDS Management, SequenceTheorems, TLAPS

USE LifecycleAssumption, ManagementAssumption DEF Left, Told

LEMMA FreshIsMember == ASSUME NEW S, S # {} PROVE Fresh(S) \in S
  BY DEF Fresh

-----------------------------------------------------------------------------
(* The stream of one client.  The last conjunct is NewestArrives, in terms  *)
(* of what the client will show when its queue is empty.                    *)

Id == Action \X Nat

StreamState ==
  [open : BOOLEAN, heard : BOOLEAN, queue : Seq(Snapshots), view : Snapshots \cup {None},
   up : Seq([id : Id, action : Action]), running : Id \cup {None}, pending : SUBSET Id]

WillShow(s) == IF s.queue = <<>> THEN s.view ELSE s.queue[Len(s.queue)]

StreamGood(s, newest) ==
  /\ s \in StreamState
  /\ Len(s.queue) <= QueueSize
  /\ s.open => s.view \in Snapshots
  /\ ~s.open => s = Closed
  /\ s.heard => newest = WillShow(s)

LEMMA HeadAndTail ==
  ASSUME NEW S, NEW q \in Seq(S), q # <<>>
  PROVE  /\ Len(q) \in Nat \ {0} /\ Head(q) = q[1] /\ Head(q) \in S
         /\ Tail(q) \in Seq(S) /\ Len(Tail(q)) = Len(q) - 1
         /\ \A i \in 1..(Len(q) - 1) : Tail(q)[i] = q[i + 1]
         /\ (Tail(q) = <<>> <=> Len(q) = 1)
<1>1. /\ Len(q) \in Nat \ {0}
      /\ Head(q) \in S /\ Tail(q) \in Seq(S) /\ Len(Tail(q)) = Len(q) - 1
      /\ \A i \in 1..Len(Tail(q)) : Tail(q)[i] = q[i + 1]
  BY HeadTailProperties, EmptySeq
<1>2. Head(q) = q[1]
  OBVIOUS
<1>3. Tail(q) = <<>> <=> Len(Tail(q)) = 0
  BY <1>1, EmptySeq
<1>. QED
  BY <1>1, <1>2, <1>3

LEMMA LastOfQueue ==
  ASSUME NEW S, NEW v, NEW q \in Seq(S)
  PROVE  Last(<<v>> \o q) = IF q = <<>> THEN v ELSE q[Len(q)]
<1>1. Len(<<v>> \o q) = Len(q) + 1
  OBVIOUS
<1>2. Last(<<v>> \o q) = (<<v>> \o q)[Len(q) + 1]
  BY <1>1 DEF Last
<1>3. CASE q = <<>>
  BY <1>2, <1>3
<1>4. CASE q # <<>>
  <2>1. Len(q) \in Nat \ {0}
    BY <1>4
  <2>2. (<<v>> \o q)[Len(q) + 1] = q[Len(q)]
    BY <2>1
  <2>. QED
    BY <1>2, <1>4, <2>2
<1>. QED
  BY <1>3, <1>4

LEMMA ClosedIsGood == ASSUME NEW newest PROVE StreamGood(Closed, newest)
  BY DEF Closed, StreamGood, StreamState

LEMMA OfferKeepsGood ==
  ASSUME NEW s, NEW newest, NEW snapshot \in Snapshots, StreamGood(s, newest)
  PROVE  StreamGood(Offered(s, snapshot), snapshot)
<1>1. CASE ~s.open
  BY <1>1, ClosedIsGood DEF Offered, StreamGood
<1>2. CASE s.open
  <2>. DEFINE q == IF Len(s.queue) < QueueSize THEN s.queue ELSE Tail(s.queue)
  <2>1. s.queue \in Seq(Snapshots)
    BY DEF StreamGood, StreamState
  <2>2. q \in Seq(Snapshots) /\ Len(q) < QueueSize
    BY <2>1 DEF StreamGood
  <2>. HIDE DEF q
  <2>3. /\ Append(q, snapshot) \in Seq(Snapshots)
        /\ Len(Append(q, snapshot)) = Len(q) + 1
        /\ Append(q, snapshot)[Len(q) + 1] = snapshot
        /\ Append(q, snapshot) # <<>>
    BY <2>2
  <2>4. Offered(s, snapshot) = [s EXCEPT !.queue = Append(q, snapshot), !.heard = TRUE]
    BY <1>2 DEF Offered, offer, q
  <2>5. /\ Offered(s, snapshot) \in StreamState
        /\ Offered(s, snapshot).queue = Append(q, snapshot)
        /\ Offered(s, snapshot).open = s.open
        /\ Offered(s, snapshot).view = s.view
    BY <2>3, <2>4 DEF StreamGood, StreamState
  <2>6. WillShow(Offered(s, snapshot)) = snapshot
    BY <2>3, <2>5 DEF WillShow
  <2>7. Len(q) + 1 <= QueueSize
    BY <2>1, <2>2
  <2>. QED
    BY <1>2, <2>3, <2>5, <2>6, <2>7 DEF StreamGood
<1>. QED
  BY <1>1, <1>2

LEMMA OfferKeepsOpen == ASSUME NEW s \in StreamState, NEW snapshot
                        PROVE  Offered(s, snapshot).open = s.open
  BY DEF Offered, StreamState

-----------------------------------------------------------------------------
(* The hub: every stream is good, and a command belongs to an open stream.  *)

Owners == Client \cup {None, Left, Told}

HubGood(newest, to, runs) ==
  /\ newest \in Snapshots \cup {None}
  /\ to \in [Client -> StreamState]
  /\ \A c \in Client : StreamGood(to[c], newest)
  /\ runs \in [Task -> Owners]
  /\ \A t \in Task : runs[t] \in Client => to[runs[t]].open

HubInv == HubGood(last, streams, owner)

LEMMA PublishKeeps ==
  ASSUME NEW snapshot \in Snapshots, NEW to, NEW runs, HubGood(last, to, runs),
         publish(snapshot, to, runs)
  PROVE  HubInv'
<1>1. last' = snapshot
  BY DEF publish
<1>2. \A c \in Client : /\ to[c] \in StreamState
                        /\ StreamGood(to[c], last)
  BY DEF HubGood
<1>3. \A c \in Client :
        /\ streams'[c] = IF snapshot = last THEN to[c] ELSE Offered(to[c], snapshot)
        /\ streams'[c].open = to[c].open
        /\ StreamGood(streams'[c], snapshot)
  BY <1>2, OfferKeepsGood, OfferKeepsOpen DEF publish
<1>4. streams' \in [Client -> StreamState]
  BY <1>3 DEF publish, StreamGood
<1>5. /\ owner' \in [Task -> Owners]
      /\ \A t \in Task : owner'[t] \in Client => owner'[t] = runs[t]
  BY DEF publish, HubGood, Owners
<1>. QED
  BY <1>1, <1>3, <1>4, <1>5 DEF HubInv, HubGood

LEMMA HubInitGood == HubInit => HubInv
  BY ClosedIsGood DEF HubInit, HubInv, HubGood, Owners, StreamGood

LEMMA HubUnchanged == HubInv /\ UNCHANGED streamVars => HubInv'
  BY DEF HubInv, HubGood, streamVars, StreamGood

LEMMA OneStreamKeeps ==
  ASSUME HubInv, NEW c \in Client, NEW s, StreamGood(s, last), streams[c].open => s.open,
         streams' = [streams EXCEPT ![c] = s], UNCHANGED <<last, owner>>
  PROVE  HubInv'
  BY DEF HubInv, HubGood, StreamGood

LEMMA SubscribeKeeps ==
  ASSUME HubInv, NEW c \in Client, NEW snapshot \in Snapshots, Subscribe(c, snapshot)
  PROVE  HubInv'
<1>. DEFINE s == [Closed EXCEPT !.open = TRUE, !.view = snapshot]
<1>1. Closed \in StreamState /\ Closed.queue = <<>> /\ ~Closed.heard
  BY DEF Closed, StreamState
<1>2. s \in StreamState /\ s.open /\ s.queue = <<>> /\ s.view = snapshot /\ ~s.heard
  BY <1>1 DEF StreamState
<1>3. StreamGood(s, last) /\ s.open
  BY <1>2 DEF StreamGood
<1>. QED
  BY <1>3, OneStreamKeeps DEF Subscribe

LEMMA PushKeeps ==
  ASSUME HubInv, NEW c \in Client, push_snapshots(c)
  PROVE  HubInv'
<1>. DEFINE old == streams[c]
            s == [old EXCEPT !.queue = Tail(old.queue), !.view = Head(old.queue)]
<1>1. old \in StreamState /\ StreamGood(old, last) /\ old.queue # <<>>
  BY DEF HubInv, HubGood, push_snapshots
<1>2. streams' = [streams EXCEPT ![c] = s]
  BY DEF push_snapshots, HubInv, HubGood
<1>. HIDE DEF old
<1>3. /\ old.queue \in Seq(Snapshots) /\ Len(old.queue) \in Nat \ {0}
      /\ Head(old.queue) = old.queue[1] /\ Head(old.queue) \in Snapshots
      /\ Tail(old.queue) \in Seq(Snapshots)
      /\ Len(Tail(old.queue)) = Len(old.queue) - 1
      /\ \A i \in 1..(Len(old.queue) - 1) : Tail(old.queue)[i] = old.queue[i + 1]
      /\ (Tail(old.queue) = <<>> <=> Len(old.queue) = 1)
  <2>1. old.queue \in Seq(Snapshots)
    BY <1>1 DEF StreamState
  <2>. QED
    BY <1>1, <2>1, HeadAndTail
<1>4. s \in StreamState /\ s.open = old.open /\ s.heard = old.heard
      /\ s.queue = Tail(old.queue) /\ s.view = old.queue[1]
  BY <1>1, <1>3 DEF StreamState
<1>5. WillShow(s) = WillShow(old)
  <2>. DEFINE q == old.queue
              r == Tail(old.queue)
  <2>0. WillShow(old) = q[Len(q)] /\ WillShow(s) = IF r = <<>> THEN q[1] ELSE r[Len(r)]
    BY <1>1, <1>4 DEF WillShow
  <2>1. q \in Seq(Snapshots) /\ r \in Seq(Snapshots)
    BY <1>3
  <2>2. /\ Len(q) \in Nat \ {0} /\ Len(r) = Len(q) - 1 /\ (r = <<>> <=> Len(q) = 1)
        /\ \A i \in 1..(Len(q) - 1) : r[i] = q[i + 1]
    BY <1>3
  <2>. HIDE DEF q, r
  <2>3. Len(q) # 1 => r[Len(r)] = q[Len(q)]
    BY <2>2
  <2>. QED
    BY <2>0, <2>2, <2>3
<1>6. old.open
  BY <1>1 DEF StreamGood, Closed
<1>7. StreamGood(s, last)
  BY <1>1, <1>3, <1>4, <1>5, <1>6 DEF StreamGood
<1>. QED
  BY <1>2, <1>4, <1>6, <1>7, OneStreamKeeps DEF push_snapshots

(* What a client sends, waits for or gives up does not touch what it shows. *)
LEMMA SameShowKeepsGood ==
  ASSUME NEW old, NEW newest, StreamGood(old, newest), old.open, NEW s \in StreamState,
         s.open, s.heard = old.heard, s.queue = old.queue, s.view = old.view
  PROVE  StreamGood(s, newest)
  BY DEF StreamGood, WillShow

LEMMA RequestKeeps ==
  ASSUME HubInv, NEW c \in Client, NEW action \in Action, NEW id \in Id, request(c, action, id)
  PROVE  HubInv'
<1>. DEFINE old == streams[c]
            s == [old EXCEPT !.pending = old.pending \cup {id},
                             !.up = Append(old.up, [id |-> id, action |-> action])]
<1>1. old \in StreamState /\ StreamGood(old, last) /\ old.open
  BY DEF HubInv, HubGood, request
<1>2. streams' = [streams EXCEPT ![c] = s]
  BY DEF request, HubInv, HubGood
<1>. HIDE DEF old
<1>3. /\ old.pending \cup {id} \in SUBSET Id
      /\ Append(old.up, [id |-> id, action |-> action]) \in Seq([id : Id, action : Action])
  BY <1>1 DEF StreamState
<1>4. s \in StreamState /\ s.open /\ s.heard = old.heard
      /\ s.queue = old.queue /\ s.view = old.view
  BY <1>1, <1>3 DEF StreamState
<1>. QED
  BY <1>1, <1>2, <1>4, SameShowKeepsGood, OneStreamKeeps DEF request

LEMMA TimeoutKeeps ==
  ASSUME HubInv, NEW c \in Client, NEW id, RequestTimesOut(c, id)
  PROVE  HubInv'
<1>. DEFINE old == streams[c]
            s == [old EXCEPT !.pending = old.pending \ {id}]
<1>1. old \in StreamState /\ StreamGood(old, last)
  BY DEF HubInv, HubGood
<1>2. old.open
  BY <1>1 DEF StreamGood, Closed, RequestTimesOut
<1>3. streams' = [streams EXCEPT ![c] = s]
  BY DEF RequestTimesOut, HubInv, HubGood
<1>. HIDE DEF old
<1>4. s \in StreamState /\ s.open /\ s.heard = old.heard
      /\ s.queue = old.queue /\ s.view = old.view
  BY <1>1, <1>2 DEF StreamState
<1>. QED
  BY <1>1, <1>2, <1>3, <1>4, SameShowKeepsGood, OneStreamKeeps DEF RequestTimesOut

LEMMA LeaveKeeps ==
  ASSUME HubInv, NEW c \in Client, Leave(c)
  PROVE  HubInv'
<1>1. /\ streams' \in [Client -> StreamState]
      /\ \A d \in Client : streams'[d] = IF d = c THEN Closed ELSE streams[d]
  BY ClosedIsGood DEF Leave, HubInv, HubGood, StreamGood
<1>2. \A d \in Client : StreamGood(streams'[d], last)
  BY <1>1, ClosedIsGood DEF HubInv, HubGood
<1>3. /\ owner' \in [Task -> Owners]
      /\ \A t \in Task : owner'[t] \in Client => owner'[t] = owner[t] /\ owner[t] # c
  BY DEF Leave, HubInv, HubGood, Owners
<1>. QED
  BY <1>1, <1>2, <1>3 DEF Leave, HubInv, HubGood

-----------------------------------------------------------------------------
(* The server's side of commands *)

LEMMA TakenGood ==
  ASSUME HubInv, NEW c \in Client, CanTake(c)
  PROVE  /\ NextCommand(c) \in [id : Id, action : Action]
         /\ Taken(c) \in [Client -> StreamState]
         /\ \A d \in Client : /\ StreamGood(Taken(c)[d], last)
                               /\ (streams[d].open => Taken(c)[d].open)
         /\ streams[c].open
<1>. DEFINE old == streams[c]
            s == [old EXCEPT !.up = Tail(old.up)]
<1>1. old \in StreamState /\ StreamGood(old, last) /\ old.up # <<>>
  BY DEF HubInv, HubGood, CanTake
<1>2. Taken(c) = [streams EXCEPT ![c] = s]
  BY DEF Taken, HubInv, HubGood
<1>3. old.open
  BY <1>1 DEF StreamGood, Closed
<1>. HIDE DEF old
<1>4. old.up \in Seq([id : Id, action : Action])
  BY <1>1 DEF StreamState
<1>5. /\ Tail(old.up) \in Seq([id : Id, action : Action])
      /\ Head(old.up) \in [id : Id, action : Action]
  BY <1>1, <1>4, HeadAndTail
<1>6. s \in StreamState /\ s.open /\ s.heard = old.heard
      /\ s.queue = old.queue /\ s.view = old.view
  BY <1>1, <1>3, <1>5 DEF StreamState
<1>7. StreamGood(s, last)
  BY <1>1, <1>3, <1>6, SameShowKeepsGood
<1>. HIDE DEF s
<1>8. /\ Taken(c) \in [Client -> StreamState]
      /\ \A d \in Client : Taken(c)[d] = IF d = c THEN s ELSE streams[d]
  BY <1>2, <1>6 DEF HubInv, HubGood
<1>9. \A d \in Client : StreamGood(Taken(c)[d], last) /\ (streams[d].open => Taken(c)[d].open)
  BY <1>3, <1>6, <1>7, <1>8 DEF HubInv, HubGood, old
<1>. QED
  BY <1>3, <1>5, <1>8, <1>9 DEF NextCommand, old

LEMMA AnsweredGood ==
  ASSUME NEW to, NEW newest, NEW c \in Client, NEW id, to \in [Client -> StreamState],
         \A d \in Client : StreamGood(to[d], newest), to[c].open
  PROVE  /\ Answered(to, c, id) \in [Client -> StreamState]
         /\ \A d \in Client : /\ StreamGood(Answered(to, c, id)[d], newest)
                               /\ (to[d].open => Answered(to, c, id)[d].open)
<1>. DEFINE old == to[c]
            s == [old EXCEPT !.pending = old.pending \ {id}]
<1>1. old \in StreamState /\ StreamGood(old, newest) /\ old.open
  OBVIOUS
<1>2. Answered(to, c, id) = [to EXCEPT ![c] = s]
  BY DEF Answered
<1>. HIDE DEF old
<1>3. s \in StreamState /\ s.open /\ s.heard = old.heard
      /\ s.queue = old.queue /\ s.view = old.view
  BY <1>1 DEF StreamState
<1>4. StreamGood(s, newest)
  BY <1>1, <1>3, SameShowKeepsGood
<1>. HIDE DEF s
<1>5. /\ Answered(to, c, id) \in [Client -> StreamState]
      /\ \A d \in Client : Answered(to, c, id)[d] = IF d = c THEN s ELSE to[d]
  BY <1>2, <1>3
<1>. QED
  BY <1>1, <1>3, <1>4, <1>5 DEF old

LEMMA RunningGood ==
  ASSUME NEW to, NEW newest, NEW c \in Client, NEW running \in Id \cup {None},
         to \in [Client -> StreamState], \A d \in Client : StreamGood(to[d], newest), to[c].open
  PROVE  LET next == [to EXCEPT ![c].running = running]
         IN /\ next \in [Client -> StreamState]
            /\ \A d \in Client : StreamGood(next[d], newest) /\ (to[d].open => next[d].open)
<1>. DEFINE old == to[c]
            s == [old EXCEPT !.running = running]
            next == [to EXCEPT ![c].running = running]
<1>1. old \in StreamState /\ StreamGood(old, newest) /\ old.open
  OBVIOUS
<1>2. next = [to EXCEPT ![c] = s]
  OBVIOUS
<1>. HIDE DEF old
<1>3. s \in StreamState /\ s.open /\ s.heard = old.heard
      /\ s.queue = old.queue /\ s.view = old.view
  BY <1>1 DEF StreamState
<1>4. StreamGood(s, newest)
  BY <1>1, <1>3, SameShowKeepsGood
<1>. HIDE DEF s, next
<1>. QED
  BY <1>2, <1>3, <1>4 DEF old, next

LEMMA RunAtOnceKeeps ==
  ASSUME HubInv, NEW c \in Client, CanTake(c), NEW snapshot \in Snapshots, RunAtOnce(c, snapshot)
  PROVE  HubInv'
<1>. DEFINE to == Answered(Taken(c), c, NextCommand(c).id)
<1>1. /\ to \in [Client -> StreamState]
      /\ \A d \in Client : StreamGood(to[d], last) /\ (streams[d].open => to[d].open)
  BY TakenGood, AnsweredGood
<1>. HIDE DEF to
<1>2. HubGood(last, to, owner)
  BY <1>1 DEF HubInv, HubGood
<1>. QED
  BY <1>2, PublishKeeps DEF RunAtOnce, to

LEMMA RunInKeeps ==
  ASSUME HubInv, NEW c \in Client, CanTake(c), NEW t \in Task, RunIn(c, t)
  PROVE  HubInv'
<1>1. NextCommand(c).id \in Id
  BY TakenGood
<1>. DEFINE to == Taken(c)
            running == NextCommand(c).id
<1>2. /\ to \in [Client -> StreamState] /\ to[c].open
      /\ \A d \in Client : StreamGood(to[d], last) /\ (streams[d].open => to[d].open)
  BY TakenGood
<1>3. streams' = [to EXCEPT ![c].running = running] /\ running \in Id \cup {None}
  BY <1>1 DEF RunIn
<1>. HIDE DEF to, running
<1>4. /\ streams' \in [Client -> StreamState]
      /\ \A d \in Client : StreamGood(streams'[d], last) /\ (streams[d].open => streams'[d].open)
  BY <1>2, <1>3, RunningGood
<1>5. /\ owner' \in [Task -> Owners]
      /\ \A u \in Task : owner'[u] = IF u = t THEN c ELSE owner[u]
  BY DEF RunIn, HubInv, HubGood, Owners
<1>. QED
  BY <1>4, <1>5, TakenGood DEF RunIn, HubInv, HubGood

LEMMA ReplyKeeps ==
  ASSUME HubInv, NEW t \in Task, NEW snapshot \in Snapshots, Reply(t, snapshot)
  PROVE  HubInv'
<1>. DEFINE runs == [owner EXCEPT ![t] = None]
<1>1. /\ runs \in [Task -> Owners]
      /\ \A u \in Task : runs[u] \in Client => runs[u] = owner[u]
  BY DEF HubInv, HubGood, Owners
<1>2. CASE owner[t] \in Client
  <2>. DEFINE c == owner[t]
              answered == Answered(streams, c, streams[c].running)
              to == [answered EXCEPT ![c].running = None]
  <2>0. /\ c \in Client /\ streams \in [Client -> StreamState] /\ streams[c].open
        /\ \A d \in Client : StreamGood(streams[d], last)
    BY <1>2 DEF HubInv, HubGood
  <2>. HIDE DEF c
  <2>1. /\ answered \in [Client -> StreamState]
        /\ \A d \in Client : StreamGood(answered[d], last) /\ (streams[d].open => answered[d].open)
    BY <2>0, AnsweredGood
  <2>. HIDE DEF answered
  <2>2. /\ to \in [Client -> StreamState]
        /\ \A d \in Client : StreamGood(to[d], last) /\ (streams[d].open => to[d].open)
    BY <2>0, <2>1, RunningGood
  <2>3. publish(snapshot, to, runs)
    BY <1>2 DEF Reply, answered, c
  <2>. HIDE DEF to, runs
  <2>4. HubGood(last, to, runs)
    BY <1>1, <2>2 DEF HubInv, HubGood
  <2>. QED
    BY <2>3, <2>4, PublishKeeps
<1>3. CASE owner[t] \notin Client
  <2>1. owner' = runs /\ UNCHANGED <<last, streams>>
    BY <1>3 DEF Reply
  <2>. QED
    BY <1>1, <2>1 DEF HubInv, HubGood, StreamGood
<1>. QED
  BY <1>2, <1>3

-----------------------------------------------------------------------------
(* The types of the agents, their sockets and their tasks *)

TasksOK == tasks \in [Task -> TaskState \cup {None}]
AgentsOK == agents \in [Agent -> AgentState]
SocketsOK == sockets \in [Socket -> {"greeting", "open", "closed"}]
ManagerState == [agent : Agent \cup {None}, status : ManagerStatus]
ManagerOK == manager \in ManagerState
RestOK == config \in [full : BOOLEAN, code : Nat] /\ budget \in [Event -> Nat]

LEMMA LifecycleParts ==
  LifecycleTypeOK <=> TasksOK /\ AgentsOK /\ SocketsOK /\ ManagerOK /\ RestOK
  BY DEF LifecycleTypeOK, TasksOK, AgentsOK, SocketsOK, ManagerOK, ManagerState,
     ManagerStatus, RestOK

LEMMA LifecyclePartsNext ==
  LifecycleTypeOK' <=> TasksOK' /\ AgentsOK' /\ SocketsOK' /\ ManagerOK' /\ RestOK'
  BY DEF LifecycleTypeOK, TasksOK, AgentsOK, SocketsOK, ManagerOK, ManagerState,
     ManagerStatus, RestOK

LEMMA TaskTyped ==
  ASSUME TasksOK, NEW t \in Task, tasks[t] # None
  PROVE  tasks[t] \in TaskState /\ Of(t) \in Agent
  BY DEF TasksOK, TaskState, Of

LEMMA NewTaskTyped ==
  ASSUME NEW a \in Agent,
         NEW kind \in {"boot", "register", "login", "connect", "configure", "clear", "listen",
                      "reconnect"},
         NEW pc \in {"sleep", "request", "dial", "greet", "start", "read", "closing"}
  PROVE  NewTask(kind, a, pc) \in TaskState
  BY DEF NewTask, TaskState

LEMMA EndTyped == ASSUME TasksOK, NEW t \in Task, End(t) PROVE TasksOK'
  BY DEF TasksOK, End

LEMMA BecomeTyped ==
  ASSUME TasksOK, NEW t \in Task, tasks[t] # None,
         NEW kind \in {"listen", "reconnect"}, NEW pc \in {"sleep", "request", "start"},
         Become(t, kind, pc)
  PROVE  TasksOK'
<1>1. NewTask(kind, Of(t), pc) \in TaskState
  BY TaskTyped, NewTaskTyped
<1>. QED
  BY <1>1 DEF TasksOK, Become

LEMMA StatusTyped ==
  ASSUME AgentsOK, NEW a,
         NEW status \in {"disconnected", "connecting", "connected", "reconnecting",
                        "login_failed"},
         Status(a, status)
  PROVE  AgentsOK'
  BY DEF AgentsOK, Status, AgentState

LEMMA SpendTyped == ASSUME RestOK, NEW e \in Event, Spend(e), UNCHANGED config PROVE RestOK'
  BY DEF RestOK, Spend

LEMMA ManagerTyped ==
  ASSUME NEW a \in Agent \cup {None}, NEW status \in ManagerStatus
  PROVE  [agent |-> a, status |-> status] \in ManagerState
  BY DEF ManagerState

LEMMA Statuses ==
  /\ "Config Missing" \in ManagerStatus /\ "Configured" \in ManagerStatus
  /\ "Registered" \in ManagerStatus /\ "Logged In" \in ManagerStatus
  /\ "Connected" \in ManagerStatus /\ "Login/Connection Failed" \in ManagerStatus
  BY DEF ManagerStatus

LEMMA ManagerStatusTyped ==
  ASSUME ManagerOK, NEW status \in ManagerStatus,
         manager' = [manager EXCEPT !.status = status]
  PROVE  ManagerOK'
  BY DEF ManagerOK, ManagerState

LEMMA BootFailsTyped == BootFails => ManagerOK'
  BY Statuses, ManagerTyped DEF BootFails, ManagerOK

LEMMA TaskWithSocketTyped ==
  ASSUME TasksOK, NEW t \in Task, tasks[t] # None, NEW pc \in {"greet", "read"},
         NEW s \in Socket, tasks' = [tasks EXCEPT ![t].pc = pc, ![t].socket = s]
  PROVE  TasksOK'
<1>. DEFINE old == tasks[t]
            new == [old EXCEPT !.pc = pc, !.socket = s]
<1>1. old \in TaskState
  BY TaskTyped
<1>2. tasks' = [tasks EXCEPT ![t] = new]
  OBVIOUS
<1>. HIDE DEF old
<1>3. new \in TaskState
  BY <1>1 DEF TaskState
<1>. HIDE DEF new
<1>. QED
  BY <1>2, <1>3 DEF TasksOK

LEMMA ConnectReturnsTyped ==
  ASSUME TasksOK, ManagerOK, NEW t \in Task, tasks[t] # None, ConnectReturns(t)
  PROVE  TasksOK' /\ ManagerOK'
<1>1. TasksOK'
  BY BecomeTyped DEF ConnectReturns
<1>2. ManagerOK'
  BY Statuses, ManagerStatusTyped DEF ConnectReturns, ManagerOK
<1>. QED
  BY <1>1, <1>2

LEMMA ConnectRaisesTyped ==
  ASSUME TasksOK, ManagerOK, NEW t \in Task, tasks[t] # None, ConnectRaises(t)
  PROVE  TasksOK' /\ ManagerOK'
  BY BecomeTyped, EndTyped, BootFailsTyped DEF ConnectRaises, ManagerOK

LEMMA ListenEndsTyped ==
  ASSUME TasksOK, AgentsOK, NEW t \in Task, tasks[t] # None, ListenEnds(t)
  PROVE  TasksOK' /\ AgentsOK'
<1>1. TasksOK'
  BY BecomeTyped, EndTyped DEF ListenEnds
<1>2. AgentsOK'
  BY DEF ListenEnds, AgentsOK, AgentState
<1>. QED
  BY <1>1, <1>2

LEMMA GoOnDialingTyped ==
  ASSUME TasksOK, AgentsOK, NEW t \in Task, tasks[t] # None, GoOnDialing(t)
  PROVE  TasksOK' /\ AgentsOK'
<1>1. TasksOK'
  BY TaskTyped DEF GoOnDialing, TasksOK, TaskState
<1>2. AgentsOK'
  BY DEF GoOnDialing, AgentsOK, AgentState
<1>. QED
  BY <1>1, <1>2

LEMMA OwnStepTyped ==
  ASSUME LifecycleTypeOK, NEW t \in Task, OwnStep(t)
  PROVE  LifecycleTypeOK'
<1>. USE LifecycleParts, LifecyclePartsNext
<1>1. CASE Dialed(t)
  <2>. DEFINE s == Fresh(UnusedSockets)
  <2>1. s \in Socket
    BY <1>1, FreshIsMember DEF Dialed, UnusedSockets
  <2>. HIDE DEF s
  <2>2. tasks[t] # None
    BY <1>1 DEF Dialed, At
  <2>3. TasksOK'
    BY <1>1, <2>1, <2>2, TaskWithSocketTyped DEF Dialed, s
  <2>4. AgentsOK' /\ SocketsOK'
    BY <1>1, <2>1 DEF Dialed, AgentsOK, AgentState, SocketsOK, s
  <2>. QED
    BY <1>1, <2>3, <2>4 DEF Dialed, ManagerOK, RestOK
<1>2. CASE ListenStarts(t)
  <2>1. tasks[t] # None
    BY <1>2 DEF ListenStarts, At
  <2>2. TasksOK' /\ AgentsOK'
    <3>1. CASE End(t) /\ UNCHANGED agents
      BY <3>1, EndTyped DEF AgentsOK
    <3>2. CASE ListenEnds(t)
      BY <2>1, <3>2, ListenEndsTyped
    <3>3. CASE /\ agents[Of(t)].websocket # None
               /\ tasks' = [tasks EXCEPT ![t].pc = "read", ![t].socket = agents[Of(t)].websocket]
               /\ UNCHANGED agents
      <4>. DEFINE s == agents[Of(t)].websocket
      <4>1. s \in Socket
        BY <2>1, <3>3, TaskTyped DEF AgentsOK, AgentState
      <4>. HIDE DEF s
      <4>2. TasksOK'
        BY <2>1, <3>3, <4>1, TaskWithSocketTyped DEF s
      <4>. QED
        BY <3>3, <4>2 DEF AgentsOK
    <3>. QED
      BY <1>2, <3>1, <3>2, <3>3 DEF ListenStarts
  <2>. QED
    BY <1>2, <2>2 DEF ListenStarts, SocketsOK, ManagerOK, RestOK
<1>3. CASE SocketClosed(t)
  BY <1>3, ListenEndsTyped DEF SocketClosed, At, SocketsOK, ManagerOK, RestOK
<1>4. CASE Wake(t)
  <2>1. tasks[t] # None
    BY <1>4 DEF Wake, At
  <2>2. TasksOK' /\ AgentsOK'
    BY <1>4, <2>1, EndTyped, BecomeTyped, StatusTyped DEF Wake, AgentsOK
  <2>. QED
    BY <1>4, <2>2 DEF Wake, SocketsOK, ManagerOK, RestOK
<1>5. CASE LoggedInAgain(t)
  <2>1. tasks[t] # None
    BY <1>5 DEF LoggedInAgain, At
  <2>2. TasksOK' /\ AgentsOK'
    <3>1. CASE GoOnDialing(t)
      BY <2>1, <3>1, GoOnDialingTyped
    <3>2. CASE End(t) /\ agents' = [agents EXCEPT ![Of(t)].token = TRUE]
      BY <3>2, EndTyped DEF AgentsOK, AgentState
    <3>. QED
      BY <1>5, <3>1, <3>2 DEF LoggedInAgain
  <2>. QED
    BY <1>5, <2>2 DEF LoggedInAgain, SocketsOK, ManagerOK, RestOK
<1>6. CASE LoginAgainFailed(t)
  <2>1. AgentsOK'
    BY <1>6 DEF LoginAgainFailed, AgentsOK, AgentState
  <2>2. "failure" \in Event
    BY DEF Event
  <2>. QED
    BY <1>6, <2>1, <2>2, EndTyped, SpendTyped DEF LoginAgainFailed, SocketsOK, ManagerOK
<1>7. CASE BootLoggedIn(t)
  <2>1. TasksOK' /\ AgentsOK'
    BY <1>7, GoOnDialingTyped DEF BootLoggedIn, At
  <2>. QED
    BY <1>7, <2>1, Statuses, ManagerStatusTyped DEF BootLoggedIn, SocketsOK, RestOK
<1>8. CASE BootLoginFailed(t)
  <2>1. "failure" \in Event
    BY DEF Event
  <2>. QED
    BY <1>8, <2>1, EndTyped, SpendTyped, BootFailsTyped DEF BootLoginFailed, SocketsOK, AgentsOK
<1>9. CASE Close(t)
  BY <1>9 DEF Close, TasksOK, AgentsOK, SocketsOK, ManagerOK, RestOK
<1>. QED
  BY <1>1, <1>2, <1>3, <1>4, <1>5, <1>6, <1>7, <1>8, <1>9 DEF OwnStep

LEMMA ReplaceTyped ==
  ASSUME ManagerOK, NEW old \in [Agent -> AgentState], NEW full \in BOOLEAN,
         Replace(old, full)
  PROVE  AgentsOK' /\ ManagerOK'
<1>1. CASE ~full
  <2>1. agents' = old /\ manager' = [agent |-> None, status |-> "Config Missing"]
    BY <1>1 DEF Replace
  <2>2. AgentsOK'
    BY <2>1 DEF AgentsOK
  <2>. QED
    BY <2>1, <2>2, Statuses, ManagerTyped DEF ManagerOK
<1>2. CASE full
  <2>. DEFINE a == Fresh(UnusedAgents)
  <2>1. a \in Agent
    BY <1>2, FreshIsMember DEF Replace, UnusedAgents
  <2>2. NewAgent \in AgentState
    BY DEF NewAgent, AgentState
  <2>. HIDE DEF a
  <2>3. manager' = [agent |-> a, status |-> "Configured"]
        /\ agents' = [old EXCEPT ![a] = NewAgent]
    BY <1>2 DEF Replace, a
  <2>4. AgentsOK'
    BY <2>1, <2>2, <2>3 DEF AgentsOK
  <2>. QED
    BY <2>1, <2>3, <2>4, Statuses, ManagerTyped DEF ManagerOK
<1>. QED
  BY <1>1, <1>2

LEMMA EndsOperationTyped ==
  ASSUME LifecycleTypeOK, NEW t \in Task, EndsOperation(t)
  PROVE  LifecycleTypeOK'
<1>. USE LifecycleParts, LifecyclePartsNext
<1>0. "failure" \in Event
  BY DEF Event
<1>1. CASE Accepted(t)
  <2>1. tasks[t] # None
    BY <1>1 DEF Accepted, At
  <2>2. TasksOK' /\ ManagerOK'
    BY <1>1, <2>1, ConnectReturnsTyped DEF Accepted
  <2>3. AgentsOK'
    BY <1>1, StatusTyped DEF Accepted
  <2>4. SocketsOK'
    BY <1>1 DEF Accepted, SocketsOK
  <2>. QED
    BY <1>1, <2>2, <2>3, <2>4 DEF Accepted, RestOK
<1>2. CASE Authorized(t)
  <2>1. AgentsOK'
    BY <1>2 DEF Authorized, AgentsOK, AgentState
  <2>2. ManagerOK'
    BY <1>2, Statuses, ManagerStatusTyped DEF Authorized
  <2>. QED
    BY <1>2, <2>1, <2>2, EndTyped DEF Authorized, SocketsOK, RestOK
<1>3. CASE Configured(t)
  <2>1. AgentsOK' /\ ManagerOK'
    BY <1>3, ReplaceTyped DEF Configured, AgentsOK
  <2>. QED
    BY <1>3, <2>1, EndTyped DEF Configured, SocketsOK, RestOK
<1>4. CASE DialFailed(t)
  <2>1. TasksOK' /\ ManagerOK'
    BY <1>4, ConnectRaisesTyped DEF DialFailed, At
  <2>2. AgentsOK'
    BY <1>4, StatusTyped DEF DialFailed
  <2>. QED
    BY <1>0, <1>4, <2>1, <2>2, SpendTyped DEF DialFailed, SocketsOK
<1>5. CASE GreetFailed(t)
  <2>1. TasksOK' /\ ManagerOK'
    BY <1>5, ConnectRaisesTyped DEF GreetFailed, At
  <2>2. AgentsOK'
    BY <1>5, StatusTyped DEF GreetFailed
  <2>3. SocketsOK'
    BY <1>5 DEF GreetFailed, SocketsOK
  <2>4. RestOK'
    BY <1>0, <1>5, SpendTyped DEF GreetFailed, RestOK
  <2>. QED
    BY <2>1, <2>2, <2>3, <2>4
<1>6. CASE AuthorizeFailed(t)
  BY <1>0, <1>6, EndTyped, SpendTyped DEF AuthorizeFailed, SocketsOK, AgentsOK, ManagerOK
<1>. QED
  BY <1>1, <1>2, <1>3, <1>4, <1>5, <1>6 DEF EndsOperation

LEMMA FreshTask == UnusedTasks # {} => Fresh(UnusedTasks) \in Task
  BY FreshIsMember DEF UnusedTasks

LEMMA BeginTyped ==
  ASSUME LifecycleTypeOK, NEW action \in {"register", "login", "connect"}, NEW t \in Task,
         Begin(action, t)
  PROVE  LifecycleTypeOK'
<1>. USE LifecycleParts, LifecyclePartsNext
<1>1. manager.agent \in Agent
  BY DEF Begin, CanBegin, ManagerOK, ManagerState
<1>. DEFINE pc == IF action = "connect" THEN "dial" ELSE "request"
<1>2. NewTask(action, manager.agent, pc) \in TaskState
  BY <1>1, NewTaskTyped
<1>3. tasks' = [tasks EXCEPT ![t] = NewTask(action, manager.agent, pc)]
  BY DEF Begin
<1>. HIDE DEF pc
<1>4. TasksOK'
  BY <1>2, <1>3 DEF TasksOK
<1>5. AgentsOK'
  BY StatusTyped DEF Begin, AgentsOK
<1>. QED
  BY <1>4, <1>5 DEF Begin, SocketsOK, ManagerOK, RestOK

LEMMA StoppedTyped == AgentsOK => Stopped \in [Agent -> AgentState]
  BY DEF AgentsOK, Stopped, AgentState

LEMMA ConfigTyped ==
  ASSUME RestOK, NEW full \in BOOLEAN, config' = [config EXCEPT !.full = full], UNCHANGED budget
  PROVE  RestOK'
  BY DEF RestOK

LEMMA ConfigureAtOnceTyped ==
  ASSUME LifecycleTypeOK, NEW full \in BOOLEAN, ConfigureAtOnce(full)
  PROVE  LifecycleTypeOK'
<1>. USE LifecycleParts, LifecyclePartsNext
<1>1. AgentsOK' /\ ManagerOK'
  BY StoppedTyped, ReplaceTyped DEF ConfigureAtOnce
<1>2. RestOK'
  BY ConfigTyped DEF ConfigureAtOnce
<1>. QED
  BY <1>1, <1>2 DEF ConfigureAtOnce, TasksOK, SocketsOK

LEMMA BeginConfigureTyped ==
  ASSUME LifecycleTypeOK, NEW full \in BOOLEAN, NEW t \in Task, BeginConfigure(full, t)
  PROVE  LifecycleTypeOK'
<1>. USE LifecycleParts, LifecyclePartsNext
<1>. DEFINE kind == IF full THEN "configure" ELSE "clear"
            s == agents[manager.agent].websocket
            blank == NewTask(kind, manager.agent, "closing")
            new == [blank EXCEPT !.socket = s]
<1>1. manager.agent \in Agent /\ s \in Socket
  BY DEF BeginConfigure, HasSocket, ManagerOK, ManagerState, AgentsOK, AgentState
<1>2. blank \in TaskState
  BY <1>1, NewTaskTyped
<1>3. tasks' = [tasks EXCEPT ![t] = new]
  BY DEF BeginConfigure
<1>. HIDE DEF s, blank
<1>4. new \in TaskState
  BY <1>1, <1>2 DEF TaskState
<1>. HIDE DEF new
<1>5. TasksOK'
  BY <1>3, <1>4 DEF TasksOK
<1>6. AgentsOK'
  BY StoppedTyped DEF BeginConfigure, AgentsOK
<1>7. RestOK'
  BY ConfigTyped DEF BeginConfigure
<1>. QED
  BY <1>5, <1>6, <1>7 DEF BeginConfigure, ManagerOK, SocketsOK

LEMMA RenewTyped == LifecycleTypeOK /\ renew_passcode => LifecycleTypeOK'
<1>. USE LifecycleParts, LifecyclePartsNext
<1>1. RestOK /\ renew_passcode => RestOK'
  BY DEF RestOK, renew_passcode
<1>. QED
  BY <1>1 DEF renew_passcode, TasksOK, AgentsOK, SocketsOK, ManagerOK

LEMMA DropTyped == ASSUME LifecycleTypeOK, NEW s \in Socket, Drop(s) PROVE LifecycleTypeOK'
<1>. USE LifecycleParts, LifecyclePartsNext
<1>1. RestOK' /\ SocketsOK'
  BY SpendTyped DEF Drop, Event, SocketsOK
<1>. QED
  BY <1>1 DEF Drop, TasksOK, AgentsOK, ManagerOK

LEMMA LifecycleUnchanged == LifecycleTypeOK /\ UNCHANGED lifecycleVars => LifecycleTypeOK'
  BY LifecycleParts, LifecyclePartsNext
     DEF lifecycleVars, TasksOK, AgentsOK, SocketsOK, ManagerOK, RestOK

LEMMA SpendsTyped ==
  ASSUME LifecycleTypeOK, NEW e \in Event, Spend(e),
         UNCHANGED <<manager, agents, sockets, tasks, config>>
  PROVE  LifecycleTypeOK'
  BY LifecycleParts, LifecyclePartsNext, SpendTyped DEF TasksOK, AgentsOK, SocketsOK, ManagerOK

-----------------------------------------------------------------------------
(* The composition: what is published is a snapshot, and every step keeps   *)
(* the types and the streams good.                                          *)

ManagementInv == LifecycleTypeOK /\ HubInv

LEMMA SnapshotOf ==
  ASSUME NEW m \in ManagerState, NEW of \in [Agent -> AgentState],
         NEW c \in [full : BOOLEAN, code : Nat]
  PROVE  [status |-> IF m.agent # None /\ of[m.agent].status \in AgentOwned
                     THEN of[m.agent].status ELSE m.status,
          server_id |-> m.agent # None /\ of[m.agent].token,
          config |-> c] \in Snapshots
<1>. DEFINE status == IF m.agent # None /\ of[m.agent].status \in AgentOwned
                      THEN of[m.agent].status ELSE m.status
            server == m.agent # None /\ of[m.agent].token
<1>1. m.status \in ManagerStatus /\ (m.agent # None => m.agent \in Agent)
  BY DEF ManagerState
<1>2. ASSUME m.agent # None PROVE of[m.agent].token \in BOOLEAN
  <2>1. of[m.agent] \in AgentState
    BY <1>1, <1>2
  <2>. QED
    BY <2>1 DEF AgentState
<1>3. status \in ManagerStatus \cup AgentOwned
  BY <1>1
<1>4. server \in BOOLEAN
  BY <1>2
<1>. HIDE DEF status, server
<1>5. [status |-> status, server_id |-> server, config |-> c] \in Snapshots
  BY <1>3, <1>4 DEF Snapshots
<1>. QED
  BY <1>5 DEF status, server

LEMMA SnapshotTyped == LifecycleTypeOK => management_snapshot \in Snapshots
  BY LifecycleParts, SnapshotOf DEF management_snapshot, ManagerOK, AgentsOK, RestOK

LEMMA SnapshotTypedNext == LifecycleTypeOK' => management_snapshot' \in Snapshots
  BY LifecyclePartsNext, SnapshotOf DEF management_snapshot, ManagerOK, AgentsOK, RestOK

LEMMA TaskGoesOnKeeps ==
  ASSUME ManagementInv, NEW t \in Task, TaskGoesOn(t)
  PROVE  ManagementInv'
<1>1. CASE OwnStep(t) /\ UNCHANGED streamVars
  BY <1>1, OwnStepTyped, HubUnchanged DEF ManagementInv
<1>2. CASE EndsOperation(t) /\ Reply(t, management_snapshot')
  <2>1. LifecycleTypeOK'
    BY <1>2, EndsOperationTyped DEF ManagementInv
  <2>2. management_snapshot' \in Snapshots
    BY <2>1, SnapshotTypedNext
  <2>3. HubInv'
    BY <1>2, <2>2, ReplyKeeps DEF ManagementInv
  <2>. QED
    BY <2>1, <2>3 DEF ManagementInv
<1>. QED
  BY <1>1, <1>2 DEF TaskGoesOn

LEMMA CancelledKeeps ==
  ASSUME ManagementInv, NEW t \in Task, Cancelled(t)
  PROVE  ManagementInv'
<1>1. TasksOK' /\ SocketsOK'
  BY LifecycleParts, EndTyped DEF ManagementInv, Cancelled, SocketsOK
<1>2. LifecycleTypeOK'
  BY <1>1, LifecycleParts, LifecyclePartsNext
     DEF ManagementInv, Cancelled, AgentsOK, ManagerOK, RestOK
<1>3. /\ owner' \in [Task -> Owners]
      /\ \A u \in Task : owner'[u] \in Client => owner'[u] = owner[u]
  BY DEF Cancelled, ManagementInv, HubInv, HubGood, Owners
<1>4. HubInv'
  BY <1>3 DEF Cancelled, ManagementInv, HubInv, HubGood, StreamGood
<1>. QED
  BY <1>2, <1>4 DEF ManagementInv

LEMMA RunsCommandKeeps ==
  ASSUME ManagementInv, NEW c \in Client, RunsCommand(c)
  PROVE  ManagementInv'
<1>. DEFINE action == NextCommand(c).action
            t == Fresh(UnusedTasks)
<1>0. LifecycleTypeOK /\ HubInv /\ CanTake(c) /\ action \in Action
  BY TakenGood DEF ManagementInv, RunsCommand
<1>1. CASE renew_passcode /\ RunAtOnce(c, management_snapshot')
  <2>1. LifecycleTypeOK'
    BY <1>0, <1>1, RenewTyped
  <2>. QED
    BY <1>0, <1>1, <2>1, SnapshotTypedNext, RunAtOnceKeeps DEF ManagementInv
<1>2. CASE UNCHANGED lifecycleVars /\ RunAtOnce(c, management_snapshot)
  BY <1>0, <1>2, LifecycleUnchanged, SnapshotTyped, RunAtOnceKeeps DEF ManagementInv
<1>3. CASE /\ action \in {"register", "login", "connect"} /\ t \in Task
           /\ Begin(action, t) /\ RunIn(c, t)
  BY <1>0, <1>3, BeginTyped, RunInKeeps DEF ManagementInv
<1>4. CASE ConfigureAtOnce(action = "configure") /\ RunAtOnce(c, management_snapshot')
  <2>1. LifecycleTypeOK'
    BY <1>0, <1>4, ConfigureAtOnceTyped
  <2>. QED
    BY <1>0, <1>4, <2>1, SnapshotTypedNext, RunAtOnceKeeps DEF ManagementInv
<1>5. CASE t \in Task /\ BeginConfigure(action = "configure", t) /\ RunIn(c, t)
  BY <1>0, <1>5, BeginConfigureTyped, RunInKeeps DEF ManagementInv
<1>. QED
  BY <1>1, <1>2, <1>3, <1>4, <1>5, FreshTask DEF RunsCommand

LEMMA ClientStepKeeps ==
  ASSUME ManagementInv, NEW c \in Client, ClientStep(c)
  PROVE  ManagementInv'
<1>0. LifecycleTypeOK /\ HubInv
  BY DEF ManagementInv
<1>1. ASSUME NEW action \in Action, Asks(c, action)
      PROVE  ManagementInv'
  <2>1. action \in Event /\ budget[action] \in Nat
    BY <1>0, LifecycleParts DEF Event, RestOK
  <2>2. <<action, budget[action]>> \in Id
    BY <2>1 DEF Id
  <2>. QED
    BY <1>0, <1>1, <2>1, <2>2, SpendsTyped, RequestKeeps DEF Asks, ManagementInv
<1>2. CASE RunsCommand(c)
  BY <1>2, RunsCommandKeeps
<1>3. CASE push_snapshots(c) /\ UNCHANGED lifecycleVars
  BY <1>0, <1>3, PushKeeps, LifecycleUnchanged DEF ManagementInv
<1>4. ASSUME UNCHANGED <<manager, agents, sockets, tasks, config>>,
             \/ Spend("subscribe") /\ Subscribe(c, management_snapshot)
             \/ Spend("timeout") /\ \E id \in streams[c].pending : RequestTimesOut(c, id)
             \/ Spend("leave") /\ Leave(c)
      PROVE  ManagementInv'
  <2>1. {"subscribe", "timeout", "leave"} \subseteq Event
    BY DEF Event
  <2>2. LifecycleTypeOK'
    BY <1>0, <1>4, <2>1, SpendsTyped
  <2>3. HubInv'
    BY <1>0, <1>4, SnapshotTyped, SubscribeKeeps, TimeoutKeeps, LeaveKeeps
  <2>. QED
    BY <2>2, <2>3 DEF ManagementInv
<1>. QED
  BY <1>1, <1>2, <1>3, <1>4 DEF ClientStep

LEMMA StepKeepsInv == ManagementInv /\ [Next]_vars => ManagementInv'
<1>. SUFFICES ASSUME ManagementInv, [Next]_vars PROVE ManagementInv'
  OBVIOUS
<1>1. ASSUME NEW t \in Task, TaskGoesOn(t) PROVE ManagementInv'
  BY <1>1, TaskGoesOnKeeps
<1>2. ASSUME NEW t \in Task, Cancelled(t) PROVE ManagementInv'
  BY <1>2, CancelledKeeps
<1>3. ASSUME NEW c \in Client, ClientStep(c) PROVE ManagementInv'
  BY <1>3, ClientStepKeeps
<1>4. ASSUME NEW s \in Socket, Drop(s), UNCHANGED streamVars PROVE ManagementInv'
  BY <1>4, DropTyped, HubUnchanged DEF ManagementInv
<1>5. CASE Watches
  <2>1. LifecycleTypeOK'
    BY <1>5, LifecycleUnchanged DEF Watches, ManagementInv
  <2>2. HubInv'
    BY <1>5, SnapshotTyped, PublishKeeps DEF Watches, run_watcher, ManagementInv, HubInv
  <2>. QED
    BY <2>1, <2>2 DEF ManagementInv
<1>6. CASE UNCHANGED vars
  <2>1. UNCHANGED lifecycleVars /\ UNCHANGED streamVars
    BY <1>6 DEF vars
  <2>. QED
    BY <2>1, LifecycleUnchanged, HubUnchanged DEF ManagementInv
<1>. QED
  BY <1>1, <1>2, <1>3, <1>4, <1>5, <1>6 DEF Next

LEMMA InitInv == Init => ManagementInv
<1>. SUFFICES ASSUME Init PROVE LifecycleTypeOK
  BY HubInitGood DEF Init, ManagementInv
<1>1. PICK start \in Starts :
        /\ config = [full |-> start.full, code |-> 0] /\ budget = start.bounds
        /\ IF start.full
           THEN /\ manager = [agent |-> 1, status |-> "Configured"]
                /\ tasks = [t \in Task |->
                              IF t = 1 THEN NewTask("boot", 1, "request") ELSE None]
           ELSE /\ manager = [agent |-> None, status |-> "Login/Connection Failed"]
                /\ tasks = [t \in Task |-> None]
  BY DEF Init, LifecycleInit
<1>2. start.full \in BOOLEAN /\ start.bounds \in [Event -> Nat]
  OBVIOUS
<1>3. AgentsOK /\ SocketsOK
  BY DEF Init, LifecycleInit, AgentsOK, SocketsOK, NewAgent, AgentState
<1>4. RestOK
  BY <1>1, <1>2 DEF RestOK
<1>5. ManagerOK
  <2>1. \/ manager = [agent |-> 1, status |-> "Configured"]
        \/ manager = [agent |-> None, status |-> "Login/Connection Failed"]
    BY <1>1
  <2>2. 1 \in Agent \cup {None} /\ None \in Agent \cup {None}
    BY LifecycleAssumption
  <2>. QED
    BY <2>1, <2>2, Statuses, ManagerTyped DEF ManagerOK
<1>6. TasksOK
  <2>1. NewTask("boot", 1, "request") \in TaskState
    BY NewTaskTyped
  <2>. QED
    BY <1>1, <2>1 DEF TasksOK
<1>. QED
  BY <1>3, <1>4, <1>5, <1>6, LifecycleParts

-----------------------------------------------------------------------------
LEMMA InvMeansTypes == ManagementInv => TypeOK
<1>. SUFFICES ASSUME ManagementInv PROVE HubTypeOK(Snapshots)
  BY DEF ManagementInv, TypeOK
<1>1. StreamTypeOK(Snapshots)
  <2>. SUFFICES ASSUME NEW c \in Client
                PROVE  LET s == streams[c]
                       IN /\ {s.open, s.heard} \subseteq BOOLEAN
                          /\ Len(s.queue) <= QueueSize
                          /\ ToSet(s.queue) \subseteq Snapshots
                          /\ s.open => s.view \in Snapshots
                          /\ ~s.open => s = Closed
    BY DEF StreamTypeOK
  <2>. DEFINE s == streams[c]
  <2>1. StreamGood(s, last)
    BY DEF ManagementInv, HubInv, HubGood
  <2>. HIDE DEF s
  <2>2. /\ {s.open, s.heard} \subseteq BOOLEAN
        /\ ToSet(s.queue) \subseteq Snapshots
    BY <2>1 DEF StreamGood, StreamState, ToSet
  <2>. QED
    BY <2>1, <2>2 DEF StreamGood, s
<1>. QED
  BY <1>1 DEF HubTypeOK, ManagementInv, HubInv, HubGood, Owners

\* The variables of the management keep their types: no status, phase or
\* connection is ever outside the sets the comments of the modules give.
THEOREM TypeCorrect == Spec => []TypeOK
<1>1. Spec => []ManagementInv
  BY InitInv, StepKeepsInv, PTL DEF Spec
<1>. QED
  BY <1>1, InvMeansTypes, PTL

LEMMA InvMeansNewest == ManagementInv => NewestArrives
<1>. SUFFICES ASSUME ManagementInv, NEW c \in Client, streams[c].heard
              PROVE  last = Last(<<streams[c].view>> \o streams[c].queue)
  BY DEF NewestArrives
<1>. DEFINE s == streams[c]
<1>1. StreamGood(s, last) /\ s.heard
  BY DEF ManagementInv, HubInv, HubGood
<1>. HIDE DEF s
<1>2. last = WillShow(s) /\ s.queue \in Seq(Snapshots)
  BY <1>1 DEF StreamGood, StreamState
<1>3. last = Last(<<s.view>> \o s.queue)
  BY <1>2, LastOfQueue DEF WillShow
<1>. QED
  BY <1>3 DEF s

\* Whatever the sizes and the order of publishing, pushing and dropping, a
\* client that is pushed everything shows the last snapshot broadcast.
THEOREM NewestShown == Spec => []NewestArrives
<1>1. Spec => []ManagementInv
  BY InitInv, StepKeepsInv, PTL DEF Spec
<1>. QED
  BY <1>1, InvMeansNewest, PTL

-----------------------------------------------------------------------------
(* The boot runs alone and on the manager's own agent; every other coroutine *)
(* that comes to dial either asked whether its agent was stopped or was      *)
(* begun on the manager's agent.                                             *)

IsBoot(t) == tasks[t] # None /\ tasks[t].kind = "boot"

BootInv ==
  \A t \in Task : IsBoot(t) =>
    /\ Of(t) = manager.agent
    /\ \A u \in Task : u # t => tasks[u] = None
    /\ \A c \in Client : streams[c] = Closed

Kept(u) == IsBoot(u)' => IsBoot(u) /\ Of(u)' = Of(u)
NoNewDial(u) == At(u, "dial")' => At(u, "dial") /\ Of(u)' = Of(u)
Calm == \A u \in Task : Kept(u) /\ NoNewDial(u)

LEMMA SameCalm == ASSUME UNCHANGED tasks PROVE Calm
  BY DEF Calm, Kept, NoNewDial, IsBoot, At, Of

LEMMA EndCalm == ASSUME TasksOK, NEW t \in Task, End(t) PROVE Calm /\ ~IsBoot(t)'
<1>1. \A u \in Task : tasks'[u] = IF u = t THEN None ELSE tasks[u]
  BY DEF TasksOK, End
<1>. QED
  BY <1>1 DEF Calm, Kept, NoNewDial, IsBoot, At, Of

LEMMA BecomeCalm ==
  ASSUME TasksOK, NEW t \in Task, NEW kind, NEW pc, kind # "boot", pc # "dial",
         Become(t, kind, pc)
  PROVE  Calm /\ ~IsBoot(t)'
<1>1. \A u \in Task : tasks'[u] = IF u = t THEN NewTask(kind, Of(t), pc) ELSE tasks[u]
  BY DEF TasksOK, Become
<1>2. NewTask(kind, Of(t), pc).kind = kind /\ NewTask(kind, Of(t), pc).pc = pc
  BY DEF NewTask
<1>3. ASSUME NEW u \in Task PROVE Kept(u) /\ NoNewDial(u)
  <2>1. CASE u = t
    BY <1>1, <1>2, <2>1 DEF Kept, NoNewDial, IsBoot, At
  <2>2. CASE u # t
    BY <1>1, <2>2 DEF Kept, NoNewDial, IsBoot, At, Of
  <2>. QED
    BY <2>1, <2>2
<1>. QED
  BY <1>1, <1>2, <1>3 DEF Calm, IsBoot

\* A task that goes on with the same kind and agent.
LEMMA MovedKept ==
  ASSUME TasksOK, NEW t \in Task, NEW after, tasks[t] # None,
         tasks' = [tasks EXCEPT ![t] = after],
         after.kind = tasks[t].kind, after.agent = tasks[t].agent
  PROVE  /\ \A u \in Task : Kept(u)
         /\ \A u \in Task : u # t => NoNewDial(u)
         /\ after.pc # "dial" => Calm
<1>1. \A u \in Task : tasks'[u] = IF u = t THEN after ELSE tasks[u]
  BY DEF TasksOK
<1>. QED
  BY <1>1 DEF Calm, Kept, NoNewDial, IsBoot, At, Of

LEMMA Moved ==
  ASSUME TasksOK, NEW t \in Task, tasks[t] # None, NEW p, NEW s
  PROVE  /\ [tasks[t] EXCEPT !.pc = p].kind = tasks[t].kind
         /\ [tasks[t] EXCEPT !.pc = p].agent = tasks[t].agent
         /\ [tasks[t] EXCEPT !.pc = p].pc = p
         /\ [[tasks[t] EXCEPT !.pc = p] EXCEPT !.socket = s].kind = tasks[t].kind
         /\ [[tasks[t] EXCEPT !.pc = p] EXCEPT !.socket = s].agent = tasks[t].agent
         /\ [[tasks[t] EXCEPT !.pc = p] EXCEPT !.socket = s].pc = p
<1>1. tasks[t] \in TaskState
  BY DEF TasksOK
<1>. QED
  BY <1>1 DEF TaskState

LEMMA PcMoves ==
  ASSUME TasksOK, NEW t \in Task, tasks[t] # None, NEW p,
         tasks' = [tasks EXCEPT ![t].pc = p]
  PROVE  /\ \A u \in Task : Kept(u)
         /\ \A u \in Task : u # t => NoNewDial(u)
         /\ p # "dial" => Calm
<1>. DEFINE after == [tasks[t] EXCEPT !.pc = p]
<1>1. /\ tasks' = [tasks EXCEPT ![t] = after]
      /\ after.kind = tasks[t].kind /\ after.agent = tasks[t].agent /\ after.pc = p
  BY Moved DEF TasksOK
<1>. HIDE DEF after
<1>. QED
  BY <1>1, MovedKept

LEMMA SocketMoves ==
  ASSUME TasksOK, NEW t \in Task, tasks[t] # None, NEW p, NEW s, p # "dial",
         tasks' = [tasks EXCEPT ![t].pc = p, ![t].socket = s]
  PROVE  Calm
<1>. DEFINE old == tasks[t]
            after == [old EXCEPT !.pc = p, !.socket = s]
<1>1. old \in TaskState
  BY TaskTyped
<1>2. tasks' = [tasks EXCEPT ![t] = after]
  OBVIOUS
<1>. HIDE DEF old
<1>3. after.kind = old.kind /\ after.agent = old.agent /\ after.pc = p
  BY <1>1 DEF TaskState
<1>. HIDE DEF after
<1>. QED
  BY <1>2, <1>3, MovedKept DEF old

LEMMA RaisesCalm ==
  ASSUME TasksOK, NEW t \in Task, ConnectRaises(t)
  PROVE  Calm /\ ~IsBoot(t)'
<1>1. CASE Become(t, "reconnect", "sleep")
  <2>1. "reconnect" # "boot" /\ "sleep" # "dial"
    OBVIOUS
  <2>. QED
    BY <1>1, <2>1, BecomeCalm
<1>2. CASE End(t)
  BY <1>2, EndCalm
<1>. QED
  BY <1>1, <1>2 DEF ConnectRaises

LEMMA ListenEndsCalm == ASSUME TasksOK, NEW t \in Task, ListenEnds(t) PROVE Calm
<1>1. CASE Become(t, "reconnect", "sleep")
  <2>1. "reconnect" # "boot" /\ "sleep" # "dial"
    OBVIOUS
  <2>. QED
    BY <1>1, <2>1, BecomeCalm
<1>2. CASE End(t)
  BY <1>2, EndCalm
<1>. QED
  BY <1>1, <1>2 DEF ListenEnds

\* Only a login that was answered brings a task of its own to dial.
LEMMA OwnStepCalm ==
  ASSUME TasksOK, NEW t \in Task, OwnStep(t)
  PROVE  \/ Calm
         \/ /\ (LoggedInAgain(t) /\ ~agents[Of(t)].stopped) \/ BootLoggedIn(t)
            /\ \A u \in Task : Kept(u)
            /\ \A u \in Task : u # t => NoNewDial(u)
<1>1. CASE Dialed(t)
  BY <1>1, SocketMoves DEF Dialed, At
<1>2. CASE ListenStarts(t)
  <2>1. tasks[t] # None
    BY <1>2 DEF ListenStarts, At
  <2>2. CASE End(t)
    BY <2>2, EndCalm
  <2>3. CASE ListenEnds(t)
    BY <2>3, ListenEndsCalm
  <2>4. CASE tasks' = [tasks EXCEPT ![t].pc = "read",
                                    ![t].socket = agents[Of(t)].websocket]
    BY <2>1, <2>4, SocketMoves
  <2>. QED
    BY <1>2, <2>2, <2>3, <2>4 DEF ListenStarts
<1>3. CASE SocketClosed(t)
  BY <1>3, ListenEndsCalm DEF SocketClosed
<1>4. CASE Wake(t)
  <2>1. "reconnect" # "boot" /\ "request" # "dial"
    OBVIOUS
  <2>. QED
    BY <1>4, <2>1, EndCalm, BecomeCalm DEF Wake
<1>5. CASE LoggedInAgain(t)
  <2>1. CASE agents[Of(t)].stopped
    BY <1>5, <2>1, EndCalm DEF LoggedInAgain
  <2>2. CASE ~agents[Of(t)].stopped
    BY <1>5, <2>2, PcMoves DEF LoggedInAgain, GoOnDialing, At
  <2>. QED
    BY <2>1, <2>2
<1>6. CASE LoginAgainFailed(t)
  BY <1>6, EndCalm DEF LoginAgainFailed
<1>7. CASE BootLoggedIn(t)
  BY <1>7, PcMoves DEF BootLoggedIn, GoOnDialing, At
<1>8. CASE BootLoginFailed(t)
  BY <1>8, EndCalm DEF BootLoginFailed
<1>9. CASE Close(t)
  BY <1>9, SameCalm DEF Close
<1>. QED
  BY <1>1, <1>2, <1>3, <1>4, <1>5, <1>6, <1>7, <1>8, <1>9 DEF OwnStep

LEMMA EndsOperationCalm ==
  ASSUME TasksOK, NEW t \in Task, EndsOperation(t)
  PROVE  Calm /\ ~IsBoot(t)'
<1>1. CASE Accepted(t)
  <2>1. "listen" # "boot" /\ "start" # "dial"
    OBVIOUS
  <2>. QED
    BY <1>1, <2>1, BecomeCalm DEF Accepted, ConnectReturns
<1>2. CASE DialFailed(t) \/ GreetFailed(t)
  BY <1>2, RaisesCalm DEF DialFailed, GreetFailed
<1>3. CASE Authorized(t) \/ AuthorizeFailed(t) \/ Configured(t)
  BY <1>3, EndCalm DEF Authorized, AuthorizeFailed, Configured
<1>. QED
  BY <1>1, <1>2, <1>3 DEF EndsOperation

\* A task that a command begins is no boot, and dials for the manager's agent.
LEMMA BegunCalm ==
  ASSUME TasksOK, NEW t \in Task, NEW kind, kind # "boot", NEW a, NEW new,
         new.kind = kind, new.agent = a, tasks' = [tasks EXCEPT ![t] = new]
  PROVE  /\ \A u \in Task : Kept(u)
         /\ \A u \in Task : u # t => NoNewDial(u)
         /\ new.pc # "dial" => Calm
         /\ Of(t)' = a
<1>1. \A u \in Task : tasks'[u] = IF u = t THEN new ELSE tasks[u]
  BY DEF TasksOK
<1>. QED
  BY <1>1 DEF Calm, Kept, NoNewDial, IsBoot, At, Of

LEMMA RunsCommandCalm ==
  ASSUME TasksOK, NEW c \in Client, RunsCommand(c)
  PROVE  /\ \A u \in Task : Kept(u)
         /\ \A u \in Task : NoNewDial(u) \/ Of(u)' = manager.agent
<1>. DEFINE action == NextCommand(c).action
            t == Fresh(UnusedTasks)
<1>. HIDE DEF action
<1>1. CASE UNCHANGED tasks
  BY <1>1, SameCalm DEF Calm
<1>2. CASE action \in {"register", "login", "connect"} /\ t \in Task /\ Begin(action, t)
  <2>. DEFINE new == NewTask(action, manager.agent,
                             IF action = "connect" THEN "dial" ELSE "request")
  <2>1. new.kind = action /\ new.agent = manager.agent /\ action # "boot"
    BY <1>2 DEF NewTask
  <2>2. tasks' = [tasks EXCEPT ![t] = new]
    BY <1>2 DEF Begin
  <2>. HIDE DEF new
  <2>. QED
    BY <1>2, <2>1, <2>2, BegunCalm
<1>3. CASE t \in Task /\ BeginConfigure(action = "configure", t)
  <2>. DEFINE kind == IF action = "configure" THEN "configure" ELSE "clear"
              new == [NewTask(kind, manager.agent, "closing") EXCEPT
                        !.socket = agents[manager.agent].websocket]
  <2>1. new.kind = kind /\ new.agent = manager.agent /\ kind # "boot"
    BY DEF NewTask
  <2>2. tasks' = [tasks EXCEPT ![t] = new]
    BY <1>3 DEF BeginConfigure
  <2>. HIDE DEF new, kind
  <2>. QED
    BY <1>3, <2>1, <2>2, BegunCalm
<1>. QED
  BY <1>1, <1>2, <1>3, FreshTask
     DEF RunsCommand, action, renew_passcode, lifecycleVars, ConfigureAtOnce

LEMMA TaskGoesOnCalm ==
  ASSUME TasksOK, NEW t \in Task, TaskGoesOn(t)
  PROVE  \A u \in Task : Kept(u)
  BY OwnStepCalm, EndsOperationCalm DEF TaskGoesOn, Calm

\* While a boot runs no client is connected, so its steps are all there is.
LEMMA BootInvKept == ManagementInv /\ BootInv /\ [Next]_vars => BootInv'
<1>. SUFFICES ASSUME ManagementInv, BootInv, [Next]_vars, NEW b \in Task, IsBoot(b)'
              PROVE  /\ Of(b)' = manager'.agent
                     /\ \A u \in Task : u # b => tasks'[u] = None
                     /\ \A c \in Client : streams'[c] = Closed
  BY DEF BootInv, IsBoot
<1>0. TasksOK
  BY LifecycleParts DEF ManagementInv
<1>. DEFINE Goal == /\ Of(b)' = manager'.agent
                    /\ \A u \in Task : u # b => tasks'[u] = None
                    /\ \A c \in Client : streams'[c] = Closed
<1>1. ASSUME IsBoot(b), Of(b)' = Of(b), manager'.agent = manager.agent, UNCHANGED streams,
             \A u \in Task : u # b => tasks'[u] = tasks[u]
      PROVE  Goal
  BY <1>1 DEF BootInv
<1>. DEFINE Alone == /\ IsBoot(b) /\ Booting
                     /\ \A u \in Task : u # b => tasks[u] = None
                     /\ \A c \in Client : streams[c] = Closed
<1>2. IsBoot(b) => Alone
  BY DEF BootInv, IsBoot, Booting
<1>. HIDE DEF Goal
<1>3. ASSUME NEW t \in Task, TaskGoesOn(t) PROVE Goal
  <2>1. IsBoot(b) /\ Of(b)' = Of(b)
    BY <1>0, <1>3, TaskGoesOnCalm DEF Kept
  <2>2. tasks[t] # None
    BY <1>3 DEF TaskGoesOn, OwnStep, EndsOperation, Dialed, ListenStarts, SocketClosed, Wake,
       LoggedInAgain, BootLoggedIn, LoginAgainFailed, BootLoginFailed, Close, Accepted,
       Authorized, Configured, DialFailed, GreetFailed, AuthorizeFailed, At
  <2>3. t = b
    BY <1>2, <2>1, <2>2
  <2>4. OwnStep(t) /\ UNCHANGED streams
    BY <1>0, <1>3, <2>3, EndsOperationCalm DEF TaskGoesOn, streamVars
  <2>5. tasks[t].kind = "boot" /\ t = b
    BY <2>1, <2>3 DEF IsBoot
  <2>6. ~BootLoginFailed(t)
    BY <1>0, <2>3, EndCalm DEF BootLoginFailed
  <2>7. manager'.agent = manager.agent
    <3>1. CASE UNCHANGED manager
      BY <3>1
    <3>2. CASE BootLoggedIn(t)
      <4>1. manager \in ManagerState
        BY LifecycleParts DEF ManagementInv, ManagerOK
      <4>. QED
        BY <3>2, <4>1 DEF BootLoggedIn, ManagerState
    <3>. QED
      BY <2>4, <2>6, <3>1, <3>2 DEF OwnStep, Dialed, ListenStarts, SocketClosed, Wake,
         LoggedInAgain, LoginAgainFailed, Close
  <2>8. \A u \in Task : u # t => tasks'[u] = tasks[u]
    BY <1>0, <2>4 DEF TasksOK, OwnStep, Dialed, ListenStarts, SocketClosed, Wake,
       LoggedInAgain, BootLoggedIn, LoginAgainFailed, BootLoginFailed, Close, ListenEnds, End,
       Become, GoOnDialing
  <2>. QED
    BY <1>1, <2>1, <2>4, <2>5, <2>7, <2>8
<1>4. ASSUME NEW t \in Task, Cancelled(t) PROVE Goal
  <2>1. IsBoot(b) /\ Of(b)' = Of(b)
    BY <1>0, <1>4, EndCalm DEF Cancelled, Calm, Kept
  <2>2. t # b
    BY <1>0, <1>4, EndCalm DEF Cancelled
  <2>3. \A u \in Task : u # b => tasks'[u] = tasks[u]
    BY <1>0, <1>2, <1>4, <2>1 DEF Cancelled, End, TasksOK
  <2>. QED
    BY <1>1, <1>4, <2>1, <2>3 DEF Cancelled
<1>5. ASSUME NEW c \in Client, ClientStep(c) PROVE Goal
  <2>1. IsBoot(b)
    <3>1. CASE RunsCommand(c)
      BY <1>0, <3>1, RunsCommandCalm DEF Kept
    <3>2. CASE UNCHANGED tasks
      BY <3>2 DEF IsBoot
    <3>. QED
      BY <1>5, <3>1, <3>2 DEF ClientStep, Asks, lifecycleVars
  <2>2. /\ streams[c].open = FALSE /\ streams[c].up = <<>> /\ streams[c].queue = <<>>
        /\ streams[c].pending = {} /\ Booting
    BY <1>2, <2>1 DEF Closed
  <2>. QED
    BY <1>5, <2>2 DEF ClientStep, Asks, request, RunsCommand, CanTake, push_snapshots,
       Subscribe, RequestTimesOut, Leave
<1>6. ASSUME NEW s \in Socket, Drop(s), UNCHANGED streamVars PROVE Goal
  BY <1>1, <1>6 DEF Drop, streamVars, IsBoot, Of
<1>7. ASSUME Watches PROVE Goal
  BY <1>2, <1>7 DEF Watches, lifecycleVars, IsBoot
<1>8. ASSUME UNCHANGED vars PROVE Goal
  BY <1>1, <1>8 DEF vars, lifecycleVars, streamVars, IsBoot, Of
<1>9. Goal
  BY <1>3, <1>4, <1>5, <1>6, <1>7, <1>8 DEF Next
<1>. QED
  BY <1>9 DEF Goal

LEMMA InitBoot == Init => BootInv
<1>. SUFFICES ASSUME Init PROVE BootInv
  OBVIOUS
<1>1. \A c \in Client : streams[c] = Closed
  BY DEF Init, HubInit
<1>2. \/ \A t \in Task : tasks[t] = None
      \/ /\ manager.agent = 1
         /\ \A t \in Task : tasks[t] = IF t = 1 THEN NewTask("boot", 1, "request") ELSE None
  <2>1. PICK start \in Starts :
          IF start.full
          THEN /\ manager = [agent |-> 1, status |-> "Configured"]
               /\ tasks = [t \in Task |->
                             IF t = 1 THEN NewTask("boot", 1, "request") ELSE None]
          ELSE tasks = [t \in Task |-> None]
    BY DEF Init, LifecycleInit
  <2>2. CASE start.full
    BY <2>1, <2>2
  <2>3. CASE ~start.full
    BY <2>1, <2>3
  <2>. QED
    BY <2>2, <2>3
<1>. QED
  BY <1>1, <1>2 DEF BootInv, IsBoot, Of, NewTask

StepIsQuiet ==
  \A a \in Agent : agents[a].stopped /\ a # manager.agent => Dials(a)' \subseteq Dials(a)

LEMMA QuietStep == ManagementInv /\ BootInv /\ [Next]_vars => StepIsQuiet
<1>. SUFFICES ASSUME ManagementInv, BootInv, [Next]_vars,
                     NEW a \in Agent, agents[a].stopped, a # manager.agent,
                     NEW u \in Task, At(u, "dial")', Of(u)' = a
              PROVE  At(u, "dial") /\ Of(u) = a
  BY DEF StepIsQuiet, Dials
<1>0. TasksOK
  BY LifecycleParts DEF ManagementInv
<1>1. CASE Calm
  BY <1>1 DEF Calm, NoNewDial
<1>2. ASSUME NEW t \in Task, OwnStep(t), ~Calm PROVE NoNewDial(u)
  <2>1. /\ (LoggedInAgain(t) /\ ~agents[Of(t)].stopped) \/ BootLoggedIn(t)
        /\ Kept(t)
        /\ u # t => NoNewDial(u)
    BY <1>0, <1>2, OwnStepCalm
  <2>2. Of(t)' = Of(t)
    <3>1. tasks[t] # None /\ tasks' = [tasks EXCEPT ![t].pc = "dial"]
      BY <2>1 DEF LoggedInAgain, BootLoggedIn, GoOnDialing, At
    <3>2. tasks'[t] = [tasks[t] EXCEPT !.pc = "dial"] /\ tasks[t] \in TaskState
      BY <1>0, <3>1 DEF TasksOK
    <3>. QED
      BY <3>2 DEF Of, TaskState
  <2>3. BootLoggedIn(t) => Of(t) = manager.agent
    BY DEF BootLoggedIn, BootInv, IsBoot, At
  <2>4. u # t
    BY <2>1, <2>2, <2>3
  <2>. QED
    BY <2>1, <2>4
<1>3. ASSUME NEW t \in Task, EndsOperation(t) PROVE Calm
  BY <1>0, <1>3, EndsOperationCalm
<1>4. ASSUME NEW t \in Task, Cancelled(t) PROVE Calm
  BY <1>0, <1>4, EndCalm DEF Cancelled
<1>5. ASSUME NEW c \in Client, RunsCommand(c) PROVE NoNewDial(u)
  BY <1>0, <1>5, RunsCommandCalm
<1>6. ASSUME UNCHANGED tasks PROVE Calm
  BY <1>6, SameCalm
<1>7. Calm \/ NoNewDial(u)
  BY <1>2, <1>3, <1>4, <1>5, <1>6, SameCalm
     DEF Next, TaskGoesOn, ClientStep, Asks, Drop, Watches, vars, lifecycleVars
<1>. QED
  BY <1>7 DEF Calm, NoNewDial

\* However many agents, coroutines and clients there are, an agent that was
\* stopped and replaced never comes to dial the proxy again.
THEOREM ReplacedStayQuiet == Spec => QuietOnceReplaced
<1>1. Spec => [](ManagementInv /\ BootInv)
  BY InitInv, InitBoot, StepKeepsInv, BootInvKept, PTL DEF Spec
<1>2. ManagementInv /\ BootInv /\ [Next]_vars => [StepIsQuiet]_vars
  BY QuietStep
<1>3. Spec => [][StepIsQuiet]_vars
  BY <1>1, <1>2, PTL DEF Spec
<1>. QED
  BY <1>3 DEF QuietOnceReplaced, StepIsQuiet

=============================================================================
