-------------------------------- MODULE Ingest --------------------------------
(***************************************************************************)
(* The backend's ingest (backend/services/ingest.py): every chat line is   *)
(* stored and cached, and each conversation it may belong to is judged by  *)
(* the classifier and, if flagged, raised as an alert.                     *)
(*                                                                         *)
(* One event loop: an action is what a task does from one await to the     *)
(* next.  A task is the ingest of one message and has its number.          *)
(***************************************************************************)
EXTENDS Alerts, ClassifierStream

CONSTANTS
  MaxMessages,          \* bound: messages stored
  MinMessages,          \* CLASSIFIER_MIN_MESSAGES, 7 in the code
  max_retries,          \* of ensure_connected, 5 in the code
  Starts                \* the child accounts there are, in order; and bounds:
                        \* who writes, how many minutes apart, and the events the
                        \* behaviour may contain

Task == 1..MaxMessages
Event == {"messages", "connects", "drops", "losses", "expiries", "loads", "viewers",
          "leaves", "acks", "analyses"}

ASSUME IngestAssumption ==
  /\ MaxMessages \in Nat /\ MinMessages \in Nat /\ max_retries \in Nat \ {0}
  /\ Request = [task : Task, child : DOMAIN ParentOf, target : User]
  /\ \A start \in Starts :
       /\ start.children \in Seq(DOMAIN ParentOf)
       /\ start.writing.users \subseteq User /\ start.writing.minutes \subseteq Nat
       /\ start.bounds \in [Event -> Nat]

VARIABLES
  tasks,        \* per task: its place in process_ingest
  children,     \* the child accounts, in order
  writing,      \* bound: who writes, and how many minutes after the last one
  budget        \* bound: events the behaviour may still contain

vars == <<storeVars, streamVars, tasks, children, writing, budget>>

Judgement == [child : DOMAIN ParentOf, target : User, talk : Seq(Task)]
Running == {"connecting", "judging", "telling"}
TaskState ==
  [pc : Running \cup {"none", "received", "refused", "error"}, todo : SUBSET Judgement,
   current : Judgement \cup {None}, tries : 0..max_retries, audience : Seq(Viewer),
   alert : Nat]

TypeOK ==
  /\ StoreTypeOK /\ StreamTypeOK
  /\ tasks \in [Task -> TaskState]
  /\ children \in Seq(DOMAIN ParentOf)
  /\ writing.users \subseteq User /\ writing.minutes \subseteq Nat
  /\ budget \in [Event -> Nat]

Idle ==
  [pc |-> "none", todo |-> {}, current |-> None, tries |-> 0, audience |-> <<>>, alert |-> 0]

Init ==
  /\ StoreInit /\ StreamInit
  /\ tasks = [t \in Task |-> Idle]
  /\ \E start \in Starts :
       children = start.children /\ writing = start.writing /\ budget = start.bounds

Spend(event) ==
  /\ budget[event] > 0
  /\ budget' = [budget EXCEPT ![event] = @ - 1]

-----------------------------------------------------------------------------
(* The conversations to judge *)

\* Mutant: the child's messages only.
conversationOfChild(log, collection, child, target) == ChatOf(log, collection, child)

(* Both senders' messages, sorted by created_at. *)
conversation(log, collection, child, target) ==
  Sorted(ChatOf(log, collection, target) \o ChatOf(log, collection, child))

(* Of every child account that has written, with every other sender. *)
Judgements(log, collection) ==
  LET users == {log[collection[i]].user : i \in DOMAIN collection}
      judgement(pair) == [child |-> pair[1], target |-> pair[2],
                          talk |-> conversation(log, collection, pair[1], pair[2])]
      pairs == {pair \in (ToSet(children) \cap users) \X users : pair[1] # pair[2]}
  IN {j \in {judgement(pair) : pair \in pairs} : Len(j.talk) >= MinMessages}

(* They are judged in the order of the child accounts, and for each in the *)
(* order of the others' first messages.                                    *)
ChildIndex(child) == Min({c \in DOMAIN children : children[c] = child})
FirstMessage(log, user) == Min({n \in DOMAIN log : log[n].user = user})
ComesFirst(j, todo, log) ==
  \A k \in todo :
    \/ ChildIndex(j.child) < ChildIndex(k.child)
    \/ j.child = k.child /\ FirstMessage(log, j.target) <= FirstMessage(log, k.target)

Asked(t, j) == [task |-> t, child |-> j.child, target |-> j.target]
Current(t) == Asked(t, tasks[t].current)

Become(t, state) == tasks' = [tasks EXCEPT ![t] = state]
Ending(pc) == [Idle EXCEPT !.pc = pc]
Asking(pc, j, todo, tries) ==
  [Idle EXCEPT !.pc = pc, !.current = j, !.todo = todo \ {j}, !.tries = tries]
Telling(state, audience, alert) ==
  [pc |-> "telling", todo |-> state.todo, current |-> state.current, tries |-> 0,
   audience |-> audience, alert |-> alert]

End(t, pc, list) == Become(t, Ending(pc)) /\ rows' = Close(list, <<"ingest", t>>)
Leave(queue, futures) == lock' = queue /\ future' = futures /\ UNCHANGED <<pending, inference>>

(* The load task t takes its messages from: its own, or else the newest    *)
(* there was when it began.                                                *)
Using(list, t) ==
  Max({g \in DOMAIN list : list[g].count < t \/ list[g].by = <<"ingest", t>>})

(* The loop goes on with what is left to judge; the text is put together   *)
(* before the connection is awaited.                                       *)
Continue(t, todo, log, queue, futures, list) ==
  \/ todo = {} /\ End(t, "received", list) /\ Leave(queue, futures)
  \/ \E j \in todo :
       LET words == ToSet(j.talk)
       IN /\ ComesFirst(j, todo, log)
          /\ \/ /\ ~Readable(list, Using(list, t), words)
                /\ End(t, "error", list) /\ Leave(queue, futures)
             \/ /\ Readable(list, Using(list, t), words)
                /\ rows' = Read(list, Using(list, t), words)
                /\ \/ /\ connected
                      /\ Become(t, Asking("judging", j, todo, 0))
                      /\ classify(Asked(t, j), queue, futures)
                   \/ /\ ~connected
                      /\ Become(t, Asking("connecting", j, todo, max_retries))
                      /\ Leave(queue, futures)

-----------------------------------------------------------------------------
\* Mutant: the message is taken to be in the collection already.
CollectionSynced(n) == sync_message_cache(n)

(* The collection with the new message: one that was just loaded from the  *)
(* store holds it already, and is given it again.                          *)
Collection(n) == Append(sync_message_cache(n), n)

(* process_ingest up to its first await, minutes after the message before. *)
(* All rows are read to group the messages by their senders.               *)
process_ingest(user, minutes) ==
  LET n == Len(messages) + 1
      last == IF messages = <<>> THEN 0 ELSE messages[Len(messages)].at
      collection == Collection(n)
      synced == Synced(n, <<"ingest", n>>)
      all == ToSet(collection)
  IN /\ Spend("messages") /\ n \in Task
     /\ messages' = Append(messages, [user |-> user, at |-> last + minutes])
     /\ cache' = {collection}
     /\ \/ /\ ~Readable(synced, Len(synced), all)
           /\ End(n, "error", synced) /\ Leave(lock, future)
        \/ /\ Readable(synced, Len(synced), all)
           /\ Continue(n, Judgements(messages', collection), messages', lock, future,
                       Read(synced, Len(synced), all))
     /\ UNCHANGED <<alerts, analyses, viewerVars, analysing,
                    websocket, connection, results, verdicts, children, writing>>

(* ensure_connected after one of its sleeps. *)
Wake(t) ==
  LET state == tasks[t]
  IN /\ state.pc = "connecting"
     /\ \/ /\ connected
           /\ Become(t, [state EXCEPT !.pc = "judging", !.tries = 0])
           /\ classify(Current(t), lock, future)
           /\ UNCHANGED rows
        \/ /\ ~connected /\ state.tries = 1
           /\ End(t, "refused", rows) /\ Leave(lock, future)
        \/ /\ ~connected /\ state.tries > 1
           /\ Become(t, [state EXCEPT !.tries = @ - 1])
           /\ Leave(lock, future) /\ UNCHANGED rows
     /\ UNCHANGED <<messages, cache, alerts, analyses, viewerVars, analysing, websocket,
                    connection, results, verdicts, children, writing, budget>>

EnterLock(t) ==
  /\ tasks[t].pc = "judging"
  /\ Acquire(Current(t))
  /\ UNCHANGED <<storeVars, tasks, children, writing, budget>>

(* A ConnectionError is answered with 503; any other error ends in 500.    *)
(* What the task has raised before stays.                                  *)
JudgingFails(t) ==
  /\ tasks[t].pc = "judging"
  /\ \/ Disconnected(Current(t)) /\ End(t, "refused", rows)
     \/ (NoConnection(Current(t)) \/ TimesOut(Current(t))) /\ End(t, "error", rows)
  /\ Fail(Current(t))
  /\ UNCHANGED <<messages, cache, alerts, analyses, viewerVars, analysing, children, writing,
                 budget>>

\* Mutant: what is not flagged is raised as well.
FlaggedOrNot(r) == \E result \in results : result.to = r

Flagged(r) == \E result \in results : result.to = r /\ result.flagged

(* The verdict is there: the next conversation, or notify_parent up to its *)
(* first await.  Without viewers nothing is awaited.  The alert is saved   *)
(* before the conversation is read for the frame.                          *)
Judged(t) ==
  LET state == tasks[t]
      pair == state.current
      words == ToSet(pair.talk)
      audience == Audience(pair.child)
      raised == upsert_analysis(RaisedIndex(pair), Len(pair.talk))
      saved == Commit(rows, <<"ingest", t>>)
      read == Read(saved, Using(saved, t), words)
      futures == Ended(Current(t), "returned")
  IN /\ state.pc = "judging" /\ future[Current(t)] = "set"
     /\ \/ /\ ~Flagged(Current(t))
           /\ Continue(t, state.todo, messages, Released, futures, rows)
           /\ UNCHANGED <<alerts, analyses>>
        \/ /\ Flagged(Current(t)) /\ ~Readable(saved, Using(saved, t), words)
           /\ alerts' = upsert_alert(pair, t)
           /\ analyses' = raised
           /\ End(t, "error", saved) /\ Leave(Released, futures)
        \/ /\ Flagged(Current(t)) /\ Readable(saved, Using(saved, t), words)
           /\ audience = <<>>
           /\ alerts' = upsert_alert(pair, t)
           /\ analyses' = increment_unprocessed_count(raised, RaisedIndex(pair))
           /\ Continue(t, state.todo, messages, Released, futures,
                       Commit(read, <<"ingest", t>>))
        \/ /\ Flagged(Current(t)) /\ Readable(saved, Using(saved, t), words)
           /\ audience # <<>>
           /\ alerts' = upsert_alert(pair, t)
           /\ analyses' = raised
           /\ Become(t, Telling(state, audience, RaisedIndex(pair)))
           /\ rows' = read /\ Leave(Released, futures)
     /\ UNCHANGED <<messages, cache, viewerVars, analysing,
                    websocket, connection, results, verdicts, children, writing, budget>>

\* Mutant: a socket that raises ends the round.
RestOfRound(t) == IF seat[Head(tasks[t].audience)] = "on" THEN Tail(tasks[t].audience)
                  ELSE <<>>

Rest(t) == Tail(tasks[t].audience)

(* The next socket; after the last one the analysis counts the message. *)
Tell(t) ==
  LET state == tasks[t]
  IN /\ state.pc = "telling"
     /\ Notify(Head(state.audience), state.alert, t)
     /\ \/ /\ Rest(t) # <<>>
           /\ Become(t, [state EXCEPT !.audience = Rest(t)])
           /\ UNCHANGED <<rows, analyses, lock, pending, future, inference>>
        \/ /\ Rest(t) = <<>>
           /\ analyses' = increment_unprocessed_count(analyses, state.alert)
           /\ Continue(t, state.todo, messages, lock, future, Commit(rows, <<"ingest", t>>))
     /\ UNCHANGED <<messages, cache, alerts, seat, joined, analysing, websocket, connection,
                    results, verdicts, children, writing, budget>>

-----------------------------------------------------------------------------
TaskGoesOn(t) == Wake(t) \/ EnterLock(t) \/ JudgingFails(t) \/ Judged(t) \/ Tell(t)

StreamStep ==
  \/ \E s \in Socket : Spend("connects") /\ connect(s)
  \/ \E s \in Socket : Spend("drops") /\ Drop(s)
  \/ \E s \in Socket : disconnect(s) /\ UNCHANGED budget
  \/ \E r \in inference, flagged \in BOOLEAN : handle_message(r, flagged) /\ UNCHANGED budget
  \/ \E r \in inference : Spend("losses") /\ LoseJob(r)

StoreStep ==
  \/ Spend("expiries") /\ ExpireCache
  \/ \E i \in DOMAIN alerts : Spend("acks") /\ acknowledge_alert(i)
  \/ \E p \in Page : Spend("loads") /\ LoadAlerts(p)
  \/ \E v \in Viewer : Spend("viewers") /\ ConnectViewer(v)
  \/ \E v \in Viewer : Spend("leaves") /\ LoseViewer(v)
  \/ \E v \in Viewer : DisconnectViewer(v) /\ UNCHANGED budget
  \/ \E c \in Analyst, i \in DOMAIN alerts : Spend("analyses") /\ BeginAnalysis(c, i)
  \/ \E call \in analysing :
       (FailAnalysis(call) \/ \E found \in Findings : EndAnalysis(call, found))
       /\ UNCHANGED budget

Next ==
  \/ \E user \in writing.users, minutes \in writing.minutes : process_ingest(user, minutes)
  \/ \E t \in Task : TaskGoesOn(t)
  \/ StreamStep /\ UNCHANGED <<storeVars, tasks, children, writing>>
  \/ StoreStep /\ UNCHANGED <<streamVars, tasks, children, writing>>

(* The event loop resumes what can go on, and its timers fire. *)
Fairness == \A t \in Task : WF_vars(TaskGoesOn(t))

Spec == Init /\ [][Next]_vars /\ Fairness

-----------------------------------------------------------------------------
(* However the cache expires, and whoever loads it, it holds every stored  *)
(* message in order, and at most one of them twice.                        *)
CacheHoldsStore ==
  \A collection \in cache :
    /\ ToSet(collection) = DOMAIN messages
    /\ Len(collection) <= Len(messages) + 1
    /\ \A i \in 2..Len(collection) : collection[i - 1] <= collection[i]

(* What a task has the classifier judge is all the two senders wrote up to *)
(* its message, and at most one message of it twice.                       *)
JudgedWhole ==
  \A t \in Task : \A j \in tasks[t].todo \cup ({tasks[t].current} \ {None}) :
    LET theirs == {n \in 1..t : messages[n].user \in {j.child, j.target}}
    IN ToSet(j.talk) = theirs /\ Len(j.talk) <= Cardinality(theirs) + 1

(* README.md says that a conversation is judged from CLASSIFIER_MIN_       *)
(* MESSAGES on; after an empty cache the new message counts twice.         *)
WaitsForMinMessages ==
  \A t \in Task : \A j \in {tasks[t].current} \ {None} :
    Cardinality({n \in 1..t : messages[n].user \in {j.child, j.target}}) >= MinMessages

(* A call of classify ends in the verdict on its own conversation or in an *)
(* error, also when the answer of one that timed out comes during another. *)
GetsOwnVerdict ==
  /\ \A r \in Request :
       future[r] = "returned" => \E result \in results : result.to = r
  /\ \A result \in results : result.to = result.of

(* The table holds the request that has the lock and nothing else: calls   *)
(* that fail, time out or lose their socket leave nothing behind.          *)
PendingIsAsked ==
  pending = {r \in Request : future[r] = "waiting"}
  /\ \A r \in pending : lock # <<>> /\ Head(lock) = r

(* There is one alert for a pair, and the classifier flagged what its last *)
(* message had judged, of this pair.                                       *)
AlertWasFlagged ==
  /\ \A i, j \in DOMAIN alerts :
       alerts[i].child = alerts[j].child /\ alerts[i].target = alerts[j].target => i = j
  /\ \A i \in DOMAIN alerts :
       [of |-> [task |-> alerts[i].by, child |-> alerts[i].child, target |-> alerts[i].target],
        flagged |-> TRUE] \in verdicts

(* A page whose socket is registered has been given the newest state of    *)
(* each of its parent's alerts that was raised since, or is about to be    *)
(* told, whoever else disconnects meanwhile; unless the ingest broke off.  *)
(* No page is given another parent's alert.                                *)
About(t, i, v) ==
  tasks[t].pc = "telling" /\ tasks[t].alert = i /\ v \in ToSet(tasks[t].audience)
Given(v, i) == <<i, alerts[i].by>> \in seen[PageOf[v]] \cup joined[v]
ViewersTold ==
  /\ \A p \in Page : \A known \in seen[p] : Own(p, known[1])
  /\ \A v \in Viewer : seat[v] = "on" =>
       \A i \in DOMAIN alerts : Own(PageOf[v], i) =>
         \/ Given(v, i) \/ About(alerts[i].by, i, v)
         \/ tasks[alerts[i].by].pc = "error"

(* An alert that was reviewed stays reviewed, whatever ingests, analyses   *)
(* and other requests write at the same time.                              *)
NoLostReview ==
  [][\A i \in DOMAIN alerts : alerts[i].acknowledged => alerts'[i].acknowledged]_vars

(* The copies of alert i's messages a page may have: what it was given by  *)
(* any list_alerts so far, or in the live frame.  The stages may be newer. *)
Copies(i) ==
  {AlertMessages(i, count) : count \in 0..Len(messages)} \cup
  {Response(tasks[t].current.talk) : t \in {u \in Task : tasks[u].alert = i}}

(* Every message below another date's separator in the conversation a      *)
(* parent reads would be taken to be of that date; none is.                *)
SeparatorsShowDates ==
  \A i \in DOMAIN alerts : \A copy \in Copies(i) :
    LET groups == messageGroups(copy)
    IN \A g \in DOMAIN groups : \A k \in DOMAIN groups[g] :
         getMessageDate(groups[g][k]) = DateAbove(groups, g)

(* If a message is drawn as flagged, the button for the first one is drawn *)
(* and passes none over: it leads to the first flagged message, or, where  *)
(* the model named an older one that is not in the copy, nowhere.          *)
FirstFlaggedComesFirst ==
  \A i \in DOMAIN alerts : \A copy \in Copies(i) :
    LET drawn == {k \in DOMAIN copy : isSuspicious(alerts[i].stages, copy[k])}
        target == jumpTargets(copy, alerts[i].stages).firstSuspicious
    IN /\ drawn # {} => "firstSuspicious" \in JumpButtons(copy, alerts[i].stages)
       /\ \A k \in drawn : target <= copy[k].id
       /\ target \in {copy[k].id : k \in DOMAIN copy} => \E k \in drawn : copy[k].id = target

(* Every ingest ends, with the classifier there or not: nothing it waits   *)
(* for is held for good.                                                   *)
EveryIngestEnds ==
  \A t \in Task : (tasks[t].pc \in Running) ~> (tasks[t].pc \notin Running)
=============================================================================
