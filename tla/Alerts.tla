-------------------------------- MODULE Alerts --------------------------------
(***************************************************************************)
(* The backend's messages and alerts (backend/services/messages.py,        *)
(* notifications.py, explanation.py, core/cache.py, routers/alerts.py).    *)
(*                                                                         *)
(* One platform and one game server: the cache is keyed by the server, and *)
(* pairs of different servers share nothing.  Messages are numbered in     *)
(* the order they are stored; created_at, drawn by the database to the     *)
(* microsecond, grows with the number, and at is its minute.  The language *)
(* model is external.  A dashboard page (App.tsx) is what it was given of  *)
(* the alerts; what it does with them is Dashboard's.                      *)
(*                                                                         *)
(* The cache holds the ORM rows of the session that loaded it.  A commit   *)
(* of that session expires them (session.py keeps expire_on_commit), which *)
(* a read makes good while the session is open; once it is closed, the     *)
(* read of an expired row raises DetachedInstanceError.  Messages appended *)
(* later are copies and always readable.                                   *)
(***************************************************************************)
EXTENDS Conversation

CONSTANTS
  Parent,
  ParentOf,         \* child account -> parent
  Page,             \* dashboards that are open
  PageOwner,        \* page -> parent
  Viewer,           \* the pages' alert sockets, one after the other
  PageOf,           \* viewer -> page
  Analyst,          \* analysis requests that may be under way at once
  Stage,
  NamedId,          \* message ids the language model may name
  MinUnprocessed    \* 3 in the code

ASSUME AlertsAssumption ==
  /\ Stage \subseteq Nat /\ NamedId \subseteq Int
  /\ PageOf \in [Viewer -> Page]

User == Sender
ViewerOf(v) == PageOwner[PageOf[v]]

Session == {"ingest", "analysis"} \X (Nat \cup Analyst)
RowSet == [count : Nat, by : Session, open : BOOLEAN, expired : SUBSET Nat]

VARIABLES
  messages,     \* the stored messages
  cache,        \* the entry of the server, if there is one: the numbers of the
                \* messages in its collection
  rows,         \* per load of the cache: its rows (messages 1..count), its session
                \* and which of the rows are expired
  alerts,       \* the stored alerts
  analyses,     \* the analysis record of each alert
  seat,         \* what has become of each viewer
  connections,  \* _connections, in the order they were made
  joined,       \* history: the alerts there were when a viewer was registered, and
                \* as raised by which message
  seen,         \* the alerts each page loaded or was sent, and as raised by which
                \* message
  analysing     \* analysis requests suspended in the call of the model

viewerVars == <<seat, connections, joined, seen>>
storeVars == <<messages, cache, rows, alerts, analyses, viewerVars, analysing>>

Stored == [user : User, at : Nat]
Alert == [child : DOMAIN ParentOf, target : User, by : Nat, acknowledged : BOOLEAN,
          stages : Seq(Evidence)]
Record == [stages : Seq(Evidence), processed : Nat, unprocessed : Nat]
Analysing ==
  [by : Analyst, alert : Nat, read : Seq(Evidence), processed : Nat, shown : Seq(Nat)]

StoreTypeOK ==
  /\ messages \in Seq(Stored)
  /\ cache \subseteq Seq(DOMAIN messages) /\ Cardinality(cache) <= 1
  /\ rows \in Seq(RowSet)
  /\ alerts \in Seq(Alert)
  /\ analyses \in [DOMAIN alerts -> Record]
  /\ seat \in [Viewer -> {"none", "on", "dead", "off"}]
  /\ connections \in Seq(Viewer)
  /\ joined \in [Viewer -> SUBSET ((DOMAIN alerts) \X (DOMAIN messages))]
  /\ seen \in [Page -> SUBSET ((DOMAIN alerts) \X (DOMAIN messages))]
  /\ analysing \subseteq Analysing

StoreInit ==
  /\ messages = <<>> /\ cache = {} /\ rows = <<>> /\ alerts = <<>> /\ analyses = <<>>
  /\ seat = [v \in Viewer |-> "none"] /\ connections = <<>>
  /\ joined = [v \in Viewer |-> {}] /\ seen = [p \in Page |-> {}]
  /\ analysing = {}

-----------------------------------------------------------------------------
(* The cache *)

(* get_server_messages: all of them, in order. *)
get_server_messages(count) == [i \in 1..count |-> i]

(* What is cached after the store held count messages and was synchronised. *)
sync_message_cache(count) ==
  IF cache = {} THEN get_server_messages(count) ELSE CHOOSE entry \in cache : TRUE

(* The entry's map: one sender's messages. *)
ChatOf(log, collection, user) ==
  Sublist(collection, {i \in DOMAIN collection : log[collection[i]].user = user})

(* The time to live passes without an access. *)
ExpireCache ==
  /\ cache # {}
  /\ cache' = {}
  /\ UNCHANGED <<messages, rows, alerts, analyses, viewerVars, analysing>>

(* The rows after sync_message_cache in a session, with count stored. *)
Synced(count, session) ==
  IF cache # {} THEN rows
  ELSE Append(rows, [count |-> count, by |-> session, open |-> TRUE, expired |-> {}])

(* Messages n of load g are read, in whatever session. *)
Readable(list, g, ids) == list[g].open \/ ids \cap list[g].expired = {}
Read(list, g, ids) == [list EXCEPT ![g].expired = @ \ ids]

Commit(list, session) ==
  [g \in DOMAIN list |->
     [list[g] EXCEPT !.expired = IF list[g].open /\ list[g].by = session THEN 1..list[g].count
                                 ELSE @]]
Close(list, session) ==
  [g \in DOMAIN list |-> [list[g] EXCEPT !.open = @ /\ list[g].by # session]]

-----------------------------------------------------------------------------
(* Alerts *)

IndexOf(pair) ==
  {i \in DOMAIN alerts : alerts[i].child = pair.child /\ alerts[i].target = pair.target}

\* Mutant: an alert that is raised again is to be reviewed again.
upsert_alertUnread(pair, n) ==
  IF IndexOf(pair) # {}
  THEN [alerts EXCEPT ![Max(IndexOf(pair))].by = n,
                      ![Max(IndexOf(pair))].acknowledged = FALSE]
  ELSE Append(alerts, [child |-> pair.child, target |-> pair.target, by |-> n,
                       acknowledged |-> FALSE, stages |-> <<>>])

(* The alerts after message n's ingest has raised one for the pair. *)
upsert_alert(pair, n) ==
  IF IndexOf(pair) # {} THEN [alerts EXCEPT ![Max(IndexOf(pair))].by = n]
  ELSE Append(alerts, [child |-> pair.child, target |-> pair.target, by |-> n,
                       acknowledged |-> FALSE, stages |-> <<>>])

RaisedIndex(pair) == IF IndexOf(pair) # {} THEN Max(IndexOf(pair)) ELSE Len(alerts) + 1

\* Mutant: a new alert is given no record.
upsert_analysisMissing(i, count) == analyses

(* The records after an alert was raised over so many messages. *)
upsert_analysis(i, count) ==
  IF i \in DOMAIN analyses THEN analyses
  ELSE Append(analyses, [stages |-> <<>>, processed |-> 0, unprocessed |-> count])

increment_unprocessed_count(records, i) ==
  [records EXCEPT ![i].unprocessed = @ + 1]

acknowledge_alert(i) ==
  /\ i \in DOMAIN alerts /\ ~alerts[i].acknowledged
  /\ alerts' = [alerts EXCEPT ![i].acknowledged = TRUE]
  /\ UNCHANGED <<messages, cache, rows, analyses, viewerVars, analysing>>

Response(ids) ==
  [k \in DOMAIN ids |-> [id |-> ids[k], userId |-> messages[ids[k]].user,
                         createdAt |-> messages[ids[k]].at]]

(* What list_alerts gave with an alert while count messages were stored:   *)
(* the two senders' messages.                                              *)
AlertMessages(i, count) ==
  Response(Sublist(get_server_messages(count),
                   {n \in 1..count : messages[n].user \in {alerts[i].child, alerts[i].target}}))

-----------------------------------------------------------------------------
(* Viewers *)

Own(p, i) == ParentOf[alerts[i].child] = PageOwner[p]
Present(p) == {<<i, alerts[i].by>> : i \in {j \in DOMAIN alerts : Own(p, j)}}

\* Mutant: the alerts of all parents are given.
LoadAlertsOfAll(p) ==
  /\ seen' = [seen EXCEPT ![p] = @ \cup {<<i, alerts[i].by>> : i \in DOMAIN alerts}]
  /\ UNCHANGED <<messages, cache, rows, alerts, analyses, seat, connections, joined, analysing>>

(* list_alerts for a page that loads its data. *)
LoadAlerts(p) ==
  /\ seen' = [seen EXCEPT ![p] = @ \cup Present(p)]
  /\ UNCHANGED <<messages, cache, rows, alerts, analyses, seat, connections, joined, analysing>>

(* A socket is registered, the first or after the page's last one closed.  *)
(* It is sent nothing of the alerts there are.                             *)
ConnectViewer(v) ==
  /\ seat[v] = "none"
  /\ \A w \in Viewer : PageOf[w] = PageOf[v] => seat[w] # "on"
  /\ seat' = [seat EXCEPT ![v] = "on"]
  /\ connections' = Append(connections, v)
  /\ joined' = [joined EXCEPT ![v] = Present(PageOf[v])]
  /\ UNCHANGED <<messages, cache, rows, alerts, analyses, seen, analysing>>

LoseViewer(v) ==
  /\ seat[v] = "on"
  /\ seat' = [seat EXCEPT ![v] = "dead"]
  /\ UNCHANGED <<messages, cache, rows, alerts, analyses, connections, joined, seen, analysing>>

Without(v) == Sublist(connections, {k \in DOMAIN connections : connections[k] # v})

DisconnectViewer(v) ==
  /\ seat[v] = "dead"
  /\ seat' = [seat EXCEPT ![v] = "off"]
  /\ connections' = Without(v)
  /\ UNCHANGED <<messages, cache, rows, alerts, analyses, joined, seen, analysing>>

(* The sockets an alert of this child is sent to, one after the other. *)
Audience(child) ==
  Sublist(connections,
          {k \in DOMAIN connections : ViewerOf(connections[k]) = ParentOf[child]})

(* send_json to one of them: what is sent to a dead socket is lost, or     *)
(* raises, and the socket is removed.                                      *)
Notify(v, i, n) ==
  \/ /\ seat[v] = "on"
     /\ seen' = [seen EXCEPT ![PageOf[v]] = @ \cup {<<i, n>>}]
     /\ UNCHANGED connections
  \/ /\ seat[v] # "on"
     /\ connections' \in {connections, Without(v)}
     /\ UNCHANGED seen

-----------------------------------------------------------------------------
(* The analysis of grooming stages *)

StageNames(stages) == {stages[i].stage : i \in DOMAIN stages}

get_undetected_stages(stages) == Stage \ StageNames(stages)

(* The entry's map has the child's messages under the child's id on the    *)
(* platform; it is asked for the id of the child's account, and has none.  *)
(* A row that cannot be read ends the request, and nothing has changed.    *)
BeginAnalysis(c, i) ==
  LET record == analyses[i]
      collection == sync_message_cache(Len(messages))
      synced == Synced(Len(messages), <<"analysis", c>>)
      chat == ChatOf(messages, collection, alerts[i].target)
      shown == SubSeq(chat, record.processed + 1, Len(chat))
  IN /\ \A call \in analysing : call.by # c
     /\ get_undetected_stages(record.stages) # {}
     /\ record.unprocessed >= MinUnprocessed
     /\ Readable(synced, Len(synced), ToSet(shown))
     /\ cache' = {collection}
     /\ rows' = Read(synced, Len(synced), ToSet(shown))
     /\ analysing' = analysing \cup
          {[by |-> c, alert |-> i, read |-> record.stages, processed |-> record.processed,
            shown |-> shown]}
     /\ UNCHANGED <<messages, alerts, analyses, viewerVars>>

(* The model's answers: some stages, also one that is not in the list,     *)
(* each with a message id that nobody checks.                              *)
Findings ==
  LET evidence == [stage : Stage \cup {0}, messageId : NamedId]
  IN {<<>>} \cup {<<e>> : e \in evidence}
     \cup {<<e, f>> : e, f \in evidence}

(* What was read before the call is what is written back after it; a       *)
(* column whose value is the one read is not written.                      *)
EndAnalysis(call, found) ==
  LET new == Sublist(found, {k \in DOMAIN found : found[k].stage \notin StageNames(call.read)})
      list == call.read \o new
      session == <<"analysis", call.by>>
  IN /\ analyses' = [analyses EXCEPT ![call.alert] =
          [stages |-> IF new = <<>> THEN @.stages ELSE list,
           processed |-> IF call.shown = <<>> THEN @.processed
                         ELSE call.processed + Len(call.shown),
           unprocessed |-> 0]]
     /\ alerts' = [alerts EXCEPT ![call.alert].stages = list]
     /\ analysing' = analysing \ {call}
     /\ rows' = Close(Commit(rows, session), session)
     /\ UNCHANGED <<messages, cache, viewerVars>>

(* The model cannot be reached, or its answer cannot be read. *)
FailAnalysis(call) ==
  /\ analysing' = analysing \ {call}
  /\ rows' = Close(rows, <<"analysis", call.by>>)
  /\ UNCHANGED <<messages, cache, alerts, analyses, viewerVars>>
=============================================================================
