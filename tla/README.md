# TellMom in TLA+

TellMom watches a child's game chat for grooming. Game adapters collect chat
lines, a home computer (the Pi) stores and classifies them, and a parent reads
alerts in a browser. Adapters and browsers reach the Pi through a public proxy
that only routes sealed boxes (the "Leesin protocol"). This directory holds the
specifications of that system, the model-checking configurations and the proofs.

Sizes of names: a *line* is a chat line an adapter forwards, a *box* is an
`EncryptedMessage`, a *session* is one pairing as the Pi knows it.

## 1. Inventory

| Component | Code | State it keeps | Operations |
| --- | --- | --- | --- |
| Sealing | `shared/services/security.py` | `SessionState`: key, nonce base, expected number, outbound number | derive keys, seal, open |
| Pi agent, sessions | `backend/services/proxy_agent.py` 152-471 | `session_states`, `active_ws` | associate, key exchange, forward, live sockets |
| Pi agent, connection | same file 37-150, `proxy_manager.py`, `management.py` | `websocket`, `status`, `_stopped`, the manager's agent and status | register, login, connect, listen, reconnect, stop, replace |
| Proxy relay | `proxy/services/session.py`, `proxy/routers/session.py`, `proxy/main.py` | `server_map`, `session_map` (3 h), `pending_requests`, `active_ws_connections` | relay a request and its answer (15 s), relay frames, register a server |
| Proxy accounts | `proxy/routers/auth.py` | database of servers | register, login |
| Adapter service | `adapters/main.py`, `adapters/client.py` | `proxy_client`, `connection_info`, saved config, processes | connect, disconnect, reconnect loop, forward, start/stop adapters |
| Game adapters | `adapters/minecraft`, `discord`, `roblox` | file offset, retry loop | read the chat, post lines |
| Dashboard, channel | `frontend/src/apis/client.ts`, `ConnectPage.tsx`, `App.tsx`, `lib/security.ts` | localStorage (session, keys, number, token), the page's session id | pair, seal, open, logout, wipe |
| Dashboard, root | `frontend/src/App.tsx` | token, parent, alerts, children, view, toasts, the live socket and its timer | load, check the profile, navigate, acknowledge, receive live alerts, reconnect |
| Dashboard, pages | `frontend/src/features`, `SettingsView.tsx`, `Sidebar.tsx` | what each page keeps while it is mounted: forms, filters, pages, the analysis panel, the test chat | fill in, submit, filter, page, analyse, post test lines |
| State hub | `shared/services/state_hub.py`, `state_client.py` | subscriber queues (8), last snapshot, pending commands | publish, watch, push, run commands, reconnect |
| Classifier stream | `backend/services/classifier_stream.py` | socket, lock, pending requests | connect, disconnect, classify (60 s) |
| Ingest | `backend/services/ingest.py`, `messages.py`, `core/cache.py` | messages, alerts, sliding cache | store, cache, pair up, classify, upsert an alert, notify |
| Analysis | `backend/services/explanation.py` | detected stages, counters | full and incremental analysis |

How they interact: the adapter service and the browser post HTTP requests to
the proxy, which turns each into a message on the Pi's one outgoing socket and
waits for the message with the same request id. The Pi runs every message as a
task of its own event loop and calls its local HTTP API, where ingest asks the
classifier over another socket. Live alerts go back over a local socket, sealed
frame by frame. State hubs push snapshots to the terminal interfaces.

What is hard: nothing is locked across an `await`, so every await is a point of
interleaving; one sequence number must be respected by requests that travel
independently; both directions share one key; tabs share one storage; sessions
live in memory on one side and on disk on the other; timeouts of 10, 15, 30 and
60 seconds stack up, so a request reported as failed may have been carried out.
`PROJECT.json` lists these hazards at their lines.

What makes each part correct:

- Sealing and sessions: no nonce twice under a key; both ends agree on the key;
  the local API gets what was sealed, in order, at most once.
- Relay: an answer completes only its own request; a registration survives the
  cleanup of an older socket; nothing stays in the table of pending requests.
- Agent connection: at most one live socket; a stopped agent stays stopped; the
  status shown agrees with the socket; it reconnects.
- Adapter service: the status agrees with the client; a user's disconnect holds.
- State hub: every subscriber ends up with the latest snapshot; a command's
  result goes to its caller.
- Classifier stream: a result answers the request it was computed for; a new
  connection survives the end of an old one.
- Ingest: every pair is judged on all both wrote, once there is enough; a verdict
  is that of the pair it was asked for; every connected dashboard of the parent
  is told; every ingest ends.
- Analysis: a stage is shown with the alert it was found for; what a parent
  reviewed stays reviewed.
- Dashboard: one entry per alert, one live socket per page; what is shown as
  reviewed is reviewed; a form is busy exactly while its own call runs; loading
  ends.

## 2. Plan

In order of importance; all but the last are built.

1. `PiSession`: the Pi's sessions over the sealing functions.
2. `OrderedDelivery`: the abstract promise of a channel for requests.
3. `AdapterChannel` = `PiSession` + adapter service; implements `OrderedDelivery`;
   proofs in `PiSessionProofs` (the Pi alone) and `AdapterChannelProofs`.
4. `BrowserChannel` = `PiSession` + dashboard tabs; proofs in
   `BrowserChannelProofs` on top of `PiSessionProofs`.
5. `RequestReply`, the abstract promise of a relay, and `ProxyRelay`, which
   implements it; proofs in `ProxyRelayProofs`.
6. `AgentLifecycle` (login, connect, listen loop, reconnect, stop, the manager that
   replaces agents) and `StateHub` (snapshots and commands), composed as
   `Management`; proofs in `ManagementProofs`.
7. `ClassifierStream` and `Alerts` (messages, cache, alerts, viewers, analyses)
   with `Conversation` (what a parent reads), composed as `Ingest`; proofs in
   `IngestProofs`.
8. `Dashboard`, the root component, with one module per page, composed as
   `DashboardPages`, over `Subsequences` (parts of lists by rank); proofs in
   `SubsequencesProofs` and `DashboardProofs`.
9. Left: the adapter service's reconnect loop as a process, and the Minecraft
   tailer.

## 3. Modules

### PiSession

The variables are those of `ProxyAgent` that outlive a handler. Each handler is
one action, or two where it awaits the local API:

| Action | Code |
| --- | --- |
| `Associate`, `RefuseAssociate` | `_handle_associate_request` |
| `Exchange`, `RefuseExchange` | `_handle_dh_request` |
| `Forward`, `RefuseForward` | `_handle_forward_request` up to the call of the local API |
| `Answer`, `AnswerUnsealed` | the rest of it: an answer with content, one without or a failed call |
| `OpenSocket`, `RelayFrame`, `CloseSocket` | `_handle_ws_open`, `_ws_listen_loop`, `_handle_ws_close` |
| `Restart` | a new process: `session_states` is empty again |

`requests` is what the proxy holds for the Pi. A request may be taken in any
order, or never. With `"replay"` in `Faults` it stays and may be taken again.
`replies` only grows: whether an answer is used, and when, is up to its client,
which is how loss and delay of answers are modelled. Answers that carry neither
keys nor a box leave no record, because their receiver does what it does on a
timeout.

Cryptography is idealised. A key is the pair of private values that make it, so
two ends have the same key exactly when they ran one exchange with each other.
A nonce is the set of symbols XORed into it (`nonce_base` and a number), so that
XORing a number in twice takes it out again, as in the code; `Opens` is
`decrypt_message`: key, nonce and associated data must all agree. The proxy
passes keys on unchanged (the README of the repository names an active proxy as
out of scope).

`spent` gives every invocation of a handler that draws a private value or
produces a plaintext its own name from `Task`; it bounds the number of such
invocations. `boxes` and `forwarded` are history. Session ids are 16 random
bytes (`new_session_id`): a session the Pi lost is marked `"lost"` rather than
removed, so that its id is not drawn again. A restart also ends the calls that
were under way. Several sockets of one session count as one in `listening`,
since all seal under the same counter.

### AdapterChannel

A *link* is one `SecureProxyClient`. `Connect`, `Authenticated`, `Exchanged` and
`ConnectFails` are `ServerState.connect` cut at its awaits; the reconnect loop and
the user start it, so it may start at any time and overlap itself. `Disconnect`
and `Disconnected` are the two sides of `await aclose()`; in between a connect may
install another client, which `Disconnected` then discards, as the code does.
Two disconnects at once are not modelled. A handshake that was refused and one
that timed out are the same `ConnectFails`. `SendLine` is `send` up to its `post`
(it has no await before), `DropLine` is `forward` without a connection. A client
whose HTTP connection is closed still counts up and seals before the post
raises, which loses the line and leaves a gap.

### BrowserChannel

Tabs share `stored_session`, `stored_key` and `stored_sequence` (localStorage);
each page has its own `tab_session`, the module variable of `client.ts`, read from
storage when the page loads. `Submit`, `Associated`, `Exchanged` and
`PairingFails` are `handleSubmit`; `BeginSeal` and `EndSeal` are `customFetch` before
and after `await encryptMessage`; `SendBare` is a request without a body;
`ReadAnswer` and `FetchFails` are the rest of `customFetch`; `Wipe` is
what `fetchMe` does on 401, 404 or 503, also when that answer comes after a logout; `Load` loads or reloads a page.
A page seals one request at a time because its forms are disabled while their
request runs. Without stored keys a body goes out as it is and the Pi fails to
parse it before it changes anything, so that case has no action. An answer is
opened with the keys that are stored when it arrives and the session id the call
began with (`OpensAnswer`); one that does not open is handed to the caller sealed
(`"unopened"`). The sealing functions of `lib/security.ts` are those of
`PiSession`, which models both languages' versions of one protocol. A frame
of a live socket is opened with the stored keys and the session id the page has by
then (`openSealed`), where a call keeps the one it was made with; opening one changes
no state and has no action.

### OrderedDelivery

Per session a sequence of bodies sent and a sequence delivered; a delivery
appends the next one sent. `AdapterChannel` implements it with `sent <- sealed` and
`delivered <- forwarded`. It promises no delivery, since the code does not.

### ProxyRelay

The proxy is one event loop; what a handler does between two awaits is one step.

| Action | Code |
| --- | --- |
| `Accept`, `RejectAuth`, `Register`, `StreamEnds` | `stream` in `main.py`: before the first message, refused, registered, its `finally` (`CleanUp`) |
| `Associate`, `Route`, `Refuse` | the routes up to `send_proxy_request`'s send (`Begin`), or 404 and 503 |
| `Sent`, `SendFails`, `Return`, `TimeOut` | the rest of `send_proxy_request`; `Return` includes `associate_session` |
| `Resolve` | `handle_server_message` for a message with a request id |
| `OpenLive`, `RefuseLive`, `RegisterLive`, `LeaveLive`, `LiveFails` | `forward_ws`, cut at its awaits |
| `FrameBreaks`, `CloseLive` | `_forward_ws_frame`, `_close_ws` |
| `Expire`, `ProxyRestart` | the three hours of `session_map`; a new process |
| `LoseSocket`, `BrowserLeaves` | the other end closes, or the connection dies |
| `PiAnswers`, `PiOpens`, `PiCloses`, `PiLeaves` | the home, with `ProxyAgent.active_ws` as `opened` |

That a socket is lost and that its handler learns of it are two steps
(`LoseSocket`, `StreamEnds`): in between a home may dial again. A send on a lost
socket raises or does not, and what it carries is gone either way. A socket is
dialled once and a request id drawn once, as uuids are. The home may answer on
any of its sockets, since the agent sends on whichever it holds, or never, and
may draw a session id when it answers an association; which requests it answers
how is `PiSession`'s subject. Messages are sets, because each is handled on its own
and nothing depends on their order. A frame that reaches its browser, or finds
no connection, changes nothing; only the one whose browser has left is an
action. What raises out of the stream handler ends it; the web server closes
the socket of a handler that raised and leaves open that of one that caught the
error and returned, so `BreaksStream` allows both. A future is dropped from
`call` when its wait ends, as nothing reads it after that.

### RequestReply

A call is asked, carried out, and ends once, answered or failed. A failed call
may have been carried out, and may be carried out later: 15 s at the proxy stand
against 30 s at the home. `ProxyRelay` implements it with `carried <- served` and
the outcome read from the call's progress (`Outcome`).

### AgentLifecycle

A task is a coroutine suspended at an await; an action is the code from one await
to the next. `NewTask` records what the coroutine is for (boot, register, login,
connect, reconnect, listen, configure), which agent's method it runs and where it
waits.

| Action | Code |
| --- | --- |
| `Dialed`, `DialFailed`, `Accepted`, `GreetFailed` | `ProxyAgent.connect` cut at the dial and the auth handshake |
| `ListenStarts`, `SocketClosed`, `ListenEnds` | `_listen_loop` with its `finally` |
| `Wake`, `GoOnDialing`, `LoggedInAgain`, `LoginAgainFailed` | `_reconnect`: its sleep, the login it repeats, the connect it goes on to |
| `BootLoggedIn`, `BootLoginFailed`, `BootFails` | the lifespan of `backend/main.py` |
| `Begin`, `Authorized`, `AuthorizeFailed` | `register`, `login`, `connect` of `ProxyManager` |
| `ConfigureAtOnce`, `BeginConfigure`, `Close`, `Configured` | `update_config`: the old agent's `stop`, then `Replace` |
| `Drop` | the proxy or the network ends a socket |

The proxy is external: it answers or fails. Several tasks of one agent may be
alive at once, as in the code: nothing prevents a `connect` during a reconnect. A
restart of the Pi is `Init` with the saved configuration, since agents, sockets
and tasks live in memory.

### StateHub

`streams[c]` is both ends of a client's connection: its queue at the hub, what it
shows, its commands on the way and those it waits for. `publish` compares with
`last` and offers the snapshot to every queue (`Offered`: a full queue drops its
oldest entry); `run_watcher`, `push_snapshots`, `NextCommand`, `RunAtOnce`, `RunIn`, `Reply`,
`RequestTimesOut` and `Leave` are the rest of `state_hub.py` and
`state_client.py`. `Left` and `Told` are what remains of a client that is gone
while its command runs: the next snapshot pushed to it fails and cancels the
command at its await (`Management`'s `Cancelled`).

### Management

Commands of the state stream run the operations of `AgentLifecycle`; a snapshot is
`management_snapshot`, composed of the manager's status and its agent's. While the
backend boots (`Booting`) nothing else runs. A frame with a command's result is
sent before the snapshot it caused is published, as in the code.

### ClassifierStream

The lock is the queue of those that asked for it. `classify` is split at its
awaits: asking for the lock, `Send`, and the end (`Judged` of `Ingest`, or `Fail`).
`connect`, `Drop`, `disconnect` keep the late `disconnect` of a replaced socket,
which forgets the new socket and fails its requests. The classifier's queue
outlives its connections, answers in any order, and may lose jobs.

### Alerts and Conversation

`Alerts` holds one game server of one platform: messages by number, the cache
entry, alerts with their analysis records, the parents' pages and sockets. `Notify`
is one `send_json`; `BeginAnalysis` and `EndAnalysis` are an analysis before and after
the language model answers, so that what is written back may be stale.

A *page* is a dashboard that is open, a *viewer* one of its sockets. They are
independent, as in `App.tsx`: `LoadAlerts` is `list_alerts` for a page at any time,
with or without a socket (`seen`), `ConnectViewer` registers a socket, the first or one
after the last was lost, and sends nothing of the alerts there are (`joined` records
them). So a page that connects again has no alert raised in between until it loads.

`rows` are the ORM objects behind the cache, one entry for each time it was loaded: by
which request's session, whether that is open, and which rows a commit has expired. A
row is readable while its session is open or if it is not expired (`Readable`); reading
one loads it (`Read`); the request's end closes its session (`Close`). Messages appended
to the cache later are copies.

The language model may name any message id, known or not, negative too (`NamedId`):
nothing between its answer and the jump buttons checks it. `Conversation` has the pure
functions of `ConversationViewer.tsx`: groups, date separators, flagged messages and the
targets of the jump buttons. They are checked on every copy of an alert's messages a
page may hold (`Copies`): what any load gave so far, or what a live frame carries.

What a list comprehension keeps and what `list.sort` makes are `Sublist` and `Sorted`
of `Subsequences`, and the groups are the stretches between the positions where the
code starts a new one (`GroupStarts`): all by ranks and without recursion, so that the
proofs can say which messages they hold.

### Ingest

A task is the ingest of one message. `process_ingest` runs to its first await:
store, synchronise and extend the cache, collect the pairs to judge
(`Judgements`). Then `Wake` is `ensure_connected`, `EnterLock`, `JudgingFails` and
`Judged` are `classify` seen from the task, and `Tell` is one socket of
`notify_parent`. Facts of the code that the model keeps and the properties state
as they are:

- The first message after the cache was empty is in the collection twice, once
  from the store and once appended. A pair can then be judged on one distinct message
  less than the threshold, six where the repository's README says seven
  (`ingest_threshold`). `JudgedWhole` says what is judged: all of it, at most one
  message twice.
- Rows that were detached end an ingest with `DetachedInstanceError` at three places:
  when it groups the collection by sender, when it puts a conversation's text together,
  and when it builds the live frame of an alert it has just saved. The cache holds rows
  of the request that loaded it; if that request raises an alert, its commits expire
  them and its end detaches them. Every later ingest of the server then ends in an error
  after storing its message, until the entry expires, and each attempt renews the entry.
  In the third place the alert is saved and no page is told: `ViewersTold` names this
  exception. No run is about it.
- An analysis asks the cache for the messages of the child's account id, while the
  cache has them under its platform id, so it sees the stranger's lines only.
- Two analyses of one alert may overlap and the later one to end replaces the
  other's stages (`analyses` and `alerts` are written from what was read before).
- An alert that is raised again stays reviewed, and an older result may overwrite what a
  newer one wrote.
- A classifier that is gone ends an ingest with 503 after the message was stored
  and earlier pairs raised their alerts; a timeout ends it with 500.

### Dashboard and its pages

One page is single-threaded: an action is the code from one await, timer, click or
network event to the next, with the effects React runs after it. `Dashboard` is
`App.tsx`; calls in flight are records in slots, as they outlive the page that
made them. Of the local backend it has the routers' answers and what they store:
`stored`, `family`, and `gone`, the alerts that went with a deleted child (`AnswerChange`;
the foreign key of an alert says ON DELETE CASCADE). An acknowledgement or an analysis of
such an alert is refused with 404, and a page may show it until its next load. Each effect of the socket has its own place in `Effect`, because a
reconnect timer outlives the effect that set it.

| Module | Component | What it adds |
| --- | --- | --- |
| `Dashboard` | `App.tsx`, `useSettings.ts`, `parseAlert.ts`, `ToastNotification.tsx` | session, loads, profile checks, live socket, toasts, acknowledgement |
| `AuthPages` | `ConnectPage.tsx`, `AuthPage.tsx` | pairing, registration and login |
| `Sidebar`, `SettingsPage` | `Sidebar.tsx`, `SettingsView.tsx` | the narrow menu; changes that restart the socket |
| `HomePage` | `DashboardView.tsx` | counts, trend, score and platforms as operators |
| `AlertsPage` | `AlertsPage.tsx` | filters, sorting, pages over a list that changes |
| `AlertDetail` | `AlertDetailView.tsx`, `AiAnalysisPanel.tsx` | tabs, analyses with the alert of the render they were started in |
| `ChildrenPage` | `ChildrenManagement.tsx` | register, rename, delete |
| `ChatRoom` | `TestChatRoom.tsx` | a conversation the parent plays |
| `DashboardPages` | `App.renderCurrentView` | every step with what it mounts and unmounts |

A page's `Follow...` operator says what the steps of other parts do to it: it loses
its state when it is left and starts afresh when it is opened. Ids of alerts stand
for their dates. Severity is the class of a probability. The text of forms,
layout and wording are left out, except where a condition reads them. What
`Array.filter` and a sort make is given by ranks: `Sublist(list, kept)` of `Subsequences`
has at place n the n-th of the positions that are kept, and the n-th row of the list of
alerts is the match with n - 1 matches sorted before it.

What was read in this code, is kept by the model and is not promised by any
property: a load that is answered after a logout fills in the previous session's
alerts, and one that began before a live alert replaces it; a profile check that
fails late ends a new login; an analysis overwrites an acknowledgement or live
update that came after its render, and an acknowledgement puts the old stages
back; a login that ends after a logout sets a token without a session; the timers
of the progress text may overwrite the last one; the test chat keeps a deleted
child selected; the trend over the last seven days counts older alerts by their
weekday; `SettingsView.tsx:159` offers a polling interval that nothing reads.

## 4. Runs

Every configuration gives `CONSTANTS` their values and nothing else. The MC modules
add the symmetry of interchangeable ids, the values of functions and of starts, and the
budgets of each start (`Starts`).

| Run | Bounds | What it shows |
| --- | --- | --- |
| `adapter` (pass) | 2 sessions, 2 clients, 3 lines, 4 invocations, base 3, repeats and restarts | `TypeOK`; `NonceNeverReused`; `KeyAgreement`; `DeliversInOrder` (refinement) |
| `browser` (pass) | 2 sessions, 2 pairings, 2 requests, 3 invocations, 2 tabs, base 2, repeats and restarts | `TypeOK`; `DirectionsSeparate`; `OpensInSequence`; `StoredKeysMatch`; `KeysStay`; `AnswersOpen` |
| `adapter_delivery` (violation) | 1 client, 3 lines, no fault | `PostedLineArrives` fails |
| `browser_nonce` (violation) | 2 tabs, 2 requests, no fault | `NonceNeverReused` fails across tabs |
| `browser_repair` (violation) | 1 tab, 2 pairings, no fault | `CountsFromOne` fails |
| `relay` (pass) | 2 homes, 3 sockets, 2 calls, 1 live connection, 1 session, restarts | `TypeOK`; `HomesSeparate`; `TableMatchesCalls`; `GetsOwnAnswer` (refinement) |
| `relay_cleanup` (violation) | 1 home, 2 sockets, no restart | `RegisteredReachable` fails |
| `relay_frame` (violation) | 1 home, 1 socket, no restart | `StreamOutlivesBrowsers` fails |
| `management` (pass) | 2 clients, 3 agents, 4 sockets, 4 tasks, queues of 2, ten starts | `TypeOK`; `NewestArrives`; `QuietOnceReplaced`; `AgentReturns` (liveness) |
| `ingest` (pass) | 4 messages, 2 children of 2 parents, 1 stranger, 3 pages with 4 sockets, 2 analyses, 2 classifier sockets, a threshold of 3, nine starts | `TypeOK`; `CacheHoldsStore`; `JudgedWhole`; `GetsOwnVerdict`; `PendingIsAsked`; `AlertWasFlagged`; `ViewersTold`; `SeparatorsShowDates`; `FirstFlaggedComesFirst`; `NoLostReview`; `EveryIngestEnds` (liveness) |
| `ingest_threshold` (violation) | as `ingest` | `WaitsForMinMessages` fails |
| `dashboard` (pass) | 3 alerts, 2 children, 2 stages, 2 rows to a page, 3 socket effects, 2 calls in flight, twenty starts | `TypeOK`; `AlertsDistinct`; `OneSocket`; `ShownAckIsReal`; `StagesBelong`; `PageNotEmpty`; `BusyIsOwnCall`; `EchoedInOrder`; `HomeAddsUp`; `SpinnerEnds`, `GetsLive` (liveness) |

The largest are `browser` (650 thousand states), `ingest` (600 thousand) and `dashboard`
(360 thousand), each some three minutes with two workers.

Why the bounds are enough to be interesting: two sessions let a body meet the
wrong session and a client the wrong key; three lines let one be overtaken, one
be lost and one follow; two tabs are the fewest that share a storage; four
invocations are two exchanges and two sealed answers. `OutboundBase` stands for
2^52 and is as small as the number of lines allows, so that the two ranges of
numbers touch. The guards `sequence < OutboundBase` of `SendLine` and
`NextSequence <= OutboundBase` of `BeginSeal` say that no client reaches 2^52
requests, on which the separation of the directions rests.

In `relay` three sockets let a home replace one while another home holds the
third; two calls are the fewest whose answers could be exchanged; nothing else
is bounded, since sockets, calls and live connections are each used once.

Starts. The last three systems have too many kinds of events to explore all of them
together. `Starts` gives each initial state a budget per event (`Spend` takes from
it), so that one behaviour explores one part in depth with everything that can
interfere with it, and the run is the union:

- `management`: reconnects that fail; a configuration at any await of a reconnect;
  a `connect` that meets a reconnect; the set-up of a new Pi; clients that give up
  or leave during a command. Three agents let one be replaced while another
  still dials; a queue of two is the smallest that keeps something and drops
  something.
- `ingest`: classifier sockets that are replaced and drop; answers that are lost or
  late; two parents; two pages of one parent; a page that loads, loses its socket and
  connects again; a cache that expires, with and without a page and an analysis; two
  analyses of one alert; what a parent reads (minutes apart, two days). A threshold of
  three is the least at which a message counted twice matters and an earlier one
  does not yet suffice. The model names a message id of -1, 1 or 4: none, one that is
  there, and one that may be missing in an older copy.
- `dashboard`: sessions and sockets (two logins, an expired session, a drop, a check);
  the list with filters under change; the page of one alert with analyses; forms
  with calls that fail; a child that is deleted with its alerts while one of them is
  acknowledged, analysed or raised; the test chat; settings; the menu; loads that fail.

Symmetry is used with invariants and with properties of the form `Init /\ [][A]_v` only. Deadlock is
not checked for `adapter`: once every client was used and every line offered the
instance is finished. It is checked for `browser`, where a page can always be
loaded again, and for `relay`, where it says little because the proxy may always
be restarted (the two violation runs without restarts end when everything was used).
It is not checked for the three runs with budgets, which end when these are spent;
their liveness properties say that nothing waits for good.

Fairness. In `adapter_delivery` the Pi's event loop runs what it was given, its
calls end (30 s), and a handshake ends (the client's timeout). In `management` and
`ingest` every coroutine that can go on does (`TaskGoesOn`): what it awaits is
answered, fails or times out, all of which the code provides for. Failures and drops are
bounded by their budgets, which says that the proxy does not refuse for ever. In
`dashboard` a load's requests are answered or fail (`LoadGoesOn`), a socket opens and
its timer fires (`SocketGoesOn`). Nothing makes a user, a client, a classifier or a
parent act.

What the liveness properties except. `AgentReturns` says when a lost connection does
*not* come back: one failed login during a reconnect stops the agent for good
(`proxy_agent.py:138`, where `deploy/README.md:69` says that home servers reconnect on
their own); a handshake that fails after the socket is there leaves `websocket` set,
and the reconnect task gives up (`Stranded`); and two connects of one agent that
overlap may displace each other's sockets for ever (`Overlap`). `NewestArrives` speaks
of snapshots broadcast since the client subscribed: one that connects between a
change that was not yet published and its reversal keeps what it was first sent,
because `publish` compares with the last broadcast.

### What the violations say

- **Lines are lost without a fault** (`adapter_delivery`). Lines are posted by
  concurrent background tasks but numbered in order; when the second arrives
  first it is refused with 400 and nobody sends it again. After it no later line
  can be taken until the first one is, and the lines after the refused number
  are refused as well.
- **Two tabs reuse a nonce** (`browser_nonce`). The stored number is read before
  an await and written after it.
- **Pairing again starts at the old number** (`browser_repair`). Neither logout
  nor pairing resets the stored number, and the Pi's new session expects 1.

- **A reconnected home is unregistered** (`relay_cleanup`). The cleanup of the old
  socket's handler removes the server's entry whatever socket it holds. The home
  is connected, answers 503 to everyone, and has no reason to dial again.
- **A closing browser takes a home off the proxy** (`relay_frame`). Passing a frame
  on to a browser that has just left raises inside the handler of the home's
  socket, which ends and unregisters the home.

- **A conversation is judged early** (`ingest_threshold`). The new message is stored,
  loaded with the others when nothing is cached, and appended again; the test of the
  threshold counts it twice.
`TableMatchesCalls` also says what the leak at `proxy/services/session.py:71` amounts
to: entries of calls whose send raised stay for good, but such a call reached no
home.

## 5. Proofs

`AdapterChannelProofs` proves, for every value of the constants, that
`AdapterChannel`'s `Spec` implies `[]TypeOK`, `[]NonceNeverReused`,
`[]KeyAgreement` and `DeliversInOrder`, the refinement of `OrderedDelivery`.
Assumptions: `OutboundBase` is a natural number, lines and the Pi's plaintexts
are different things, and `None` is none of the values (`BaseAssumption`,
`PlaintextAssumption`, `NoneAssumption` of `PiSession`).

None of the properties is inductive. The invariant `AdapterInv` adds:

- about the Pi alone (`PiInv`, `PiCounts` in `PiSessionProofs`): keys come from
  spent invocations, so no two sessions share one; whatever seals has keys; the
  Pi's boxes are numbered above the base up to their session's counter and
  differ from each other; the expected number is one more than the number of
  bodies handed over;
- about the adapter: a client's key names it and is its session's key; an answer
  to an exchange is about the session its client was given; a client's boxes are
  numbered 1 to its counter and say where their line is in the session's
  history; only one client seals in a session; what was handed over is a prefix
  of what was sealed.

Nonces are then unique because a nonce determines its number (`NonceInjective`),
the adapter's numbers end at the base and the Pi's begin above it. Delivery is in
order because a request that carries the expected number can only be the next
box of the one client of that session, and it opens (`ForwardedIsSealed`).
`PiStepKeepsInv` and `PiStepEffects` say what a step of the Pi keeps whoever its
client is, so that they serve `BrowserChannel` too.

`ProxyRelayProofs` proves `[]TypeOK`, `[]HomesSeparate`, `[]TableMatchesCalls` and
`GetsOwnAnswer`, the refinement of `RequestReply`, of `ProxyRelay`'s `Spec`. Assumptions:
`None` is none of the values, and the only fault is a restart (`NoneAssumption`,
`FaultsAssumption` of `ProxyRelay`). The invariant `RelayInv` is `TypeOK`,
`HomesSeparate` and `TableMatchesCalls` with three parts more, because none of them
is inductive:

- `SocketsOwned`: what is registered for a home is a socket that home dialled;
- `CallsOwned`: a call's socket was dialled by the call's home, one that was not
  sent yet was not served, and a future or an answer comes from a served call
  and names a session its home drew;
- `MessagesOwned`: the same of the messages under way, in both directions.

A session's home is then the one that drew the id because it enters `session_map`
from an answer to a call to that home. `StepReplies` maps each step of the relay to
a step of `RequestReply`: a restart to `Fail` of all calls that were open, a second
answer to a call already carried out to a stutter.

`BrowserChannelProofs` proves all of `BrowserChannel`'s properties: `[]TypeOK`,
`[]DirectionsSeparate`, `[]OpensInSequence`, `[]StoredKeysMatch`, `KeysStay` and
`AnswersOpen`, under the assumptions of `PiSession`. It reuses `PiInv` and `PiCounts`;
`BrowserInv` adds:

- `ExchangesMatch`: an exchange under way is about the session its submission was
  given, or the submission is over; an answer to one carries the session's keys;
- `StorageMatches`: a stored session has keys, and they are the session's;
- `SealedOnce`: a request is sealed by one call, once, under a number up to the
  base, which keeps browser boxes apart from the Pi's;
- `CallsMatch`: what is on its way to the Pi and back belongs to the call it names,
  and an answer is sealed under its session's key;
- `ForwardedSealed`: each body the Pi took was sealed by the browser under that
  place in that session and under its key.

`OpensInSequence` does not say that the browser's nonces are its own: they are not
(`browser_nonce`).

`ManagementProofs` proves `[]TypeOK`, `[]NewestArrives` and `QuietOnceReplaced` of
`Management`, for any numbers of agents, sockets, tasks and clients and any queue
size, under `LifecycleAssumption` and `ManagementAssumption`. `ManagementInv` is
`LifecycleTypeOK` and `HubInv`: every client's queue ends with the last snapshot
broadcast, or is empty and the client shows it, and a task is owned by at most one
command. `NewestArrives` follows from the hub alone, whatever the snapshots are. For
`QuietOnceReplaced` the steps that reach the dial are enumerated: each is of an agent
that is not stopped or of the manager's; the boot needs `BootInv`, that while it
runs it runs alone, on the agent the manager holds.

`IngestProofs` proves every invariant of `Ingest` and `NoLostReview`, for any number of
messages, children, parents, sockets and analyses, any threshold, any gap and length of
day and any number of retries, under `IngestAssumption` (a request is a task with the two
senders it asks about, and the starts are typed) and `AlertsAssumption` (stages are
natural numbers, the ids the model names are integers, and a viewer is of a page).
`IngestInv` is the conjunction of

- `Held`: the lock's queue holds every request that is asked, once, all but its head
  are queued, and each is what its task judges at this moment. Without it nothing says
  that the caller that gives up is the one whose turn ends: `Fail` takes the head of
  the queue whoever fails;
- `TasksGood` and `StoreGood`: a task under way is that of a stored message, so the
  task of a new one asks nothing yet, and what it judges is a pair of senders;
- `CacheGood`: `CacheHoldsStore`, said of a number of messages, so that it can be said
  of a collection while a message is added to it;
- `AnswersGood`: a result is a verdict on what was asked, and a call that returned
  has one;
- `AlertsGood`: `AlertWasFlagged`, with the fields an alert has.

`ContinueKeeps` is the lemma they meet in: an ingest that goes on releases the lock and
asks for it again in one step, so `Held` is stated of a queue and of futures, and not of
the variables. `NoLostReview` follows from the same steps: the three writers of alerts
(`upsert_alert`, `acknowledge_alert`, `EndAnalysis`) leave what was reviewed reviewed.

These give `PendingIsAsked`, `GetsOwnVerdict`, `AlertWasFlagged` and `CacheHoldsStore`.
`IngestFine` rests on them and adds

- `TasksFine`: what a task has left to judge is a typed judgement of all that the two
  senders wrote up to its message. That it is so when it is made is `JudgementsWhole`: a
  collection that holds the store, with one message at most twice, has of two senders
  all their messages, at most one of them twice (`ConversationHolds`). That it stays so
  needs that messages are only appended (`MessagesGrow`);
- `AlertsFine`: every alert has one record, was raised by a stored message, and a
  suspended analysis is of an alert there is. What the evidence names is any integer;
- `ViewersFine`: a registered socket is in the list of connections (`OnConnected`); a
  round is about an alert of the parent whose pages it still has to tell (`TellingOwn`);
  a page has only its parent's alerts (`KnownOwn`); and of each of its parent's alerts a
  page with a registered socket was given the newest state, or that state was there when
  the socket was registered, or a task is about to tell it, or the task broke off
  (`AllTold`). A socket registered during a round finds what the round tells in
  `joined`, and one that is removed during a round is not told (`ConnectFine`,
  `LeaveFine`, `TellViewers`);
- `RowsTyped`, `StreamTyped`, `OneEntry`, `BoundsFine`: the rest of the types, and that a
  message's number is that of a task.

`SeparatorsShowDates` and `FirstFlaggedComesFirst` are then facts about lists. Inside a
group no position starts a new one, so all its messages have one date
(`GroupOfOneDate`); between separators no group's date changes (`SeparatorsRight`).
Both hold of every copy a page may have (`CopiesTyped`). The button leads to the least
positive number a stage names, so it passes no flagged message over, whatever the model
named; if that number is in the copy, its message is flagged, and if it is not, the
button leads nowhere (`FlaggedFirst`).

`DashboardProofs` proves all invariants of `DashboardPages`: `[]TypeOK`, `[]OneSocket`,
`[]AlertsDistinct`, `[]ShownAckIsReal`, `[]StagesBelong`, `[]PageNotEmpty`,
`[]BusyIsOwnCall`, `[]EchoedInOrder` and `[]HomeAddsUp`, for any number of alerts, stages, rows to a page,
effects and calls in flight. Assumptions: `None` is no number, no record of a call and no
answer, a page has at least one row, the starts are typed, and an alert's day is a number
(`DashboardAssumption`, `StartsAssumption`, `AlertsPageAssumption`, `PagesAssumption`,
`HomeAssumption`). `DashboardInv` is

- `TypeOK`, with the record that each kind of call in flight is (`CallRecord`), since a
  handler goes on with what is in it;
- `SocketsAgree`: only the effect that runs has a socket, and `socketRef` names that effect.
  `OneSocket` alone does not say that a timer of an effect that is over opens none;
- `RecordsTrue`: every copy of an alert, in the list, in the page of one alert, in the
  handlers that are suspended and in the answers on their way, says nothing that was never
  so at the backend: it is an alert there or one deleted with its child, reviewed only if it
  is reviewed there or deleted, with stages found in it. `Known` and `Reviewed` are these
  two sets; both only grow, since what leaves `stored` enters `gone`. Copies overwrite each other in any order, so the properties of the shown
  list hold only because every copy has them;
- `FormsWait`: a form remembers at most one slot, is busy exactly while it remembers one, and
  what is in flight there is a call of its kind;
- `EchoPlaced`: the lines of the test chat have rising places among those the backend took.

That filtering and sorting keep lists of distinct alerts distinct and fill a page needs no
induction over lists: the ranks 1 to n of a finite set of n positions are each taken by one
of them (`RanksTaken`), and a sublist of a rising list is rising (`RisingSublist`).

`HomeAddsUp` sums counts, which would be an induction over lists if the sum were a fold.
`Total` is the size of a disjoint union instead, and `CountedByKey` maps each alert to its
key and its rank among the alerts with that key, a bijection: weekdays and platforms each
count every alert once. The platforms count the alerts of a platform, not those of its
children: `ingest.py` looks for a child by the user id alone, so an alert may name a child
whose account is on another platform.

Only model-checked: the liveness properties (`AgentReturns`, `EveryIngestEnds`,
`SpinnerEnds`, `GetsLive`, `PostedLineArrives`), which TLAPS does not reach. Every other
property of the passing runs is a theorem.

## 6. Not modelled

The components with status `not_modelled` in `PROJECT.json`, each with its reason
there:

- the adapter service's processes and reconnect loop: starting subprocesses is I/O;
  the loop only runs connect and disconnect, which `AdapterChannel` allows at any
  time;
- what the adapter makes of the answer to a line: `send` opens it with the nonce that came
  with it in place of the nonce base (`adapters/client.py:113`), so none opens and `forward`
  logs a failure for a line the Pi has taken; nothing else follows from it;
- the game adapters: reading chats and logs of the platforms;
- the REST routes of the management: they run the operations of `Management` and
  publish after them;
- accounts at the proxy and at home, children and their platform accounts: single
  database statements, password hashes and tokens;
- the classifier's neural model and the language model: free choices of a verdict
  and of stages;
- the terminal interfaces and the static site: rendering;
- the generated API client: conversions without state of its own;
- a proxy that changes what it relays, which the repository's README puts out of
  scope.
