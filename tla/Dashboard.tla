------------------------------ MODULE Dashboard ------------------------------
(***************************************************************************)
(* The dashboard's root component (frontend/src/App.tsx): the session, the *)
(* data every view shows, navigation, toasts, and the effects that poll    *)
(* the profile, load the data and keep the live alert socket.              *)
(*                                                                         *)
(* One browser page runs one callback at a time, so an action is the code  *)
(* from one await, timer, click or network event to the next, with the     *)
(* effects React runs after it.  Of the local backend there is what its    *)
(* routers store and answer: alerts and child accounts, deleted together;  *)
(* how an alert comes to be raised is Ingest's.  The profile (parent) only *)
(* feeds the sidebar and is left out; the text of toasts is one key for    *)
(* all that belong to no alert.                                            *)
(***************************************************************************)
EXTENDS Naturals, Sequences, FiniteSets

CONSTANTS
  AlertId,      \* ids of the alerts the backend may raise, given out in order
  Child,        \* ids of child accounts
  Stage,        \* the grooming stages, numbered in the order of the panel
  ChildOf,      \* the child account an alert is about
  None,
  Refused,      \* an answer: the backend refuses the call
  Severity,     \* classes of probability: below .25, .50, .75, and the rest
  Starts,       \* bounds: what the backend may store when the page is opened,
                \* and the events the behaviour may then contain
  MaxEffects,   \* bound: socket effects with a socket or timer at once
  MaxCalls      \* bound: REST calls in flight

ASSUME DashboardAssumption ==
  /\ AlertId \subseteq Nat \ {0} /\ Stage \subseteq Nat \ {0}
  /\ MaxEffects \in Nat \ {0} /\ MaxCalls \in Nat \ {0}
  /\ Severity \subseteq 0..3
  /\ None \notin Nat
  /\ ChildOf \in [AlertId -> Child]

Effect == 1..MaxEffects
Slot == 1..MaxCalls
Page == {"dashboard", "alerts", "children", "debug", "settings"}
PageView(page) == [page |-> page, id |-> None]
AlertView(id) == [page |-> "alert", id |-> id]
View == {PageView(page) : page \in Page} \cup {AlertView(id) : id \in AlertId}
Notice == None        \* the key of a toast that belongs to no alert

Event ==
  {"logins", "kicks", "drops", "raises", "failures", "turns", "retries", "acks",
   "filters", "reads", "analyses", "edits", "changes", "plays", "posts", "sets",
   "checks", "menus"}

(* A toast is known by its alert, or as one that belongs to none. *)
ToastItem == AlertId \cup {Notice}

(* The choices of the refresh interval, in seconds; 0 is manual. *)
Interval == {0, 10, 30, 60, 180}

VARIABLES
  sessionId,    \* the page holds a session id
  token,        \* the page holds an access token
  loads,        \* loadDashboardData was made in a render with a session id
  children,     \* the child accounts shown
  alerts,       \* the alerts shown, as listed
  activeView,   \* a page, or an alert's own page
  isLoading,
  error,
  toasts,       \* keys of the toasts shown
  settings,     \* without the volume, and the browser's permission for
                \* notifications
  phase,        \* per socket effect: its socket, or its reconnect timer
  running,      \* the socket effect whose isCancelled is still false
  addressed,    \* whether it found a session id for its address
  socketRef,    \* the effect whose socket was created last
  wire,         \* alert frames on their way to a socket
  opening,      \* alerts whose onmessage is suspended in openSealed
  notified,     \* alerts with a desktop notification on the screen
  checks,       \* fetchMe calls in flight
  calls,        \* the other REST calls in flight
  stored,       \* at the backend: the alerts, newest first
  family,       \* at the backend: the child accounts
  gone,         \* at the backend: alerts deleted with their child
  budget        \* events the behaviour may still contain, and the number of
                \* profile checks that may be in flight at once

shown == <<children, alerts, isLoading, error>>
socketVars == <<phase, running, addressed, socketRef, wire>>
session == <<sessionId, token, loads>>
backend == <<stored, family, gone>>
(* All of the root component's state but its calls and the bound. *)
rest == <<session, shown, activeView, toasts, settings, socketVars,
          opening, notified, checks, backend>>
appVars == <<rest, calls, budget>>

Found == [alert : AlertId, stage : Stage, exact : BOOLEAN]
Entry == [id : AlertId, acknowledged : BOOLEAN, severity : Severity,
          detectedStages : Seq(Found)]

ASSUME StartsAssumption ==
  \A start \in Starts :
    /\ start.stored \in Seq(Entry) /\ start.family \subseteq Child
    /\ start.bounds \in [Event -> Nat]
    /\ \A i, j \in DOMAIN start.stored :
         start.stored[i].id = start.stored[j].id => i = j
    /\ \A i \in DOMAIN start.stored :
         \A n \in DOMAIN start.stored[i].detectedStages :
           start.stored[i].detectedStages[n].alert = start.stored[i].id
    /\ \A i \in DOMAIN start.stored : ChildOf[start.stored[i].id] \in start.family

Open == {"connecting", "open", "authenticated"}
Phase == Open \cup {"free", "waiting"}

AppTypeOK ==
  /\ {sessionId, token, loads, isLoading, error, addressed} \subseteq BOOLEAN
  /\ children \subseteq Child /\ family \subseteq Child /\ gone \subseteq AlertId
  /\ alerts \in Seq(Entry) /\ stored \in Seq(Entry)
  /\ activeView \in View
  /\ toasts \subseteq ToastItem
  /\ settings \in [soundEnabled : BOOLEAN, desktopNotifications : BOOLEAN,
                  theme : {"light", "dark"}, autoRefreshInterval : Interval,
                  permission : {"default", "granted", "denied"}]
  /\ phase \in [Effect -> Phase]
  /\ {running, socketRef} \subseteq Effect \cup {None}
  /\ wire \subseteq [to : Effect, alert : Entry]
  /\ opening \subseteq Entry /\ notified \subseteq AlertId
  /\ checks \in 0..budget["checks"]
  /\ budget \in [Event -> Nat]

Spend(event) ==
  /\ budget[event] > 0
  /\ budget' = [budget EXCEPT ![event] = @ - 1]

Indices(list, id) == {i \in DOMAIN list : list[i].id = id}
Listed(list, id) == Indices(list, id) # {}
Lookup(list, id) == list[CHOOSE i \in Indices(list, id) : TRUE]
Replace(list, entry) ==
  [i \in DOMAIN list |-> IF list[i].id = entry.id THEN entry ELSE list[i]]

addToast(key) == toasts' = toasts \cup {key}
closeToast(key) == toasts' = toasts \ {key}

FirstFree(s) == calls[s] = None /\ \A t \in Slot : t < s => calls[t] # None
Call(record) ==
  \E s \in Slot : FirstFree(s) /\ calls' = [calls EXCEPT ![s] = record]
Return(s) == calls' = [calls EXCEPT ![s] = None]

\* Mutant: a live alert is always a new one.
PrependAlways(entry) == <<entry>> \o alerts

Prepend(entry) ==
  IF Listed(alerts, entry.id) THEN Replace(alerts, entry)
  ELSE <<entry>> \o alerts

(* What the page shows: the component mounted in the main area. *)
renderCurrentView ==
  IF alerts = <<>> /\ isLoading THEN "spinner"
  ELSE IF alerts = <<>> /\ error THEN "failed"
  ELSE IF activeView.page # "alert" THEN activeView.page
  ELSE IF Listed(alerts, activeView.id) THEN "detail" ELSE "missing"

Screen ==
  CASE ~sessionId -> "connect"
    [] sessionId /\ ~token -> "auth"
    [] sessionId /\ token -> renderCurrentView

SignedIn == Screen \notin {"connect", "auth"}

-----------------------------------------------------------------------------
(* The socket effect *)

\* Mutant: the cleanup leaves a phase of its own.
AfterCleanupClosed ==
  [e \in Effect |-> IF running # None /\ e = socketRef /\ phase[e] \in Open
                    THEN "closed" ELSE phase[e]]

(* Its cleanup: whatever socket was created last is closed, the frames on  *)
(* their way to it are dropped; a reconnect timer is left to fire.         *)
AfterCleanup ==
  [e \in Effect |-> IF running # None /\ e = socketRef /\ phase[e] \in Open
                    THEN "free" ELSE phase[e]]

StopSocket ==
  /\ running' = None
  /\ phase' = AfterCleanup
  /\ wire' = {f \in wire : phase'[f.to] \in Open}
  /\ UNCHANGED <<addressed, socketRef>>

RestartSocket ==
  \E e \in Effect :
    /\ AfterCleanup[e] = "free"
    /\ \A d \in Effect : d < e => AfterCleanup[d] # "free"
    /\ running' = e /\ socketRef' = e /\ addressed' = sessionId
    /\ phase' = [AfterCleanup EXCEPT ![e] = "connecting"]
    /\ wire' = {f \in wire : phase'[f.to] \in Open /\ f.to # e}

onopen(e) ==
  /\ phase[e] = "connecting" /\ addressed
  /\ phase' = [phase EXCEPT ![e] = "open"]
  /\ UNCHANGED <<session, shown, activeView, toasts, settings, running,
                 addressed, socketRef, wire, opening, notified, checks, calls, backend, budget>>

(* The backend registered the socket, and its auth_ok was opened. *)
AuthOk(e) ==
  /\ phase[e] = "open" /\ e = running
  /\ phase' = [phase EXCEPT ![e] = "authenticated"]
  /\ UNCHANGED <<session, shown, activeView, toasts, settings, running,
                 addressed, socketRef, wire, opening, notified, checks, calls, backend, budget>>

(* onclose: the connection was lost or refused. *)
onclose(e) ==
  /\ phase[e] \in Open
  /\ IF addressed THEN Spend("drops") ELSE UNCHANGED budget
  /\ phase' = [phase EXCEPT ![e] = IF e = running THEN "waiting" ELSE "free"]
  /\ wire' = {f \in wire : f.to # e}
  /\ UNCHANGED <<session, shown, activeView, toasts, settings, running,
                 addressed, socketRef, opening, notified, checks, calls, backend>>

\* Mutant: the timer does not ask whether its effect was cancelled.
ReconnectAnyway(e) ==
  /\ phase[e] = "waiting"
  /\ phase' = [phase EXCEPT ![e] = "connecting"]
  /\ socketRef' = e
  /\ UNCHANGED <<session, shown, activeView, toasts, settings, running, addressed,
                 wire, opening, notified, checks, calls, backend, budget>>

\* Mutant: the timer does not connect.
ReconnectNever(e) ==
  /\ phase[e] = "waiting"
  /\ phase' = [phase EXCEPT ![e] = "free"]
  /\ UNCHANGED <<session, shown, activeView, toasts, settings, running, addressed,
                 socketRef, wire, opening, notified, checks, calls, backend, budget>>

(* The reconnect timer. *)
Reconnect(e) ==
  /\ phase[e] = "waiting"
  /\ IF e = running /\ token
     THEN /\ phase' = [phase EXCEPT ![e] = "connecting"]
          /\ socketRef' = e
     ELSE /\ phase' = [phase EXCEPT ![e] = "free"]
          /\ UNCHANGED socketRef
  /\ UNCHANGED <<session, shown, activeView, toasts, settings, running,
                 addressed, wire, opening, notified, checks, calls, backend, budget>>

(* onmessage up to its await: a cancelled effect drops the frame. *)
ReceiveFrame(f) ==
  /\ f \in wire
  /\ wire' = wire \ {f}
  /\ opening' = IF f.to = running THEN opening \cup {f.alert} ELSE opening
  /\ UNCHANGED <<session, shown, activeView, toasts, settings, phase,
                 running, addressed, socketRef, notified, checks, calls, backend, budget>>

(* onmessage after its await: nothing is asked again. *)
ShowAlert(entry) ==
  /\ entry \in opening
  /\ opening' = opening \ {entry}
  /\ addToast(entry.id)
  /\ notified' = IF settings.desktopNotifications /\ settings.permission = "granted"
                 THEN notified \cup {entry.id} ELSE notified
  /\ alerts' = Prepend(entry)
  /\ UNCHANGED <<session, children, isLoading, error, activeView, settings,
                 socketVars, checks, calls, backend, budget>>

-----------------------------------------------------------------------------
(* Loading, and the profile check *)

(* authorized: the page still has its token when the requests are made. *)
Load(authorized) ==
  [op |-> "load", authorized |-> authorized, kids |-> None, log |-> None]

(* Its guard sees the session id of the render that made it, which is made *)
(* again only for another token.                                           *)
loadDashboardData ==
  IF loads
  THEN isLoading' = TRUE /\ error' = FALSE /\ Call(Load(TRUE))
  ELSE UNCHANGED <<isLoading, error, calls>>

(* The three requests of Promise.all are answered one by one. *)
AnswerLoad(s) ==
  /\ calls[s] # None /\ calls[s].op = "load" /\ calls[s].authorized
  /\ \/ calls[s].kids = None /\ calls' = [calls EXCEPT ![s].kids = family]
     \/ calls[s].log = None /\ calls' = [calls EXCEPT ![s].log = stored]
  /\ UNCHANGED <<session, shown, activeView, toasts, settings, socketVars,
                 opening, notified, checks, backend, budget>>

(* A list of children is a new array, so the socket effect runs again. *)
Loaded(s) ==
  /\ calls[s] # None /\ calls[s].op = "load"
  /\ calls[s].kids # None /\ calls[s].log # None
  /\ children' = calls[s].kids
  /\ alerts' = calls[s].log
  /\ isLoading' = FALSE
  /\ Return(s)
  /\ IF token THEN RestartSocket ELSE UNCHANGED socketVars
  /\ UNCHANGED <<session, error, activeView, toasts, settings, opening,
                 notified, checks, backend, budget>>

\* Mutant: the loading state is ended by success only.
LoadFailedLoading(s) ==
  /\ calls[s] # None /\ calls[s].op = "load"
  /\ IF calls[s].authorized THEN Spend("failures") ELSE UNCHANGED budget
  /\ error' = TRUE
  /\ Return(s)
  /\ UNCHANGED <<session, children, alerts, isLoading, activeView, toasts, settings,
                 socketVars, opening, notified, checks, backend>>

LoadFailed(s) ==
  /\ calls[s] # None /\ calls[s].op = "load"
  /\ IF calls[s].authorized THEN Spend("failures") ELSE UNCHANGED budget
  /\ error' = TRUE
  /\ isLoading' = FALSE
  /\ Return(s)
  /\ UNCHANGED <<session, children, alerts, activeView, toasts, settings,
                 socketVars, opening, notified, checks, backend>>

(* The retry button of the fallback shown when a first load failed. *)
RetryLoad ==
  /\ Screen = "failed"
  /\ Spend("retries")
  /\ loadDashboardData
  /\ UNCHANGED <<session, children, alerts, activeView, toasts, settings,
                 socketVars, opening, notified, checks, backend>>

(* The interval of the profile check. *)
CheckProfile ==
  /\ token /\ sessionId
  /\ checks < budget["checks"]
  /\ checks' = checks + 1
  /\ UNCHANGED <<session, shown, activeView, toasts, settings, socketVars,
                 opening, notified, calls, backend, budget>>

ProfileKnown ==
  /\ checks > 0
  /\ checks' = checks - 1
  /\ UNCHANGED <<session, shown, activeView, toasts, settings, socketVars,
                 opening, notified, calls, backend, budget>>

(* The session id and the token in the client (apis/client.ts) and in the  *)
(* root component's state.                                                 *)
setSessionId == sessionId' = TRUE
setToken == token' = TRUE
clearToken == sessionId' = FALSE /\ token' = FALSE

(* What logging out and being logged out have in common; calls, timers and *)
(* suspended callbacks go on.                                              *)
LeaveSession ==
  /\ clearToken
  /\ loads' = FALSE
  /\ children' = {}
  /\ alerts' = <<>>
  /\ activeView' = PageView("dashboard")
  /\ StopSocket

(* fetchMe answered with 401, 404 or 503. *)
ProfileGone ==
  /\ checks > 0
  /\ Spend("kicks")
  /\ checks' = checks - 1
  /\ LeaveSession
  /\ UNCHANGED <<isLoading, error, toasts, settings, opening, notified, calls, backend>>

-----------------------------------------------------------------------------
(* Session and navigation *)

(* ConnectPage's onSuccess.  A token may be there already, from a login    *)
(* that was answered late: the profile is checked, nothing is loaded.      *)
SessionPaired ==
  /\ setSessionId
  /\ checks' = IF token /\ checks < budget["checks"] THEN checks + 1 ELSE checks
  /\ UNCHANGED <<token, loads, shown, activeView, toasts, settings, socketVars,
                 opening, notified, calls, backend>>

(* AuthPage's onSuccess in slot s, and the effects of a page with another  *)
(* token; a load takes the place of the login.                             *)
handleAuthSuccess(s) ==
  /\ setToken
  /\ loads' = sessionId
  /\ addToast(Notice)
  /\ checks' = IF sessionId /\ checks < budget["checks"] THEN checks + 1 ELSE checks
  /\ IF sessionId
     THEN isLoading' = TRUE /\ error' = FALSE /\ calls' = [calls EXCEPT ![s] = Load(TRUE)]
     ELSE UNCHANGED <<isLoading, error>> /\ Return(s)
  /\ RestartSocket
  /\ UNCHANGED <<sessionId, children, alerts, activeView, settings, opening,
                 notified, backend>>

handleLogout ==
  /\ SignedIn
  /\ Spend("kicks")
  /\ LeaveSession
  /\ addToast(Notice)
  /\ UNCHANGED <<isLoading, error, settings, opening, notified, checks, calls, backend>>

(* setActiveView, by a click of a signed-in parent. *)
Navigate(view) ==
  /\ SignedIn
  /\ Spend("turns")
  /\ activeView' = view
  /\ UNCHANGED <<session, shown, toasts, settings, socketVars, opening,
                 notified, checks, calls, backend>>

(* The button of the fallback shown for an alert that is not listed. *)
LeaveMissing == Screen = "missing" /\ Navigate(PageView("alerts"))

(* A click on a toast; the pages without a session pass no handler to it. *)
ClickToast(id) ==
  /\ SignedIn /\ id \in toasts
  /\ Spend("turns")
  /\ activeView' = AlertView(id)
  /\ closeToast(id)
  /\ UNCHANGED <<session, shown, settings, socketVars, opening, notified,
                 checks, calls, backend>>

(* The timer of a toast; it starts again with every render of the page. *)
DismissToast(key) ==
  /\ key \in toasts
  /\ closeToast(key)
  /\ UNCHANGED <<session, shown, activeView, settings, socketVars, opening,
                 notified, checks, calls, backend, budget>>

(* The close button of a toast. *)
PressClose(key) ==
  /\ key \in toasts
  /\ closeToast(key)
  /\ UNCHANGED <<session, shown, activeView, settings, socketVars, opening,
                 notified, checks, calls, backend, budget>>

ClickNotification(id) ==
  /\ id \in notified
  /\ notified' = notified \ {id}
  /\ activeView' = AlertView(id)
  /\ UNCHANGED <<session, shown, toasts, settings, socketVars, opening,
                 checks, calls, backend, budget>>

-----------------------------------------------------------------------------
(* Acknowledging an alert, from the list or from the alert's own page *)

StagesShown(id) == IF Listed(alerts, id) THEN Lookup(alerts, id).detectedStages ELSE <<>>

(* The handler keeps the alerts of the render it belongs to: the stages it *)
(* will put back are those listed when the button was drawn.               *)
handleAcknowledgeAlert(id, back) ==
  /\ Spend("acks")
  /\ Call([op |-> "acknowledge", id |-> id, kept |-> StagesShown(id), back |-> back,
           answer |-> None])
  /\ UNCHANGED <<session, shown, activeView, toasts, settings, socketVars,
                 opening, notified, checks, backend>>

(* An alert that was deleted with its child is not found. *)
AnswerAcknowledge(s) ==
  /\ calls[s] # None /\ calls[s].op = "acknowledge" /\ calls[s].answer = None
  /\ LET id == calls[s].id
         done == [Lookup(stored, id) EXCEPT !.acknowledged = TRUE]
     IN IF Listed(stored, id)
        THEN /\ stored' = Replace(stored, done)
             /\ calls' = [calls EXCEPT ![s].answer = done]
        ELSE /\ calls' = [calls EXCEPT ![s].answer = Refused]
             /\ UNCHANGED stored
  /\ UNCHANGED <<session, shown, activeView, toasts, settings, socketVars,
                 opening, notified, checks, family, gone, budget>>

Acknowledged(s) ==
  /\ calls[s] # None /\ calls[s].op = "acknowledge"
  /\ calls[s].answer \notin {None, Refused}
  /\ alerts' = Replace(alerts, [calls[s].answer EXCEPT !.detectedStages = calls[s].kept])
  /\ addToast(Notice)
  /\ activeView' = IF calls[s].back THEN PageView("alerts") ELSE activeView
  /\ Return(s)
  /\ UNCHANGED <<session, children, isLoading, error, settings, socketVars,
                 opening, notified, checks, backend, budget>>

\* Mutant: the page takes the call for done.
AcknowledgeFailedShown(s) ==
  /\ calls[s] # None /\ calls[s].op = "acknowledge"
  /\ Spend("failures")
  /\ addToast(Notice)
  /\ alerts' = [i \in DOMAIN alerts |-> IF alerts[i].id = calls[s].id
                   THEN [alerts[i] EXCEPT !.acknowledged = TRUE] ELSE alerts[i]]
  /\ Return(s)
  /\ UNCHANGED <<session, children, isLoading, error, activeView, settings, socketVars,
                 opening, notified, checks, backend>>

(* The call was refused, or failed before or after it was carried out. *)
AcknowledgeFailed(s) ==
  /\ calls[s] # None /\ calls[s].op = "acknowledge"
  /\ IF calls[s].answer = Refused THEN UNCHANGED budget ELSE Spend("failures")
  /\ addToast(Notice)
  /\ activeView' = IF calls[s].back THEN PageView("alerts") ELSE activeView
  /\ Return(s)
  /\ UNCHANGED <<session, shown, settings, socketVars, opening, notified,
                 checks, backend>>

-----------------------------------------------------------------------------
(* The backend raises an alert, under the next id, or raises one again     *)
(* with another severity, and sends it to every authenticated socket.      *)
RaiseAlert(id, severity) ==
  /\ id <= Len(stored) + Cardinality(gone) + 1 /\ id \notin gone
  /\ ChildOf[id] \in family
  /\ Spend("raises")
  /\ LET entry == IF Listed(stored, id)
                  THEN [Lookup(stored, id) EXCEPT !.severity = severity]
                  ELSE [id |-> id, acknowledged |-> FALSE, severity |-> severity,
                        detectedStages |-> <<>>]
     IN /\ stored' = IF Listed(stored, id) THEN Replace(stored, entry)
                     ELSE <<entry>> \o stored
        /\ wire' = wire \cup {[to |-> e, alert |-> entry] :
                              e \in {d \in Effect : phase[d] = "authenticated"}}
  /\ UNCHANGED <<session, shown, activeView, toasts, settings, phase,
                 running, addressed, socketRef, opening, notified, checks, calls, family, gone>>

(* A page is opened in a browser that stores no session. *)
AppInit ==
  /\ sessionId = FALSE /\ token = FALSE /\ loads = FALSE /\ addressed = FALSE
  /\ children = {} /\ alerts = <<>> /\ isLoading = FALSE /\ error = FALSE
  /\ activeView = PageView("dashboard") /\ toasts = {}
  /\ settings = [soundEnabled |-> TRUE, desktopNotifications |-> FALSE,
                 theme |-> "dark", autoRefreshInterval |-> 30,
                 permission |-> "default"]
  /\ phase = [e \in Effect |-> "free"] /\ running = None /\ socketRef = None
  /\ wire = {} /\ opening = {} /\ notified = {} /\ checks = 0
  /\ calls = [s \in Slot |-> None]
  /\ \E start \in Starts :
       stored = start.stored /\ family = start.family /\ budget = start.bounds
  /\ gone = {}

AppStep ==
  \/ \E e \in Effect : onopen(e) \/ AuthOk(e) \/ onclose(e) \/ Reconnect(e)
  \/ \E f \in wire : ReceiveFrame(f)
  \/ \E entry \in opening : ShowAlert(entry)
  \/ \E s \in Slot :
       \/ AnswerLoad(s) \/ Loaded(s) \/ LoadFailed(s)
       \/ AnswerAcknowledge(s) \/ Acknowledged(s) \/ AcknowledgeFailed(s)
  \/ RetryLoad \/ CheckProfile \/ ProfileKnown \/ ProfileGone \/ handleLogout
  \/ LeaveMissing
  \/ \E id \in AlertId : ClickToast(id) \/ ClickNotification(id)
  \/ \E key \in toasts : DismissToast(key) \/ PressClose(key)
  \/ \E id \in AlertId, severity \in Severity : RaiseAlert(id, severity)
=============================================================================
