---------------------------- MODULE DashboardPages ----------------------------
(***************************************************************************)
(* The dashboard as a whole: the root component with the page it shows.    *)
(* Every step of the root component may turn to another page; a page that  *)
(* is left loses its state and a page that is opened starts afresh, while  *)
(* the calls a page has made go on without it.                             *)
(***************************************************************************)
EXTENDS AuthPages, Sidebar, HomePage, AlertsPage, AlertDetail, ChildrenPage,
        ChatRoom, SettingsPage

vars == <<appVars, authVars, listVars, detailVars, childrenVars, roomVars,
          ingested, asking, isOpen>>

(* A REST call in flight: what it asks for, what the handler that awaits   *)
(* it has kept, and what the backend has answered so far.                  *)
LoginRecord == [op : {"register", "login"}]
LoadRecord ==
  [op : {"load"}, authorized : BOOLEAN, kids : (SUBSET Child) \cup {None},
   log : Seq(Entry) \cup {None}]
AcknowledgeRecord ==
  [op : {"acknowledge"}, id : AlertId, kept : Seq(Found), back : BOOLEAN,
   answer : Entry \cup {None, Refused}]
AnalyseRecord ==
  [op : {"analyse"}, base : Entry, answer : Seq(Found) \cup {None, Refused}]
ChangeRecord ==
  [op : {"create", "update", "delete"}, child : Child, reload : BOOLEAN,
   answer : {None, "ok", Refused}]
IngestRecord == [op : {"ingest"}, answer : {None, "ok"}, line : Line]

CallRecord == LoginRecord \cup LoadRecord \cup AcknowledgeRecord \cup AnalyseRecord
                \cup ChangeRecord \cup IngestRecord

ASSUME PagesAssumption == None \notin CallRecord \cup {"ok", Refused}

TypeOK ==
  /\ calls \in [Slot -> CallRecord \cup {None}]
  /\ AppTypeOK /\ AuthTypeOK /\ ListTypeOK /\ DetailTypeOK /\ ChildrenTypeOK
  /\ RoomTypeOK /\ SettingsTypeOK /\ SidebarTypeOK

Init ==
  /\ AppInit /\ AuthInit /\ ListFresh /\ DetailFresh /\ ChildrenFresh
  /\ RoomFresh /\ ingested = <<>> /\ asking = FALSE /\ isOpen = FALSE

-----------------------------------------------------------------------------
FollowPages ==
  FollowAuth /\ FollowList /\ FollowDetail /\ FollowChildren /\ FollowRoom
Follow == FollowPages /\ FollowSidebar

(* The steps after which any page may be shown. *)
Turn ==
  AppStep \/ OpenRecent \/ OpenCard \/ ViewAllAlerts \/ SelectRow \/ GoBack

Next ==
  \/ Turn /\ Follow /\ UNCHANGED <<ingested, asking>>
  \/ handleNavigate /\ FollowPages /\ UNCHANGED <<ingested, asking>>
  \/ /\ KeysExchanged \/ \E s \in Slot : LoggedIn(s)
     /\ FollowList /\ FollowDetail /\ FollowChildren /\ FollowRoom /\ FollowSidebar
     /\ UNCHANGED <<ingested, asking>>
  \/ /\ \E s \in Slot : ChangeDone(s)
     /\ FollowAuth /\ FollowList /\ FollowDetail /\ FollowRoom /\ FollowSidebar
     /\ UNCHANGED <<ingested, asking>>
  \/ /\ AuthStep
     /\ UNCHANGED <<listVars, detailVars, childrenVars, roomVars, ingested, asking,
                    isOpen>>
  \/ /\ ListStep
     /\ UNCHANGED <<authVars, detailVars, childrenVars, roomVars, ingested, asking,
                    isOpen>>
  \/ /\ DetailStep
     /\ UNCHANGED <<authVars, listVars, childrenVars, roomVars, ingested, asking,
                    isOpen>>
  \/ /\ ChildrenStep
     /\ UNCHANGED <<authVars, listVars, detailVars, roomVars, ingested, asking,
                    isOpen>>
  \/ /\ RoomStep
     /\ UNCHANGED <<authVars, listVars, detailVars, childrenVars, asking, isOpen>>
  \/ /\ SettingsStep
     /\ UNCHANGED <<authVars, listVars, detailVars, childrenVars, roomVars, ingested,
                    isOpen>>
  \/ /\ ToggleMenu
     /\ UNCHANGED <<authVars, listVars, detailVars, childrenVars, roomVars, ingested,
                    asking>>

(* The backend answers the requests of a load and the browser runs what    *)
(* awaits them; connections are made, and timers fire.                     *)
LoadGoesOn(s) ==
  (AnswerLoad(s) \/ Loaded(s) \/ LoadFailed(s)) /\ Follow /\ UNCHANGED <<ingested, asking>>
SocketGoesOn(e) ==
  (onopen(e) \/ AuthOk(e) \/ Reconnect(e)) /\ Follow /\ UNCHANGED <<ingested, asking>>

Fairness ==
  /\ \A s \in Slot : WF_vars(LoadGoesOn(s))
  /\ \A e \in Effect : WF_vars(SocketGoesOn(e))

Spec == Init /\ [][Next]_vars /\ Fairness

-----------------------------------------------------------------------------
(* Live alerts and loads never list one alert twice (App.tsx keys its      *)
(* lists and finds an alert by id).                                        *)
AlertsDistinct ==
  \A i, j \in DOMAIN alerts : alerts[i].id = alerts[j].id => i = j

(* However reconnect timers, drops and restarts of the effect interleave,  *)
(* the page has at most one live socket: an alert is announced once.       *)
OneSocket == Cardinality({e \in Effect : phase[e] \in Open}) <= 1

(* An alert is shown as reviewed only if the backend holds it as reviewed, *)
(* or has deleted it with its child and the page does not know yet:        *)
(* whatever fails and however loads, live frames, analyses and deletions   *)
(* overlap, no alert to be reviewed is taken for one that was.             *)
ShownAckIsReal ==
  \A i \in DOMAIN alerts :
    alerts[i].acknowledged =>
      \/ alerts[i].id \in gone
      \/ Listed(stored, alerts[i].id) /\ Lookup(stored, alerts[i].id).acknowledged

(* Stages found by an analysis are shown with the alert that was analysed, *)
(* even if another one is on the screen when the answer comes.             *)
StagesBelong ==
  \A i \in DOMAIN alerts :
    \A found \in ToSet(alerts[i].detectedStages) : found.alert = alerts[i].id

(* A list that has matches never shows an empty page, although filters,    *)
(* loads and acknowledgements shrink it under the current page.            *)
PageNotEmpty == processedAlerts # <<>> => paginatedAlerts # <<>>

(* A form is disabled exactly while a call it made is in flight, and makes *)
(* no second one: also across unmounting, logout and late answers.         *)
BusyIsOwnCall ==
  /\ \A waits \in {submitted, changing, posting, mine} : Cardinality(waits) <= 1
  /\ authorizing = (submitted # {}) /\ saving = (changing # {})
  /\ sending = (posting # {}) /\ panel.isAnalyzing = (mine # {})
  /\ \A s \in submitted \cup changing \cup posting \cup mine : calls[s] # None

(* The test chat shows only lines the backend has taken, each once and in  *)
(* the order it took them, though a send may be answered after the room    *)
(* was left and opened again.  A line may be missing on the screen: logs   *)
(* are cleared, and an answer may be lost.                                 *)
EchoedInOrder ==
  \E taken \in SUBSET DOMAIN ingested :
    history = Sublist(ingested, taken)

(* A sum: so many pairs there are of a counted thing and a number up to    *)
(* its count.                                                              *)
Total(count) == Cardinality(UNION {{x} \X (1..count[x]) : x \in DOMAIN count})

(* What the first page shows adds up: whatever the day, each alert is in   *)
(* one bar of the trend and the highest bar is full; the score is full     *)
(* only without an unread alert; and the platforms together count every    *)
(* unread alert on a platform of the children that are listed.             *)
HomeAddsUp ==
  OnHome =>
    /\ \A today \in 0..6 :
         LET bars == getAlertsTrendData(today)
         IN /\ Total(bars) = Len(alerts)
            /\ alerts # <<>> => \E day \in DOMAIN bars : barHeights(today)[day] = 100
    /\ safetyScore.shown = 100 <=> unreadAlertsCount = 0
    /\ Total([platform \in DOMAIN monitoredPlatforms |->
                monitoredPlatforms[platform].active]) =
         Cardinality({i \in DOMAIN alerts :
           ~alerts[i].acknowledged /\ PlatformOf[alerts[i].id] \in DOMAIN monitoredPlatforms})

(* The loading state always ends, also for a load whose session is gone.   *)
SpinnerEnds == isLoading ~> ~isLoading

(* A page with a session gets its live socket, after drops and restarts.   *)
Live == running # None /\ phase[running] = "authenticated"
GetsLive == (token /\ addressed) ~> (Live \/ ~token \/ ~addressed)
=============================================================================
