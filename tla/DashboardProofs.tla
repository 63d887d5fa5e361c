--------------------------- MODULE DashboardProofs ---------------------------
(***************************************************************************)
(* Proofs about the dashboard, for any numbers of alerts, children,        *)
(* stages, effects and calls.  The inductive invariant has five parts:     *)
(* types; sockets; what the page holds of the backend's alerts; which      *)
(* calls the forms wait for; and where the lines of the test chat are      *)
(* among those the backend took.                                           *)
(***************************************************************************)
EXTENDS DashboardPages, SubsequencesProofs

-----------------------------------------------------------------------------
(* The sockets *)

(* Only the effect that runs has a socket, and it is the one made last. *)
SocketsAgree ==
  /\ running # None => socketRef = running
  /\ \A e \in Effect : phase[e] \in Open => e = running

SocketTypes ==
  /\ phase \in [Effect -> Phase] /\ {running, socketRef} \subseteq Effect \cup {None}
  /\ wire \subseteq [to : Effect, alert : Entry]

SocketMoves ==
  \/ UNCHANGED <<phase, running, socketRef>>
  \/ StopSocket \/ RestartSocket
  \/ \E e \in Effect : onopen(e) \/ AuthOk(e) \/ onclose(e) \/ Reconnect(e)

LEMMA SocketsMove ==
  ASSUME Next
  PROVE  SocketMoves
<1>. USE DEF SocketMoves, rest, socketVars, session, shown, backend
<1>1. CASE AppStep
  BY <1>1
  DEF AppStep, onopen, AuthOk, onclose, Reconnect, ReceiveFrame, ShowAlert, AnswerLoad,
      Loaded, LoadFailed, AnswerAcknowledge, Acknowledged, AcknowledgeFailed, RetryLoad,
      CheckProfile, ProfileKnown, ProfileGone, handleLogout, LeaveSession, LeaveMissing,
      Navigate, ClickToast, ClickNotification, DismissToast, PressClose, RaiseAlert
<1>2. CASE OpenRecent \/ OpenCard \/ ViewAllAlerts \/ SelectRow \/ GoBack \/ handleNavigate
  BY <1>2 DEF OpenRecent, OpenCard, ViewAllAlerts, SelectRow, GoBack, handleNavigate, Navigate
<1>3. CASE KeysExchanged \/ AuthStep \/ \E s \in Slot : LoggedIn(s)
  BY <1>3
  DEF KeysExchanged, SessionPaired, AuthStep, Connect, Associated, ConnectFailed,
      SwitchMode, handleSubmit, Registered, LoginFailed, LoggedIn, handleAuthSuccess, appVars
<1>4. CASE ListStep
  BY <1>4
  DEF ListStep, FilterChosen, ChooseFilter, toggleSort, TurnPage, AcknowledgeRow,
      handleAcknowledgeAlert
<1>5. CASE DetailStep
  BY <1>5
  DEF DetailStep, SelectTab, ToggleStage, ShowProgress, AnswerAnalysis, Analysed,
      AnalysisFailed, EndOfAnalysis, AcknowledgeAndGoBack, handleAcknowledgeAlert,
      handleContinueAnalysis, appVars
<1>6. CASE ChildrenStep \/ \E s \in Slot : ChangeDone(s)
  BY <1>6
  DEF ChildrenStep, EnterChild, startEdit, askDelete, cancelEdit, keepChild, Edited,
      handleRegister, handleUpdate, handleDelete, Change, AnswerChange, ChangeFailed,
      ChangeDoneQuietly, ChangeDone
<1>7. CASE RoomStep \/ ToggleMenu
  BY <1>7
  DEF RoomStep, SelectChild, SelectRole, EnterMessage, ClearLogs, handleSend, AnswerIngest,
      Sent, SendFailed, ToggleMenu
<1>8. CASE SettingsStep
  BY <1>8
  DEF SettingsStep, ChooseTheme, ChooseInterval, ToggleSound, handleVolumeChange,
      requestDesktopNotificationPermission, PermissionAnswered, Changed, ChangedQuietly
<1>. QED
  BY <1>1, <1>2, <1>3, <1>4, <1>5, <1>6, <1>7, <1>8 DEF Next, Turn

LEMMA SocketsStep ==
  ASSUME SocketTypes, SocketsAgree, SocketMoves
  PROVE  SocketsAgree'
<1>0. None \notin Effect
  BY DashboardAssumption DEF Effect
<1>1. ASSUME UNCHANGED <<phase, running, socketRef>>
      PROVE  SocketsAgree'
  BY <1>1 DEF SocketsAgree
<1>2. \A e \in Effect : AfterCleanup[e] \notin Open
  BY <1>0 DEF AfterCleanup, SocketsAgree, SocketTypes, Open
<1>3. ASSUME StopSocket
      PROVE  SocketsAgree'
  BY <1>2, <1>3 DEF StopSocket, SocketsAgree
<1>4. ASSUME RestartSocket
      PROVE  SocketsAgree'
  BY <1>2, <1>4 DEF RestartSocket, SocketsAgree, AfterCleanup
<1>5. ASSUME NEW e \in Effect, onopen(e) \/ AuthOk(e) \/ onclose(e)
      PROVE  SocketsAgree'
  BY <1>5 DEF onopen, AuthOk, onclose, SocketsAgree, SocketTypes, Open
<1>6. ASSUME NEW e \in Effect, Reconnect(e)
      PROVE  SocketsAgree'
  BY <1>6 DEF Reconnect, SocketsAgree, SocketTypes, Open
<1>. QED
  BY <1>1, <1>3, <1>4, <1>5, <1>6 DEF SocketMoves

(* One effect at most has a live socket: OneSocket. *)
LEMMA OneRunning ==
  ASSUME SocketsAgree
  PROVE  OneSocket
<1>. DEFINE live == {e \in Effect : phase[e] \in Open}
<1>1. live \subseteq {running}
  BY DEF SocketsAgree
<1>2. IsFiniteSet({running}) /\ Cardinality({running}) = 1
  BY FS_Singleton
<1>3. Cardinality(live) <= 1
  BY <1>1, <1>2, FS_Subset
<1>. QED
  BY <1>3 DEF OneSocket

-----------------------------------------------------------------------------
(* Alerts, and lists of them, that say nothing the backend does not hold: *)
(* their ids are known to it, an alert that is acknowledged is so there,  *)
(* and its stages are its own.                                            *)

Ids(list) == {list[i].id : i \in DOMAIN list}
Acked(list) == {list[i].id : i \in {j \in DOMAIN list : list[j].acknowledged}}

Belongs(stages, id) ==
  stages \in Seq(Found) /\ \A n \in DOMAIN stages : stages[n].alert = id

Fine(I, A, entry) ==
  /\ entry \in Entry /\ entry.id \in I
  /\ entry.acknowledged => entry.id \in A
  /\ Belongs(entry.detectedStages, entry.id)

FineList(I, A, list) ==
  /\ list \in Seq(Entry)
  /\ \A i, j \in DOMAIN list : list[i].id = list[j].id => i = j
  /\ \A i \in DOMAIN list : Fine(I, A, list[i])

FineLoad(I, A, call) ==
  call \in LoadRecord /\ (call.log # None => FineList(I, A, call.log))

FineAcknowledge(I, A, call) ==
  /\ call \in AcknowledgeRecord /\ call.id \in I /\ Belongs(call.kept, call.id)
  /\ call.answer \notin {None, Refused} =>
       Fine(I, A, call.answer) /\ call.answer.id = call.id

FineAnalyse(I, A, call) ==
  /\ call \in AnalyseRecord /\ Fine(I, A, call.base)
  /\ call.answer \notin {None, Refused} => Belongs(call.answer, call.base.id)

FineCall(I, A, call) ==
  \/ call \in LoginRecord \cup ChangeRecord \cup IngestRecord
  \/ FineLoad(I, A, call) \/ FineAcknowledge(I, A, call) \/ FineAnalyse(I, A, call)

(* What the backend has learnt, it keeps. *)
LEMMA FineGrows ==
  ASSUME NEW I, NEW A, NEW J, NEW B, I \subseteq J, A \subseteq B
  PROVE  /\ \A entry : Fine(I, A, entry) => Fine(J, B, entry)
         /\ \A list : FineList(I, A, list) => FineList(J, B, list)
         /\ \A call : FineCall(I, A, call) => FineCall(J, B, call)
<1>1. \A entry : Fine(I, A, entry) => Fine(J, B, entry)
  BY DEF Fine
<1>2. \A list : FineList(I, A, list) => FineList(J, B, list)
  BY <1>1 DEF FineList
<1>. QED
  BY <1>1, <1>2 DEF FineCall, FineLoad, FineAcknowledge, FineAnalyse

(* The alert of an id in a list that has one. *)
LEMMA LookupFine ==
  ASSUME NEW I, NEW A, NEW list, FineList(I, A, list), NEW id
  PROVE  /\ Listed(list, id) <=> id \in Ids(list)
         /\ id \in Ids(list) =>
              /\ Fine(I, A, Lookup(list, id)) /\ Lookup(list, id).id = id
              /\ Lookup(list, id).acknowledged <=> id \in Acked(list)
              /\ \A i \in DOMAIN list : list[i].id = id => list[i] = Lookup(list, id)
<1>1. Listed(list, id) <=> id \in Ids(list)
  BY DEF Listed, Indices, Ids
<1>2. ASSUME id \in Ids(list)
      PROVE  /\ Fine(I, A, Lookup(list, id)) /\ Lookup(list, id).id = id
             /\ Lookup(list, id).acknowledged <=> id \in Acked(list)
             /\ \A i \in DOMAIN list : list[i].id = id => list[i] = Lookup(list, id)
  <2>. DEFINE k == CHOOSE i \in Indices(list, id) : TRUE
  <2>1. k \in DOMAIN list /\ list[k].id = id
    BY <1>2 DEF Indices, Ids
  <2>2. Lookup(list, id) = list[k]
    BY DEF Lookup
  <2>. HIDE DEF k
  <2>3. \A i \in DOMAIN list : list[i].id = id => i = k
    BY <2>1 DEF FineList
  <2>4. list[k].acknowledged <=> id \in Acked(list)
    BY <2>1, <2>3 DEF Acked
  <2>. QED
    BY <2>1, <2>2, <2>3, <2>4 DEF FineList
<1>. QED
  BY <1>1, <1>2

(* Putting an alert in the place of the one of its id. *)
LEMMA ReplaceFine ==
  ASSUME NEW I, NEW A, NEW list, FineList(I, A, list), NEW entry, Fine(I, A, entry)
  PROVE  /\ FineList(I, A, Replace(list, entry))
         /\ Ids(Replace(list, entry)) = Ids(list)
<1>. DEFINE new == Replace(list, entry)
<1>1. DOMAIN new = DOMAIN list /\ DOMAIN list = 1..Len(list) /\ Len(list) \in Nat
  BY DEF Replace, FineList
<1>2. \A i \in DOMAIN list :
        new[i] = IF list[i].id = entry.id THEN entry ELSE list[i]
  BY DEF Replace
<1>. HIDE DEF new
<1>3. \A i \in DOMAIN list : Fine(I, A, new[i]) /\ new[i].id = list[i].id
  BY <1>2 DEF FineList
<1>4. new \in Seq(Entry)
  <2>1. \A i \in 1..Len(list) : new[i] \in Entry
    BY <1>1, <1>3 DEF Fine
  <2>2. new = [i \in 1..Len(list) |-> new[i]]
    BY <1>1 DEF new, Replace
  <2>. QED
    BY <1>1, <2>1, <2>2
<1>5. FineList(I, A, new)
  BY <1>1, <1>3, <1>4 DEF FineList
<1>6. Ids(new) = Ids(list)
  BY <1>1, <1>3 DEF Ids
<1>. QED
  BY <1>5, <1>6 DEF new

(* Putting a new alert before the others. *)
LEMMA ConsFine ==
  ASSUME NEW I, NEW A, NEW list, FineList(I, A, list), NEW entry, Fine(I, A, entry),
         entry.id \notin Ids(list)
  PROVE  /\ FineList(I, A, <<entry>> \o list)
         /\ Ids(<<entry>> \o list) = Ids(list) \cup {entry.id}
         /\ Acked(list) \subseteq Acked(<<entry>> \o list)
<1>. DEFINE new == <<entry>> \o list
<1>1. list \in Seq(Entry) /\ entry \in Entry
  BY DEF FineList, Fine
<1>2. /\ new \in Seq(Entry) /\ Len(new) = Len(list) + 1 /\ Len(list) \in Nat
      /\ new[1] = entry /\ \A i \in 1..Len(list) : new[i + 1] = list[i]
  BY <1>1
<1>3. DOMAIN new = 1..Len(list) + 1 /\ DOMAIN list = 1..Len(list)
  BY <1>1, <1>2
<1>. HIDE DEF new
<1>4. \A i \in DOMAIN new : i = 1 \/ (i - 1 \in DOMAIN list /\ new[i] = list[i - 1])
  BY <1>2, <1>3
<1>5. \A i \in DOMAIN new : Fine(I, A, new[i])
  BY <1>2, <1>4 DEF FineList
<1>6. \A i, j \in DOMAIN new : new[i].id = new[j].id => i = j
  <2>. SUFFICES ASSUME NEW i \in DOMAIN new, NEW j \in DOMAIN new, new[i].id = new[j].id
                PROVE  i = j
    OBVIOUS
  <2>1. \A n \in DOMAIN list : list[n].id # entry.id
    BY DEF Ids
  <2>2. CASE i = 1 \/ j = 1
    BY <1>2, <1>4, <2>1, <2>2
  <2>3. CASE i # 1 /\ j # 1
    <3>1. i - 1 \in DOMAIN list /\ j - 1 \in DOMAIN list /\ list[i - 1].id = list[j - 1].id
      BY <1>4, <2>3
    <3>2. i - 1 = j - 1
      BY <3>1 DEF FineList
    <3>. QED
      BY <1>3, <3>2
  <2>. QED
    BY <2>2, <2>3
<1>7. FineList(I, A, new)
  BY <1>2, <1>5, <1>6 DEF FineList
<1>8. 1 \in DOMAIN new /\ \A i \in DOMAIN list : i + 1 \in DOMAIN new /\ new[i + 1] = list[i]
  BY <1>2, <1>3
<1>9. Ids(new) = Ids(list) \cup {entry.id}
  BY <1>2, <1>4, <1>8 DEF Ids
<1>10. Acked(list) \subseteq Acked(new)
  BY <1>8 DEF Acked
<1>. QED
  BY <1>7, <1>9, <1>10 DEF new

(* Merging stages of an alert with others of it. *)
LEMMA MergeBelongs ==
  ASSUME NEW stages, NEW new, NEW id, Belongs(stages, id), Belongs(new, id)
  PROVE  Belongs(Merge(stages, new), id)
<1>. DEFINE kept == {n \in DOMAIN new : /\ new[n].stage \notin Detected(stages)
                                        /\ \A m \in 1..n - 1 : new[m].stage # new[n].stage}
            added == Sublist(new, kept)
<1>1. kept \in SUBSET DOMAIN new /\ new \in Seq(Found) /\ stages \in Seq(Found)
  BY DEF Belongs
<1>2. Merge(stages, new) = stages \o added
  BY DEF Merge
<1>. HIDE DEF kept
<1>3. /\ added \in Seq(Found)
      /\ \A n \in DOMAIN added : \E i \in kept : added[n] = new[i]
  BY <1>1, SublistItems
<1>. HIDE DEF added
<1>4. \A n \in DOMAIN added : added[n].alert = id
  BY <1>1, <1>3 DEF Belongs
<1>5. /\ stages \o added \in Seq(Found)
      /\ \A n \in DOMAIN (stages \o added) :
           (stages \o added)[n] = IF n <= Len(stages) THEN stages[n]
                                  ELSE added[n - Len(stages)]
      /\ \A n \in DOMAIN (stages \o added) :
           IF n <= Len(stages) THEN n \in DOMAIN stages ELSE n - Len(stages) \in DOMAIN added
  BY <1>1, <1>3
<1>. QED
  BY <1>2, <1>4, <1>5 DEF Belongs

-----------------------------------------------------------------------------
(* The list: its rows are alerts the page holds *)

(* Precedes is a strict total order, so each place of the sorted list is   *)
(* taken by one of the alerts that match.                                  *)
LEMMA PlacesTaken ==
  ASSUME alerts \in Seq(Entry)
  PROVE  /\ Cardinality(matching) \in Nat
         /\ \A n \in 1..Cardinality(matching) : rowAt(n) \in DOMAIN alerts
<1>. DEFINE R == {p \in matching \X matching : Precedes(p[1], p[2])}
<1>1. IsFiniteSet(matching) /\ matching \subseteq DOMAIN alerts
  BY FS_Interval, FS_Subset DEF matching
<1>2. \A i \in matching : i \in Nat /\ SortKey(alerts[i]) \in Nat
  <2>1. \A i \in matching : i \in Nat /\ alerts[i] \in Entry
    BY <1>1
  <2>2. \A entry \in Entry : entry.id \in Nat /\ entry.severity \in Nat
    <3>1. AlertId \subseteq Nat /\ Severity \subseteq Nat
      BY DashboardAssumption
    <3>. QED
      BY <3>1 DEF Entry
  <2>. QED
    BY <2>1, <2>2 DEF SortKey
<1>3. /\ \A x, y, z \in matching : Precedes(x, y) /\ Precedes(y, z) => Precedes(x, z)
      /\ \A x \in matching : ~Precedes(x, x)
      /\ \A x, y \in matching : x = y \/ Precedes(x, y) \/ Precedes(y, x)
  BY <1>2 DEF Precedes
<1>4. \A x, y \in matching : <<x, y>> \in R <=> Precedes(x, y)
  OBVIOUS
<1>5. \A i \in matching : Below(matching, R, i) = {j \in matching : Precedes(j, i)}
  BY DEF Below
<1>. HIDE DEF R
<1>6. \A n \in 1..Cardinality(matching) :
        \E i \in matching : Cardinality(Below(matching, R, i)) = n - 1
  <2>1. /\ \A x, y, z \in matching : <<x, y>> \in R /\ <<y, z>> \in R => <<x, z>> \in R
        /\ \A x \in matching : <<x, x>> \notin R
        /\ \A x, y \in matching : x = y \/ <<x, y>> \in R \/ <<y, x>> \in R
    BY <1>3, <1>4
  <2>. QED
    BY <1>1, <2>1, RanksTaken, SMTT(20)
<1>7. \A n \in 1..Cardinality(matching) : rowAt(n) \in matching
  BY <1>5, <1>6 DEF rowAt
<1>. QED
  BY <1>1, <1>7, FS_CardinalityType

LEMMA ProcessedShown ==
  ASSUME alerts \in Seq(Entry)
  PROVE  /\ processedAlerts \in Seq(Entry)
         /\ \A n \in DOMAIN processedAlerts :
              \E i \in DOMAIN alerts : processedAlerts[n] = alerts[i]
<1>1. /\ Cardinality(matching) \in Nat
      /\ \A n \in 1..Cardinality(matching) : rowAt(n) \in DOMAIN alerts
  BY PlacesTaken
<1>2. \A n \in 1..Cardinality(matching) : alerts[rowAt(n)] \in Entry
  BY <1>1
<1>. QED
  BY <1>1, <1>2 DEF processedAlerts

(* The page that is shown begins at a row there is, if there is any.  *)
LEMMA PageInRange ==
  ASSUME alerts \in Seq(Entry), currentPage \in Nat \ {0}
  PROVE  /\ totalPages \in Nat \ {0} /\ safeCurrentPage \in 1..totalPages
         /\ (safeCurrentPage - 1) * itemsPerPage \in Nat
         /\ processedAlerts # <<>> =>
              (safeCurrentPage - 1) * itemsPerPage < Len(processedAlerts)
         /\ processedAlerts = <<>> => (safeCurrentPage - 1) * itemsPerPage = 0
<1>. DEFINE p == itemsPerPage
            l == Len(processedAlerts)
            full == (l + p - 1) \div p
            page == safeCurrentPage
<1>1. p \in Nat \ {0} /\ l \in Nat /\ (l = 0 <=> processedAlerts = <<>>)
  BY AlertsPageAssumption, ProcessedShown
<1>2. totalPages = IF full = 0 THEN 1 ELSE full
  BY DEF totalPages
<1>3. page = IF currentPage < totalPages THEN currentPage ELSE totalPages
  BY DEF safeCurrentPage
<1>. HIDE DEF p, l, page
<1>4. l + p - 1 \in Nat
  BY <1>1
<1>5. full \in Nat
  BY <1>1, <1>4
<1>6. totalPages \in Nat \ {0}
  BY <1>2, <1>5
<1>7. page \in 1..totalPages
  BY <1>3, <1>6
<1>8. (page - 1) * p \in Nat
  <2>1. page - 1 \in Nat
    BY <1>6, <1>7
  <2>. QED
    BY <1>1, <2>1
<1>9. CASE l = 0
  <2>1. full * p <= p - 1
    BY <1>1, <1>4, <1>9
  <2>2. full = 0
    BY <1>1, <1>5, <2>1
  <2>3. page = 1
    BY <1>2, <1>7, <2>2
  <2>. QED
    BY <1>1, <1>6, <1>7, <1>8, <1>9, <2>3 DEF p, l, page
<1>10. CASE l # 0
  <2>1. full * p <= l + p - 1 /\ l + p - 1 < full * p + p
    BY <1>1, <1>4
  <2>2. full # 0
    BY <1>1, <1>10, <2>1
  <2>3. (page - 1) * p <= (full - 1) * p
    <3>1. page - 1 \in Int /\ full - 1 \in Int /\ page - 1 <= full - 1
      BY <1>2, <1>5, <1>6, <1>7, <2>2
    <3>. HIDE DEF full
    <3>. QED
      BY <1>1, <3>1
  <2>4. (full - 1) * p = full * p - p
    BY <1>1, <1>5
  <2>5. (page - 1) * p < l
    <3>. DEFINE a == (page - 1) * p
                b == full * p
    <3>1. a \in Int /\ b \in Int /\ a <= b - p /\ b <= l + p - 1
      BY <1>1, <1>5, <1>8, <2>1, <2>3, <2>4
    <3>. HIDE DEF a, b
    <3>2. a < l
      BY <1>1, <3>1
    <3>. QED
      BY <3>2 DEF a
  <2>. QED
    BY <1>1, <1>6, <1>7, <1>8, <1>10, <2>5 DEF p, l, page
<1>. QED
  BY <1>9, <1>10

(* What a page of the list shows are alerts the root component holds. *)
LEMMA RowsShown ==
  ASSUME alerts \in Seq(Entry), currentPage \in Nat \ {0}, NEW entry \in Rows
  PROVE  \E i \in DOMAIN alerts : entry = alerts[i]
<1>. DEFINE start == (safeCurrentPage - 1) * itemsPerPage
            left == Len(processedAlerts) - start
            size == IF left < itemsPerPage THEN left ELSE itemsPerPage
<1>1. /\ start \in Nat /\ itemsPerPage \in Nat \ {0}
      /\ processedAlerts # <<>> => start < Len(processedAlerts)
      /\ processedAlerts = <<>> => start = 0
  BY PageInRange, AlertsPageAssumption
<1>2. paginatedAlerts = SubSeq(processedAlerts, start + 1, start + size)
  BY DEF paginatedAlerts, PageRows
<1>. HIDE DEF start
<1>3. processedAlerts \in Seq(Entry) /\ Len(processedAlerts) \in Nat
  BY ProcessedShown
<1>4. start + 1 \in 1..Len(processedAlerts) + 1 /\ start + size \in start..Len(processedAlerts)
  BY <1>1, <1>3
<1>. DEFINE first == start + 1
            last == start + size
<1>5. \A n \in DOMAIN paginatedAlerts :
        \E m \in DOMAIN processedAlerts : paginatedAlerts[n] = processedAlerts[m]
  <2>1. first - 1 = start
    BY <1>1
  <2>2. /\ first \in 1..Len(processedAlerts) + 1 /\ last \in first - 1..Len(processedAlerts)
        /\ paginatedAlerts = SubSeq(processedAlerts, first, last)
    BY <1>2, <1>4, <2>1
  <2>. DEFINE all == processedAlerts
  <2>3. all \in Seq(Entry) /\ first \in 1..Len(all) + 1 /\ last \in first - 1..Len(all)
    BY <1>3, <2>2
  <2>. HIDE DEF first, last, all
  <2>4. \A i \in DOMAIN SubSeq(all, first, last) :
          \E j \in DOMAIN all : SubSeq(all, first, last)[i] = all[j]
    BY <2>3, PartItems
  <2>. QED
    BY <2>2, <2>4 DEF all
<1>6. PICK n \in DOMAIN paginatedAlerts : entry = paginatedAlerts[n]
  BY DEF Rows, ToSet
<1>. QED
  BY <1>5, <1>6, ProcessedShown

(* The page of the list that is shown has a row, if any alert matches. *)
LEMMA PageHasRow ==
  ASSUME alerts \in Seq(Entry), currentPage \in Nat \ {0}
  PROVE  PageNotEmpty
<1>. DEFINE start == (safeCurrentPage - 1) * itemsPerPage
            left == Len(processedAlerts) - start
            size == IF left < itemsPerPage THEN left ELSE itemsPerPage
<1>0. SUFFICES ASSUME processedAlerts # <<>> PROVE paginatedAlerts # <<>>
  BY DEF PageNotEmpty
<1>1. start \in Nat /\ itemsPerPage \in Nat \ {0} /\ start < Len(processedAlerts)
  BY <1>0, PageInRange, AlertsPageAssumption
<1>2. paginatedAlerts = SubSeq(processedAlerts, start + 1, start + size)
  BY DEF paginatedAlerts, PageRows
<1>. HIDE DEF start
<1>3. processedAlerts \in Seq(Entry) /\ Len(processedAlerts) \in Nat
  BY ProcessedShown
<1>4. /\ start + 1 \in 1..Len(processedAlerts) + 1
      /\ start + size \in 0..Len(processedAlerts) /\ start + 1 <= start + size
  BY <1>1, <1>3
<1>. HIDE DEF size
<1>5. PICK m \in 1..Len(processedAlerts) + 1, n \in 0..Len(processedAlerts) :
        m <= n /\ paginatedAlerts = SubSeq(processedAlerts, m, n)
  BY <1>1, <1>2, <1>3, <1>4
<1>6. Len(paginatedAlerts) = n - m + 1
  <2>1. n \in m - 1..Len(processedAlerts)
    BY <1>3, <1>5
  <2>2. Len(SubSeq(processedAlerts, m, n)) = n - m + 1
    BY <1>3, <2>1, PartItems
  <2>. QED
    BY <1>5, <2>2
<1>7. Len(paginatedAlerts) >= 1
  BY <1>3, <1>5, <1>6
<1>. QED
  BY <1>7

-----------------------------------------------------------------------------
(* What the page, its sockets and its calls hold of alerts *)

FineCalls(I, A, table) ==
  /\ table \in [Slot -> CallRecord \cup {None}]
  /\ \A s \in Slot : table[s] # None => FineCall(I, A, table[s])

HeldTrue(I, A) ==
  /\ FineList(I, A, alerts)
  /\ \A f \in wire : Fine(I, A, f.alert)
  /\ \A entry \in opening : Fine(I, A, entry)
  /\ FineCalls(I, A, calls)

(* What has become known, and reviewed, of alerts that are stored and of   *)
(* those that were deleted: both only grow.                                *)
Known == Ids(stored) \cup gone
Reviewed == Acked(stored) \cup gone

RecordsTrue ==
  /\ FineList(Known, Reviewed, stored)
  /\ HeldTrue(Known, Reviewed)

RecordTypes ==
  /\ sessionId \in BOOLEAN /\ token \in BOOLEAN /\ loads \in BOOLEAN
  /\ children \subseteq Child /\ family \subseteq Child
  /\ currentPage \in Nat \ {0} /\ activeView \in View
  /\ mode \in {"login", "register"} /\ senderRole \in Role
  /\ draft \in Child \cup {None}

LEMMA TruthShown ==
  ASSUME RecordsTrue
  PROVE  AlertsDistinct /\ ShownAckIsReal /\ StagesBelong
<1>. DEFINE I == Known
            A == Reviewed
<1>1. FineList(I, A, stored) /\ FineList(I, A, alerts)
  BY DEF RecordsTrue, HeldTrue
<1>2. AlertsDistinct
  BY <1>1 DEF FineList, AlertsDistinct
<1>3. ASSUME NEW i \in DOMAIN alerts, alerts[i].acknowledged
      PROVE  \/ alerts[i].id \in gone
             \/ Listed(stored, alerts[i].id) /\ Lookup(stored, alerts[i].id).acknowledged
  <2>1. alerts[i].id \in Reviewed
    BY <1>1, <1>3 DEF FineList, Fine
  <2>2. Acked(stored) \subseteq Ids(stored)
    BY DEF Acked, Ids
  <2>. QED
    BY <1>1, <2>1, <2>2, LookupFine DEF Reviewed
<1>4. ASSUME NEW i \in DOMAIN alerts, NEW found \in ToSet(alerts[i].detectedStages)
      PROVE  found.alert = alerts[i].id
  <2>1. Belongs(alerts[i].detectedStages, alerts[i].id)
    BY <1>1 DEF FineList, Fine
  <2>. QED
    BY <2>1, <1>4 DEF Belongs, ToSet
<1>. QED
  BY <1>2, <1>3, <1>4 DEF ShownAckIsReal, StagesBelong

(* How a step changes what is held, apart from what the backend does to    *)
(* its own alerts.                                                         *)
AlertsMoves ==
  \/ alerts' = alerts \/ alerts' = <<>>
  \/ \E entry \in opening : alerts' = Prepend(entry)
  \/ \E s \in Slot : Loaded(s) \/ Acknowledged(s) \/ Analysed(s)

OpeningMoves ==
  opening' \subseteq opening \/ \E f \in wire : opening' = opening \cup {f.alert}

CallMoves ==
  \/ UNCHANGED calls
  \/ \E s \in Slot :
       Return(s) \/ AnswerLoad(s) \/ Registered(s) \/ LoggedIn(s) \/ ChangeDone(s)
         \/ AnswerIngest(s)
  \/ Call(Load(TRUE)) \/ handleSubmit \/ handleSend
  \/ \E op \in {"create", "update", "delete"}, c \in Child : Change(op, c)
  \/ (\E entry \in Rows : AcknowledgeRow(entry)) \/ AcknowledgeAndGoBack
  \/ handleContinueAnalysis

PageMoves ==
  UNCHANGED <<stored, gone>> /\ AlertsMoves /\ wire' \subseteq wire /\ OpeningMoves /\ CallMoves

StoreMoves ==
  \/ \E s \in Slot : AnswerAcknowledge(s) \/ AnswerAnalysis(s) \/ AnswerChange(s)
  \/ \E id \in AlertId, severity \in Severity : RaiseAlert(id, severity)

LEMMA RecordsMove ==
  ASSUME Next, RecordTypes
  PROVE  PageMoves \/ StoreMoves
<1>. USE DEF PageMoves, StoreMoves, AlertsMoves, OpeningMoves, CallMoves, rest, socketVars,
             session, shown, backend, StopSocket, RestartSocket
<1>1. CASE AppStep
  <2>1. CASE \/ \E e \in Effect : onopen(e) \/ AuthOk(e) \/ onclose(e) \/ Reconnect(e)
             \/ \E f \in wire : ReceiveFrame(f)
             \/ \E entry \in opening : ShowAlert(entry)
    BY <2>1 DEF onopen, AuthOk, onclose, Reconnect, ReceiveFrame, ShowAlert
  <2>2. CASE \E s \in Slot : AnswerLoad(s) \/ Loaded(s) \/ LoadFailed(s)
    BY <2>2 DEF Loaded, LoadFailed, AnswerLoad
  <2>3. CASE \E s \in Slot : Acknowledged(s) \/ AcknowledgeFailed(s)
    BY <2>3 DEF Acknowledged, AcknowledgeFailed
  <2>4. CASE RetryLoad \/ CheckProfile \/ ProfileKnown \/ ProfileGone \/ handleLogout
    BY <2>4
    DEF RetryLoad, loadDashboardData, CheckProfile, ProfileKnown, ProfileGone, handleLogout,
        LeaveSession
  <2>5. CASE \/ LeaveMissing
             \/ \E id \in AlertId : ClickToast(id) \/ ClickNotification(id)
             \/ \E key \in toasts : DismissToast(key) \/ PressClose(key)
    BY <2>5
    DEF LeaveMissing, Navigate, ClickToast, ClickNotification, DismissToast, PressClose
  <2>6. CASE \/ \E s \in Slot : AnswerAcknowledge(s)
             \/ \E id \in AlertId, severity \in Severity : RaiseAlert(id, severity)
    BY <2>6
  <2>. QED
    BY <1>1, <2>1, <2>2, <2>3, <2>4, <2>5, <2>6 DEF AppStep
<1>2. CASE OpenRecent \/ OpenCard \/ ViewAllAlerts \/ SelectRow \/ GoBack \/ handleNavigate
  BY <1>2 DEF OpenRecent, OpenCard, ViewAllAlerts, SelectRow, GoBack, handleNavigate, Navigate
<1>3. CASE KeysExchanged \/ AuthStep \/ \E s \in Slot : LoggedIn(s)
  BY <1>3
  DEF KeysExchanged, SessionPaired, AuthStep, Connect, Associated, ConnectFailed,
      SwitchMode, handleSubmit, Registered, LoginFailed, LoggedIn, handleAuthSuccess, appVars
<1>4. CASE ListStep
  BY <1>4
  DEF ListStep, FilterChosen, ChooseFilter, toggleSort, TurnPage, AcknowledgeRow,
      handleAcknowledgeAlert
<1>5. CASE DetailStep
  BY <1>5
  DEF DetailStep, SelectTab, ToggleStage, ShowProgress, Analysed,
      AnalysisFailed, EndOfAnalysis, AcknowledgeAndGoBack, handleAcknowledgeAlert,
      handleContinueAnalysis, appVars
<1>6. CASE ChildrenStep \/ \E s \in Slot : ChangeDone(s)
  BY <1>6
  DEF ChildrenStep, EnterChild, startEdit, askDelete, cancelEdit, keepChild, Edited,
      handleRegister, handleUpdate, handleDelete, Change, ChangeFailed, ChangeDoneQuietly,
      ChangeDone, RecordTypes
<1>7. CASE RoomStep \/ ToggleMenu
  BY <1>7
  DEF RoomStep, SelectChild, SelectRole, EnterMessage, ClearLogs, handleSend, AnswerIngest,
      Sent, SendFailed, ToggleMenu
<1>8. CASE SettingsStep
  BY <1>8
  DEF SettingsStep, ChooseTheme, ChooseInterval, ToggleSound, handleVolumeChange,
      requestDesktopNotificationPermission, PermissionAnswered, Changed, ChangedQuietly
<1>. QED
  BY <1>1, <1>2, <1>3, <1>4, <1>5, <1>6, <1>7, <1>8 DEF Next, Turn

-----------------------------------------------------------------------------
(* A record in flight is known by what it asks for. *)
LEMMA CallKinds ==
  ASSUME NEW I, NEW A, NEW call, FineCall(I, A, call)
  PROVE  /\ call \in CallRecord
         /\ call.op \in {"register", "login"} => call \in LoginRecord
         /\ call.op = "load" => FineLoad(I, A, call)
         /\ call.op = "acknowledge" => FineAcknowledge(I, A, call)
         /\ call.op = "analyse" => FineAnalyse(I, A, call)
         /\ call.op \in {"create", "update", "delete"} => call \in ChangeRecord
         /\ call.op = "ingest" => call \in IngestRecord
<1>1. /\ FineLoad(I, A, call) => call \in LoadRecord
      /\ FineAcknowledge(I, A, call) => call \in AcknowledgeRecord
      /\ FineAnalyse(I, A, call) => call \in AnalyseRecord
  BY DEF FineLoad, FineAcknowledge, FineAnalyse
<1>2. /\ call \in LoginRecord => call.op \in {"register", "login"}
      /\ call \in LoadRecord => call.op = "load"
      /\ call \in AcknowledgeRecord => call.op = "acknowledge"
      /\ call \in AnalyseRecord => call.op = "analyse"
      /\ call \in ChangeRecord => call.op \in {"create", "update", "delete"}
      /\ call \in IngestRecord => call.op = "ingest"
  BY DEF LoginRecord, LoadRecord, AcknowledgeRecord, AnalyseRecord, ChangeRecord,
         IngestRecord
<1>3. call \in CallRecord
  BY <1>1 DEF FineCall, CallRecord
<1>. QED
  BY <1>1, <1>2, <1>3 DEF FineCall

LEMMA PutFine ==
  ASSUME NEW I, NEW A, NEW table, FineCalls(I, A, table), NEW s \in Slot, NEW call,
         call = None \/ FineCall(I, A, call)
  PROVE  FineCalls(I, A, [table EXCEPT ![s] = call])
BY CallKinds DEF FineCalls

LEMMA CallFine ==
  ASSUME NEW I, NEW A, HeldTrue(I, A), NEW s \in Slot, calls[s] # None
  PROVE  FineCall(I, A, calls[s])
BY DEF HeldTrue, FineCalls

LEMMA HeldGrows ==
  ASSUME NEW I, NEW A, NEW J, NEW B, I \subseteq J, A \subseteq B, HeldTrue(I, A)
  PROVE  HeldTrue(J, B)
BY FineGrows DEF HeldTrue, FineCalls

(* The alerts shown, after what a step of the page makes of them. *)
LEMMA AlertsHold ==
  ASSUME NEW I, NEW A, HeldTrue(I, A), AlertsMoves
  PROVE  FineList(I, A, alerts')
<1>0. FineList(I, A, alerts)
  BY DEF HeldTrue
<1>1. FineList(I, A, <<>>)
  BY DEF FineList
<1>2. ASSUME NEW entry \in opening, alerts' = Prepend(entry)
      PROVE  FineList(I, A, alerts')
  <2>1. Fine(I, A, entry)
    BY DEF HeldTrue
  <2>2. Listed(alerts, entry.id) <=> entry.id \in Ids(alerts)
    BY <1>0, LookupFine
  <2>3. FineList(I, A, Replace(alerts, entry))
    BY <1>0, <2>1, ReplaceFine
  <2>4. ASSUME entry.id \notin Ids(alerts)
        PROVE  FineList(I, A, <<entry>> \o alerts)
    BY <1>0, <2>1, <2>4, ConsFine
  <2>. QED
    BY <1>2, <2>2, <2>3, <2>4 DEF Prepend
<1>3. ASSUME NEW s \in Slot, Loaded(s)
      PROVE  FineList(I, A, alerts')
  <2>1. FineLoad(I, A, calls[s])
    BY <1>3, CallFine, CallKinds DEF Loaded
  <2>. QED
    BY <1>3, <2>1 DEF Loaded, FineLoad
<1>4. ASSUME NEW s \in Slot, Acknowledged(s)
      PROVE  FineList(I, A, alerts')
  <2>. DEFINE call == calls[s]
              entry == [call.answer EXCEPT !.detectedStages = call.kept]
  <2>1. FineAcknowledge(I, A, call)
    BY <1>4, CallFine, CallKinds DEF Acknowledged
  <2>2. call.answer \notin {None, Refused} /\ alerts' = Replace(alerts, entry)
    BY <1>4 DEF Acknowledged
  <2>. HIDE DEF call
  <2>3. Fine(I, A, call.answer) /\ call.answer.id = call.id /\ Belongs(call.kept, call.id)
    BY <2>1, <2>2 DEF FineAcknowledge
  <2>4. /\ entry \in Entry /\ entry.id = call.answer.id /\ entry.detectedStages = call.kept
        /\ entry.acknowledged = call.answer.acknowledged
    BY <2>3 DEF Fine, Belongs, Entry
  <2>. HIDE DEF entry
  <2>5. Fine(I, A, entry)
    BY <2>3, <2>4 DEF Fine
  <2>. QED
    BY <1>0, <2>2, <2>5, ReplaceFine
<1>5. ASSUME NEW s \in Slot, Analysed(s)
      PROVE  FineList(I, A, alerts')
  <2>. DEFINE base == calls[s].base
              new == calls[s].answer
              merged == Merge(base.detectedStages, new)
              entry == [base EXCEPT !.detectedStages = merged]
  <2>1. FineAnalyse(I, A, calls[s])
    BY <1>5, CallFine, CallKinds DEF Analysed
  <2>2. new \notin {None, Refused} /\ alerts' = Replace(alerts, entry)
    BY <1>5 DEF Analysed
  <2>3. Fine(I, A, base) /\ Belongs(new, base.id)
    BY <2>1, <2>2 DEF FineAnalyse
  <2>. HIDE DEF base, new
  <2>4. Belongs(merged, base.id)
    BY <2>3, MergeBelongs DEF Fine
  <2>. HIDE DEF merged
  <2>5. /\ entry \in Entry /\ entry.id = base.id /\ entry.detectedStages = merged
        /\ entry.acknowledged = base.acknowledged
    BY <2>3, <2>4 DEF Fine, Belongs, Entry
  <2>. HIDE DEF entry
  <2>6. Fine(I, A, entry)
    BY <2>3, <2>4, <2>5 DEF Fine
  <2>. QED
    BY <1>0, <2>2, <2>6, ReplaceFine
<1>. QED
  BY <1>0, <1>1, <1>2, <1>3, <1>4, <1>5 DEF AlertsMoves

(* The page of an alert is shown for an alert that is listed. *)
LEMMA DetailListed ==
  ASSUME sessionId \in BOOLEAN, token \in BOOLEAN, activeView \in View, OnDetail
  PROVE  Listed(alerts, activeView.id) /\ activeView.id \in AlertId
<1>1. renderCurrentView = "detail"
  BY DEF OnDetail, Screen
<1>2. activeView.page # "detail"
  BY DEF View, PageView, AlertView, Page
<1>3. activeView.page = "alert" /\ Listed(alerts, activeView.id)
  BY <1>1, <1>2 DEF renderCurrentView
<1>4. activeView.page = "alert" => activeView.id \in AlertId
  BY DEF View, PageView, AlertView, Page
<1>. QED
  BY <1>3, <1>4

(* A call of handleAcknowledgeAlert, for an alert that is listed. *)
LEMMA AcknowledgeFine ==
  ASSUME NEW I, NEW A, HeldTrue(I, A), NEW id \in Ids(alerts), NEW back \in BOOLEAN,
         handleAcknowledgeAlert(id, back)
  PROVE  FineCalls(I, A, calls')
<1>. DEFINE call == [op |-> "acknowledge", id |-> id, kept |-> StagesShown(id),
                     back |-> back, answer |-> None]
<1>1. FineList(I, A, alerts) /\ FineCalls(I, A, calls)
  BY DEF HeldTrue
<1>2. /\ Fine(I, A, Lookup(alerts, id)) /\ Lookup(alerts, id).id = id
      /\ StagesShown(id) = Lookup(alerts, id).detectedStages
  BY <1>1, LookupFine DEF StagesShown
<1>3. id \in I /\ id \in AlertId /\ Belongs(StagesShown(id), id)
  BY <1>2 DEF Fine, Entry
<1>4. call \in AcknowledgeRecord
  BY <1>3 DEF AcknowledgeRecord, Belongs
<1>5. FineAcknowledge(I, A, call)
  BY <1>3, <1>4 DEF FineAcknowledge
<1>6. PICK s \in Slot : calls' = [calls EXCEPT ![s] = call]
  BY DEF handleAcknowledgeAlert, Call
<1>. HIDE DEF call
<1>7. FineCall(I, A, call)
  BY <1>5 DEF FineCall
<1>. QED
  BY <1>1, <1>6, <1>7, PutFine

LEMMA LoadIsFine ==
  ASSUME NEW I, NEW A, NEW authorized \in BOOLEAN
  PROVE  FineCall(I, A, Load(authorized))
<1>1. Load(authorized) \in LoadRecord /\ Load(authorized).log = None
  BY DEF Load, LoadRecord
<1>. QED
  BY <1>1 DEF FineCall, FineLoad

(* The calls, after what a step of the page makes of them. *)
LEMMA CallsHold ==
  ASSUME NEW I, NEW A, HeldTrue(I, A), FineList(I, A, stored), RecordTypes, CallMoves
  PROVE  FineCalls(I, A, calls')
<1>. DEFINE Goal == FineCalls(I, A, calls')
<1>0. FineCalls(I, A, calls) /\ FineList(I, A, alerts)
  BY DEF HeldTrue
<1>1. ASSUME NEW s \in Slot, NEW call, call = None \/ FineCall(I, A, call),
             calls' = [calls EXCEPT ![s] = call]
      PROVE  Goal
  BY <1>0, <1>1, PutFine
<1>2. ASSUME UNCHANGED calls PROVE Goal
  BY <1>0, <1>2
<1>3. ASSUME NEW s \in Slot, Return(s) PROVE Goal
  BY <1>1, <1>3 DEF Return
<1>4. ASSUME NEW s \in Slot, AnswerLoad(s) PROVE Goal
  <2>. DEFINE c == calls[s]
              withKids == [c EXCEPT !.kids = family]
              withLog == [c EXCEPT !.log = stored]
  <2>1. FineLoad(I, A, c)
    BY <1>4, CallFine, CallKinds DEF AnswerLoad
  <2>2. calls' = [calls EXCEPT ![s] = withKids] \/ calls' = [calls EXCEPT ![s] = withLog]
    BY <1>4 DEF AnswerLoad
  <2>. HIDE DEF c
  <2>3. family \in SUBSET Child /\ stored \in Seq(Entry)
    BY DEF FineList, RecordTypes
  <2>4. /\ withKids \in LoadRecord /\ withKids.log = c.log
        /\ withLog \in LoadRecord /\ withLog.log = stored
    BY <2>1, <2>3 DEF FineLoad, LoadRecord
  <2>. HIDE DEF withKids, withLog
  <2>5. FineCall(I, A, withKids) /\ FineCall(I, A, withLog)
    BY <2>1, <2>4 DEF FineCall, FineLoad
  <2>. QED
    BY <1>1, <2>2, <2>5
<1>5. ASSUME NEW s \in Slot, Registered(s) PROVE Goal
  <2>. DEFINE c == calls[s]
              next == [c EXCEPT !.op = "login"]
  <2>1. c \in LoginRecord
    BY <1>5, CallFine, CallKinds DEF Registered
  <2>2. calls' = [calls EXCEPT ![s] = next]
    BY <1>5 DEF Registered
  <2>. HIDE DEF c
  <2>3. next \in LoginRecord
    BY <2>1 DEF LoginRecord
  <2>. HIDE DEF next
  <2>. QED
    BY <1>1, <2>2, <2>3 DEF FineCall
<1>6. ASSUME NEW s \in Slot, LoggedIn(s) PROVE Goal
  <2>1. calls' = [calls EXCEPT ![s] = Load(TRUE)] \/ Return(s)
    BY <1>6 DEF LoggedIn, handleAuthSuccess
  <2>. QED
    BY <1>1, <1>3, <2>1, LoadIsFine
<1>7. ASSUME NEW s \in Slot, ChangeDone(s) PROVE Goal
  <2>1. calls' = [calls EXCEPT ![s] = Load(token)] /\ token \in BOOLEAN
    BY <1>7 DEF ChangeDone, RecordTypes
  <2>. QED
    BY <1>1, <2>1, LoadIsFine
<1>8. ASSUME NEW s \in Slot, AnswerIngest(s) PROVE Goal
  <2>. DEFINE c == calls[s]
              next == [c EXCEPT !.answer = "ok"]
  <2>1. c \in IngestRecord
    BY <1>8, CallFine, CallKinds DEF AnswerIngest
  <2>2. calls' = [calls EXCEPT ![s] = next]
    BY <1>8 DEF AnswerIngest
  <2>. HIDE DEF c
  <2>3. next \in IngestRecord
    BY <2>1 DEF IngestRecord
  <2>. HIDE DEF next
  <2>. QED
    BY <1>1, <2>2, <2>3 DEF FineCall
<1>9. ASSUME Call(Load(TRUE)) PROVE Goal
  BY <1>1, <1>9, LoadIsFine DEF Call
<1>10. ASSUME handleSubmit PROVE Goal
  <2>1. PICK s \in Slot : calls' = [calls EXCEPT ![s] = [op |-> mode]]
    BY <1>10 DEF handleSubmit
  <2>2. [op |-> mode] \in LoginRecord
    BY DEF LoginRecord, RecordTypes
  <2>. QED
    BY <1>1, <2>1, <2>2 DEF FineCall
<1>11. ASSUME handleSend PROVE Goal
  <2>. DEFINE line == [senderId |-> getSenderId, role |-> senderRole]
              call == [op |-> "ingest", answer |-> None, line |-> line]
  <2>1. PICK s \in Slot : calls' = [calls EXCEPT ![s] = call]
    BY <1>11 DEF handleSend
  <2>2. getSenderId \in SenderId /\ senderRole \in Role
    BY DEF getSenderId, SenderId, RecordTypes, Role
  <2>3. line \in Line
    BY <2>2 DEF Line
  <2>. HIDE DEF line
  <2>4. call \in IngestRecord
    BY <2>3 DEF IngestRecord
  <2>. HIDE DEF call
  <2>. QED
    BY <1>1, <2>1, <2>4 DEF FineCall
<1>12. ASSUME NEW op \in {"create", "update", "delete"}, NEW c \in Child, Change(op, c)
       PROVE  Goal
  <2>. DEFINE call == [op |-> op, child |-> c, reload |-> loads, answer |-> None]
  <2>1. PICK s \in Slot : calls' = [calls EXCEPT ![s] = call]
    BY <1>12 DEF Change
  <2>2. call \in ChangeRecord
    BY DEF ChangeRecord, RecordTypes
  <2>. HIDE DEF call
  <2>. QED
    BY <1>1, <2>1, <2>2 DEF FineCall
<1>13. ASSUME NEW entry \in Rows, AcknowledgeRow(entry) PROVE Goal
  <2>1. entry.id \in Ids(alerts)
    BY <1>0, RowsShown DEF FineList, RecordTypes, Ids
  <2>. QED
    BY <1>13, <2>1, AcknowledgeFine DEF AcknowledgeRow
<1>14. ASSUME AcknowledgeAndGoBack PROVE Goal
  <2>1. activeView.id \in Ids(alerts)
    BY <1>0, <1>14, DetailListed, LookupFine DEF AcknowledgeAndGoBack, RecordTypes
  <2>. QED
    BY <1>14, <2>1, AcknowledgeFine DEF AcknowledgeAndGoBack
<1>15. ASSUME handleContinueAnalysis PROVE Goal
  <2>. DEFINE call == [op |-> "analyse", base |-> Viewed, answer |-> None]
  <2>1. PICK s \in Slot : calls' = [calls EXCEPT ![s] = call]
    BY <1>15 DEF handleContinueAnalysis
  <2>2. Fine(I, A, Viewed)
    BY <1>0, <1>15, DetailListed, LookupFine DEF handleContinueAnalysis, RecordTypes, Viewed
  <2>3. call \in AnalyseRecord
    BY <2>2 DEF AnalyseRecord, Fine
  <2>4. FineAnalyse(I, A, call)
    BY <2>2, <2>3 DEF FineAnalyse
  <2>. HIDE DEF call
  <2>. QED
    BY <1>1, <2>1, <2>4 DEF FineCall
<1>. QED
  BY <1>2, <1>3, <1>4, <1>5, <1>6, <1>7, <1>8, <1>9, <1>10, <1>11, <1>12, <1>13,
     <1>14, <1>15 DEF CallMoves

(* What is held, after a step of the page: the backend's alerts stay. *)
LEMMA PageKeepsTruth ==
  ASSUME RecordsTrue, RecordTypes, PageMoves
  PROVE  RecordsTrue'
<1>. DEFINE I == Known
            A == Reviewed
<1>1. FineList(I, A, stored) /\ HeldTrue(I, A)
  BY DEF RecordsTrue
<1>2. stored' = stored /\ Known' = I /\ Reviewed' = A
  BY DEF PageMoves, Known, Reviewed
<1>. HIDE DEF I, A
<1>3. FineList(I, A, alerts')
  BY <1>1, AlertsHold DEF PageMoves
<1>4. FineCalls(I, A, calls')
  BY <1>1, CallsHold DEF PageMoves
<1>5. \A f \in wire' : Fine(I, A, f.alert)
  BY <1>1 DEF PageMoves, HeldTrue
<1>6. \A entry \in opening' : Fine(I, A, entry)
  BY <1>1 DEF PageMoves, OpeningMoves, HeldTrue
<1>. QED
  BY <1>1, <1>2, <1>3, <1>4, <1>5, <1>6 DEF RecordsTrue, HeldTrue

(* Putting an alert in the place of another never takes back what is       *)
(* acknowledged, if the new one is where the old one was.                  *)
LEMMA ReplaceAcked ==
  ASSUME NEW I, NEW A, NEW list, FineList(I, A, list), NEW entry, entry.id \in Ids(list),
         Lookup(list, entry.id).acknowledged => entry.acknowledged
  PROVE  /\ Acked(list) \subseteq Acked(Replace(list, entry))
         /\ entry.acknowledged => entry.id \in Acked(Replace(list, entry))
<1>. DEFINE new == Replace(list, entry)
<1>1. /\ DOMAIN new = DOMAIN list
      /\ \A i \in DOMAIN list : new[i] = IF list[i].id = entry.id THEN entry ELSE list[i]
  BY DEF Replace
<1>. HIDE DEF new
<1>2. \A i \in DOMAIN list : list[i].id = entry.id => list[i] = Lookup(list, entry.id)
  BY LookupFine
<1>3. \A i \in DOMAIN list :
        new[i].id = list[i].id /\ (list[i].acknowledged => new[i].acknowledged)
  BY <1>1, <1>2
<1>4. Acked(list) \subseteq Acked(new)
  BY <1>1, <1>3 DEF Acked
<1>5. PICK i \in DOMAIN list : list[i].id = entry.id
  BY DEF Ids
<1>6. entry.acknowledged => entry.id \in Acked(new)
  BY <1>1, <1>5 DEF Acked
<1>. QED
  BY <1>4, <1>6 DEF new

(* The backend puts an alert in the place of its own: what is true grows. *)
LEMMA StoredReplaced ==
  ASSUME RecordsTrue, NEW entry \in Entry, entry.id \in Ids(stored),
         Belongs(entry.detectedStages, entry.id),
         Lookup(stored, entry.id).acknowledged => entry.acknowledged,
         stored' = Replace(stored, entry), UNCHANGED gone
  PROVE  LET J == Known'
             B == Reviewed'
         IN /\ FineList(J, B, stored') /\ HeldTrue(J, B) /\ Fine(J, B, entry)
            /\ Known \subseteq J /\ Reviewed \subseteq B
<1>. DEFINE I == Known
            A == Reviewed
            B == Reviewed'
<1>1. FineList(I, A, stored) /\ HeldTrue(I, A)
  BY DEF RecordsTrue
<1>2. A \subseteq B /\ (entry.acknowledged => entry.id \in B)
  <2>1. /\ Acked(stored) \subseteq Acked(stored')
        /\ entry.acknowledged => entry.id \in Acked(stored')
    BY <1>1, ReplaceAcked
  <2>. QED
    BY <2>1 DEF Reviewed
<1>. HIDE DEF I, A, B
<1>3. entry.id \in I
  BY DEF I, Known
<1>4. Fine(I, B, entry)
  BY <1>2, <1>3 DEF Fine
<1>5. FineList(I, B, stored)
  BY <1>1, <1>2, FineGrows
<1>6. FineList(I, B, stored') /\ Known' = I
  <2>1. FineList(I, B, stored') /\ Ids(stored') = Ids(stored)
    BY <1>4, <1>5, ReplaceFine
  <2>. QED
    BY <2>1 DEF I, Known
<1>7. HeldTrue(I, B)
  BY <1>1, <1>2, HeldGrows
<1>. QED
  BY <1>2, <1>4, <1>6, <1>7 DEF I, A, B

(* An acknowledgement or an analysis of an alert that is stored no more is *)
(* refused.                                                                *)
LEMMA RefusalTrue ==
  ASSUME RecordsTrue, NEW s \in Slot, calls[s] # None,
         calls[s].op \in {"acknowledge", "analyse"}, UNCHANGED <<stored, gone>>,
         calls' = [calls EXCEPT ![s] = [calls[s] EXCEPT !.answer = Refused]],
         UNCHANGED <<alerts, wire, opening>>
  PROVE  RecordsTrue'
<1>. DEFINE c == calls[s]
            refused == [c EXCEPT !.answer = Refused]
            I == Known
            A == Reviewed
<1>0. FineList(I, A, stored) /\ HeldTrue(I, A) /\ FineCalls(I, A, calls)
  BY DEF RecordsTrue, HeldTrue
<1>. HIDE DEF I, A
<1>1. FineCall(I, A, c)
  BY <1>0, CallFine
<1>2. /\ c.op = "acknowledge" => FineAcknowledge(I, A, c)
      /\ c.op = "analyse" => FineAnalyse(I, A, c)
  BY <1>1, CallKinds
<1>. HIDE DEF c
<1>3. FineCall(I, A, refused)
  <2>1. CASE c.op = "acknowledge"
    <3>1. /\ refused \in AcknowledgeRecord /\ refused.id = c.id /\ refused.kept = c.kept
          /\ refused.answer = Refused
      BY <1>2, <2>1 DEF FineAcknowledge, AcknowledgeRecord
    <3>. QED
      BY <1>2, <2>1, <3>1 DEF FineCall, FineAcknowledge
  <2>2. CASE c.op = "analyse"
    <3>1. refused \in AnalyseRecord /\ refused.base = c.base /\ refused.answer = Refused
      BY <1>2, <2>2 DEF FineAnalyse, AnalyseRecord
    <3>. QED
      BY <1>2, <2>2, <3>1 DEF FineCall, FineAnalyse
  <2>. QED
    BY <2>1, <2>2 DEF c
<1>4. calls' = [calls EXCEPT ![s] = refused]
  BY DEF c
<1>. HIDE DEF refused
<1>5. FineCalls(I, A, calls')
  <2>1. FineCalls(I, A, [calls EXCEPT ![s] = refused])
    BY <1>0, <1>3, PutFine
  <2>. QED
    BY <2>1, <1>4
<1>6. Known' = I /\ Reviewed' = A
  BY DEF I, A, Known, Reviewed
<1>. HIDE DEF c
<1>. QED
  BY <1>0, <1>5, <1>6 DEF RecordsTrue, HeldTrue

LEMMA AnswerAcknowledgeTrue ==
  ASSUME RecordsTrue, NEW s \in Slot, AnswerAcknowledge(s), Listed(stored, calls[s].id)
  PROVE  RecordsTrue'
<1>. DEFINE c == calls[s]
            held == Lookup(stored, c.id)
            done == [held EXCEPT !.acknowledged = TRUE]
            answered == [c EXCEPT !.answer = done]
            J == Known'
            B == Reviewed'
<1>0. FineList(Known, Reviewed, stored) /\ HeldTrue(Known, Reviewed)
  BY DEF RecordsTrue
<1>1. FineAcknowledge(Known, Reviewed, c)
  BY <1>0, CallFine, CallKinds DEF AnswerAcknowledge
<1>2. /\ stored' = Replace(stored, done) /\ calls' = [calls EXCEPT ![s] = answered]
      /\ UNCHANGED gone
  BY DEF AnswerAcknowledge
<1>. HIDE DEF c
<1>3. c.id \in Ids(stored) /\ Fine(Known, Reviewed, held) /\ held.id = c.id
  <2>1. Listed(stored, c.id)
    BY DEF c
  <2>. QED
    BY <1>0, <2>1, LookupFine
<1>. HIDE DEF held
<1>4. /\ done \in Entry /\ done.id = c.id /\ done.acknowledged
      /\ done.detectedStages = held.detectedStages
  BY <1>3 DEF Fine, Entry
<1>. HIDE DEF done
<1>5. Belongs(done.detectedStages, done.id)
  BY <1>3, <1>4 DEF Fine
<1>6. FineList(J, B, stored') /\ HeldTrue(J, B) /\ Fine(J, B, done)
  BY <1>2, <1>3, <1>4, <1>5, StoredReplaced
<1>7. FineAcknowledge(J, B, answered)
  <2>1. answered \in AcknowledgeRecord
    BY <1>1, <1>4 DEF FineAcknowledge, AcknowledgeRecord
  <2>2. answered.id = c.id /\ answered.kept = c.kept /\ answered.answer = done
    BY <1>1 DEF FineAcknowledge, AcknowledgeRecord
  <2>3. c.id \in J
    BY <1>4, <1>6 DEF Fine
  <2>. QED
    BY <1>1, <1>4, <1>6, <2>1, <2>2, <2>3 DEF FineAcknowledge
<1>. HIDE DEF answered, J, B
<1>8. FineCalls(J, B, calls')
  <2>1. FineCalls(J, B, calls)
    BY <1>6 DEF HeldTrue
  <2>2. FineCall(J, B, answered)
    BY <1>7 DEF FineCall
  <2>. QED
    BY <1>2, <2>1, <2>2, PutFine
<1>9. UNCHANGED <<alerts, wire, opening>>
  BY DEF AnswerAcknowledge, shown, socketVars
<1>. QED
  BY <1>6, <1>8, <1>9 DEF RecordsTrue, HeldTrue, J, B

LEMMA AnswerAnalysisTrue ==
  ASSUME RecordsTrue, NEW s \in Slot, AnswerAnalysis(s), Listed(stored, calls[s].base.id)
  PROVE  RecordsTrue'
<1>. DEFINE c == calls[s]
            held == Lookup(stored, c.base.id)
            J == Known'
            B == Reviewed'
<1>0. FineList(Known, Reviewed, stored) /\ HeldTrue(Known, Reviewed)
  BY DEF RecordsTrue
<1>1. FineAnalyse(Known, Reviewed, c)
  BY <1>0, CallFine, CallKinds DEF AnswerAnalysis
<1>2. PICK new \in {<<>>} \cup {<<f>> : f \in {g \in Found : g.alert = held.id}} :
        /\ stored' = Replace(stored, [held EXCEPT !.detectedStages = held.detectedStages \o new])
        /\ calls' = [calls EXCEPT ![s] = [c EXCEPT !.answer = new]]
        /\ UNCHANGED gone
  <2>1. PICK new \in {<<>>} \cup {<<f>> : f \in {g \in Found : /\ g.alert = held.id
                                                         /\ g \notin ToSet(held.detectedStages)}} :
          /\ calls' = [calls EXCEPT ![s].answer = new]
          /\ stored' = Replace(stored, [held EXCEPT !.detectedStages = @ \o new])
    BY DEF AnswerAnalysis
  <2>2. UNCHANGED gone
    BY DEF AnswerAnalysis
  <2>. HIDE DEF held
  <2>3. new \in {<<>>} \cup {<<f>> : f \in {g \in Found : g.alert = held.id}}
    OBVIOUS
  <2>. QED
    BY <2>1, <2>2, <2>3
<1>. DEFINE entry == [held EXCEPT !.detectedStages = held.detectedStages \o new]
            answered == [c EXCEPT !.answer = new]
<1>. HIDE DEF c
<1>3. Fine(Known, Reviewed, held) /\ held.id = c.base.id /\ c.base.id \in Ids(stored)
  <2>1. Listed(stored, c.base.id)
    BY DEF c
  <2>. QED
    BY <1>0, <2>1, LookupFine
<1>. HIDE DEF held
<1>4. Belongs(new, held.id)
  <2>1. new = <<>> \/ \E f \in Found : f.alert = held.id /\ new = <<f>>
    OBVIOUS
  <2>2. CASE new = <<>>
    BY <2>2 DEF Belongs
  <2>3. ASSUME NEW f \in Found, f.alert = held.id, new = <<f>>
        PROVE  Belongs(new, held.id)
    <3>1. <<f>> \in Seq(Found) /\ DOMAIN <<f>> = 1..1 /\ <<f>>[1] = f
      OBVIOUS
    <3>. QED
      BY <2>3, <3>1 DEF Belongs
  <2>. QED
    BY <2>1, <2>2, <2>3
<1>5. Belongs(held.detectedStages \o new, held.id)
  BY <1>3, <1>4 DEF Fine, Belongs
<1>6. /\ entry \in Entry /\ entry.id = held.id
      /\ entry.acknowledged = Lookup(stored, entry.id).acknowledged
      /\ entry.detectedStages = held.detectedStages \o new
  <2>1. /\ entry \in Entry /\ entry.id = held.id
        /\ entry.acknowledged = held.acknowledged
        /\ entry.detectedStages = held.detectedStages \o new
    BY <1>3, <1>5 DEF Fine, Belongs, Entry
  <2>. QED
    BY <1>3, <2>1 DEF held
<1>7. stored' = Replace(stored, entry) /\ UNCHANGED gone
  BY <1>2
<1>. HIDE DEF entry
<1>8. FineList(J, B, stored') /\ HeldTrue(J, B)
  BY <1>3, <1>5, <1>6, <1>7, StoredReplaced
<1>9. FineAnalyse(J, B, answered)
  <2>1. answered \in AnalyseRecord /\ answered.base = c.base /\ answered.answer = new
    BY <1>1, <1>4 DEF FineAnalyse, AnalyseRecord, Belongs
  <2>2. Fine(J, B, c.base)
    <3>1. c = calls[s] /\ c # None
      BY DEF c, AnswerAnalysis
    <3>2. FineAnalyse(J, B, c)
      BY <1>8, <3>1, CallFine, CallKinds DEF c, AnswerAnalysis
    <3>. QED
      BY <3>2 DEF FineAnalyse
  <2>. QED
    BY <1>3, <1>4, <2>1, <2>2 DEF FineAnalyse
<1>. HIDE DEF answered, J, B
<1>10. FineCalls(J, B, calls')
  <2>1. FineCalls(J, B, calls)
    BY <1>8 DEF HeldTrue
  <2>2. FineCall(J, B, answered)
    BY <1>9 DEF FineCall
  <2>3. calls' = [calls EXCEPT ![s] = answered]
    BY <1>2 DEF answered
  <2>. QED
    BY <2>1, <2>2, <2>3, PutFine
<1>11. UNCHANGED <<alerts, wire, opening>>
  BY DEF AnswerAnalysis, shown, socketVars
<1>. QED
  BY <1>8, <1>10, <1>11 DEF RecordsTrue, HeldTrue, J, B

LEMMA RaiseAlertTrue ==
  ASSUME RecordsTrue, NEW id \in AlertId, NEW severity \in Severity, RaiseAlert(id, severity)
  PROVE  RecordsTrue'
<1>. DEFINE held == Lookup(stored, id)
            again == [held EXCEPT !.severity = severity]
            first == [id |-> id, acknowledged |-> FALSE, severity |-> severity,
                      detectedStages |-> <<>>]
            entry == IF Listed(stored, id) THEN again ELSE first
            J == Known'
            B == Reviewed'
<1>0. FineList(Known, Reviewed, stored) /\ HeldTrue(Known, Reviewed)
  BY DEF RecordsTrue
<1>1. /\ stored' = IF Listed(stored, id) THEN Replace(stored, entry) ELSE <<entry>> \o stored
      /\ UNCHANGED gone
      /\ \A f \in wire' : f \in wire \/ f.alert = entry
  <2>1. stored' = IF Listed(stored, id) THEN Replace(stored, entry) ELSE <<entry>> \o stored
    BY DEF RaiseAlert
  <2>2. wire' = wire \cup {[to |-> e, alert |-> entry] :
                           e \in {d \in Effect : phase[d] = "authenticated"}}
    BY DEF RaiseAlert
  <2>3. UNCHANGED gone
    BY DEF RaiseAlert
  <2>. HIDE DEF entry
  <2>. QED
    BY <2>1, <2>2, <2>3
<1>2. UNCHANGED <<alerts, opening, calls>>
  BY DEF RaiseAlert, shown
<1>3. Listed(stored, id) <=> id \in Ids(stored)
  BY <1>0, LookupFine
<1>4. FineList(J, B, stored') /\ HeldTrue(J, B) /\ Fine(J, B, entry)
  <2>1. CASE Listed(stored, id)
    <3>1. Fine(Known, Reviewed, held) /\ held.id = id /\ id \in Ids(stored)
      BY <1>0, <1>3, <2>1, LookupFine
    <3>. HIDE DEF held
    <3>2. /\ again \in Entry /\ again.id = id /\ again.acknowledged = held.acknowledged
          /\ again.detectedStages = held.detectedStages
      BY <3>1 DEF Fine, Entry
    <3>3. entry = again /\ stored' = Replace(stored, again)
      BY <1>1, <2>1
    <3>. HIDE DEF again, entry
    <3>4. Belongs(again.detectedStages, again.id) /\ again.id \in Ids(stored)
      BY <3>1, <3>2 DEF Fine
    <3>5. Lookup(stored, again.id).acknowledged => again.acknowledged
      BY <3>2 DEF held
    <3>. QED
      BY <1>1, <3>2, <3>3, <3>4, <3>5, StoredReplaced
  <2>2. CASE ~Listed(stored, id)
    <3>. DEFINE I == Known \cup {id}
                A == Reviewed
    <3>1. FineList(I, A, stored) /\ Known \subseteq I
      BY <1>0, FineGrows
    <3>2. first \in Entry /\ first.id = id /\ ~first.acknowledged /\ first.detectedStages = <<>>
      BY DEF Entry
    <3>3. entry = first /\ stored' = <<first>> \o stored
      BY <1>1, <2>2
    <3>. HIDE DEF entry, first
    <3>4. Fine(I, A, first)
      BY <3>2 DEF Fine, Belongs
    <3>5. FineList(I, A, stored') /\ J = I /\ A \subseteq B
      <4>1. /\ FineList(I, A, stored') /\ Ids(stored') = Ids(stored) \cup {id}
            /\ Acked(stored) \subseteq Acked(stored')
        BY <1>3, <2>2, <3>1, <3>2, <3>3, <3>4, ConsFine
      <4>. QED
        BY <1>1, <4>1 DEF Known, Reviewed
    <3>. HIDE DEF I, A, J, B
    <3>6. FineList(J, B, stored') /\ Fine(J, B, entry)
      BY <3>3, <3>4, <3>5, FineGrows
    <3>7. HeldTrue(J, B)
      BY <1>0, <3>1, <3>5, HeldGrows DEF A
    <3>. QED
      BY <3>6, <3>7
  <2>. QED
    BY <2>1, <2>2
<1>. HIDE DEF J, B, entry
<1>5. \A f \in wire' : Fine(J, B, f.alert)
  BY <1>1, <1>4 DEF HeldTrue
<1>. QED
  BY <1>2, <1>4, <1>5 DEF RecordsTrue, HeldTrue, J, B

(* The alerts that are left when some are deleted. *)
LEMMA PartFine ==
  ASSUME NEW I, NEW A, NEW list, FineList(I, A, list), NEW kept \in SUBSET DOMAIN list
  PROVE  /\ FineList(I, A, Sublist(list, kept))
         /\ \A i \in kept : \E n \in DOMAIN Sublist(list, kept) : Sublist(list, kept)[n] = list[i]
<1>. DEFINE new == Sublist(list, kept)
<1>1. list \in Seq(Entry)
  BY DEF FineList
<1>2. /\ new \in Seq(Entry)
      /\ \A n \in DOMAIN new : \E i \in kept : new[n] = list[i]
  BY <1>1, SublistItems
<1>3. \A n \in DOMAIN new : Fine(I, A, new[n])
  BY <1>2 DEF FineList
<1>4. ASSUME NEW m \in DOMAIN new, NEW n \in DOMAIN new, new[m].id = new[n].id
      PROVE  m = n
  <2>1. IsFiniteSet(kept) /\ kept \in SUBSET Nat
    BY <1>1, FiniteDomain, FS_Subset
  <2>2. /\ Cardinality(kept) \in Nat
        /\ \A l \in 1..Cardinality(kept) : Nth(kept, l) \in kept
        /\ \A k, l \in 1..Cardinality(kept) : k < l => Nth(kept, k) < Nth(kept, l)
    BY <2>1, NthKept
  <2>3. DOMAIN new = 1..Cardinality(kept) /\ \A l \in DOMAIN new : new[l] = list[Nth(kept, l)]
    BY DEF Sublist
  <2>4. Nth(kept, m) = Nth(kept, n)
    BY <1>4, <2>2, <2>3 DEF FineList
  <2>5. Nth(kept, m) \in Nat /\ m \in Nat /\ n \in Nat
    BY <2>1, <2>2, <2>3
  <2>. QED
    BY <2>2, <2>3, <2>4, <2>5
<1>. QED
  BY <1>1, <1>2, <1>3, <1>4, SublistKeeps DEF FineList

(* A child's alerts are deleted with it: what was known of them stays so.  *)
LEMMA AnswerChangeTrue ==
  ASSUME RecordsTrue, NEW s \in Slot, AnswerChange(s)
  PROVE  RecordsTrue'
<1>. DEFINE c == calls[s]
            J == Known'
            B == Reviewed'
<1>1. FineList(Known, Reviewed, stored) /\ HeldTrue(Known, Reviewed)
  BY DEF RecordsTrue
<1>2. PICK deleted \in SUBSET DOMAIN stored :
        /\ stored' = Sublist(stored, DOMAIN stored \ deleted)
        /\ gone' = gone \cup {stored[i].id : i \in deleted}
  <2>. DEFINE accepted == (c.op = "create") # (c.child \in family)
              deleted == {i \in DOMAIN stored :
                            accepted /\ c.op = "delete" /\ ChildOf[stored[i].id] = c.child}
  <2>1. /\ stored' = Sublist(stored, DOMAIN stored \ deleted)
        /\ gone' = gone \cup {stored[i].id : i \in deleted}
    BY DEF AnswerChange
  <2>2. deleted \in SUBSET DOMAIN stored
    OBVIOUS
  <2>. HIDE DEF deleted
  <2>. QED
    BY <2>1, <2>2
<1>3. /\ FineList(Known, Reviewed, stored')
      /\ \A i \in DOMAIN stored \ deleted : \E n \in DOMAIN stored' : stored'[n] = stored[i]
  BY <1>1, <1>2, PartFine
<1>4. Known \subseteq J
  BY <1>2, <1>3 DEF Known, Ids
<1>5. Reviewed \subseteq B
  <2>1. ASSUME NEW i \in DOMAIN stored, stored[i].acknowledged
        PROVE  stored[i].id \in B
    <3>1. CASE i \in deleted
      BY <1>2, <3>1 DEF Reviewed
    <3>2. CASE i \notin deleted
      <4>1. PICK n \in DOMAIN stored' : stored'[n] = stored[i]
        BY <1>3, <3>2
      <4>2. stored[i].id \in Acked(stored')
        BY <2>1, <4>1 DEF Acked
      <4>. QED
        BY <4>2 DEF Reviewed
    <3>. QED
      BY <3>1, <3>2
  <2>2. gone \subseteq B
    BY <1>2 DEF Reviewed
  <2>. QED
    BY <2>1, <2>2 DEF Reviewed, Acked
<1>6. FineList(J, B, stored') /\ HeldTrue(J, B)
  BY <1>1, <1>3, <1>4, <1>5, FineGrows, HeldGrows
<1>7. c \in ChangeRecord
  BY <1>1, CallFine, CallKinds DEF AnswerChange, IsChange
<1>8. PICK answer \in {"ok", Refused} :
        calls' = [calls EXCEPT ![s] = [c EXCEPT !.answer = answer]]
  BY DEF AnswerChange
<1>9. UNCHANGED <<alerts, wire, opening>>
  BY DEF AnswerChange, shown, socketVars
<1>. HIDE DEF c, J, B
<1>10. [c EXCEPT !.answer = answer] \in ChangeRecord
  BY <1>7 DEF ChangeRecord
<1>11. FineCalls(J, B, calls')
  BY <1>6, <1>8, <1>10, PutFine DEF HeldTrue, FineCall
<1>. QED
  BY <1>6, <1>9, <1>11 DEF RecordsTrue, HeldTrue, J, B

LEMMA RecordsStep ==
  ASSUME Next, RecordTypes, RecordsTrue
  PROVE  RecordsTrue'
<1>1. ASSUME NEW s \in Slot, AnswerAcknowledge(s) PROVE RecordsTrue'
  <2>1. CASE Listed(stored, calls[s].id)
    BY <1>1, <2>1, AnswerAcknowledgeTrue
  <2>2. CASE ~Listed(stored, calls[s].id)
    BY <1>1, <2>2, RefusalTrue DEF AnswerAcknowledge, shown, socketVars
  <2>. QED
    BY <2>1, <2>2
<1>2. ASSUME NEW s \in Slot, AnswerAnalysis(s) PROVE RecordsTrue'
  <2>1. CASE Listed(stored, calls[s].base.id)
    BY <1>2, <2>1, AnswerAnalysisTrue
  <2>2. CASE ~Listed(stored, calls[s].base.id)
    BY <1>2, <2>2, RefusalTrue DEF AnswerAnalysis, shown, socketVars
  <2>. QED
    BY <2>1, <2>2
<1>. QED
  BY <1>1, <1>2, RecordsMove, PageKeepsTruth, AnswerChangeTrue, RaiseAlertTrue DEF StoreMoves

-----------------------------------------------------------------------------
(* The forms and the calls they wait for *)

LoginOps == {"register", "login"}
ChangeOps == {"create", "update", "delete", "load"}

Waits(table, slots, busy, ops) ==
  /\ \A s, t \in slots : s = t
  /\ busy = (slots # {})
  /\ \A s \in slots : table[s] # None /\ table[s].op \in ops

(* A form waits for one call at most, which is in flight and its own; the  *)
(* form of children also for the load that follows its change.             *)
FormsWait ==
  /\ Waits(calls, submitted, authorizing, LoginOps)
  /\ Waits(calls, changing, saving, ChangeOps)
  /\ Waits(calls, posting, sending, {"ingest"})
  /\ Waits(calls, mine, panel.isAnalyzing, {"analyse"})

(* A step writes one slot of the calls at most, which was free or held a   *)
(* call of one of these kinds.                                             *)
Only(s) == \A t \in Slot : t # s => calls'[t] = calls[t]
Touch(ops) ==
  \/ UNCHANGED calls
  \/ \E s \in Slot : Only(s) /\ (calls[s] = None \/ calls[s].op \in ops)

(* Calls of these kinds go on as they are. *)
Beside(ops) ==
  \A t \in Slot : calls[t] # None /\ calls[t].op \in ops => calls'[t] = calls[t]

LEMMA TouchBeside ==
  ASSUME NEW ops, Touch(ops)
  PROVE  \A others : others \cap ops = {} => Beside(others)
BY DEF Touch, Beside, Only

CallTypes == calls \in [Slot -> CallRecord \cup {None}]

LEMMA AppTouch ==
  ASSUME AppStep, CallTypes
  PROVE  Touch({"load", "acknowledge"})
<1>. USE DEF Touch
<1>0. ASSUME NEW s \in Slot, NEW c, calls' = [calls EXCEPT ![s] = c]
      PROVE  Only(s)
  BY <1>0 DEF CallTypes, Only
<1>1. ASSUME NEW s \in Slot,
             AnswerLoad(s) \/ Loaded(s) \/ LoadFailed(s)
      PROVE  Only(s) /\ calls[s].op = "load"
  BY <1>1 DEF CallTypes, Only, AnswerLoad, Loaded, LoadFailed, Return
<1>2. ASSUME NEW s \in Slot,
             AnswerAcknowledge(s) \/ Acknowledged(s) \/ AcknowledgeFailed(s)
      PROVE  Only(s) /\ calls[s].op = "acknowledge"
  BY <1>2
  DEF CallTypes, Only, AnswerAcknowledge, Acknowledged, AcknowledgeFailed, Return
<1>3. CASE RetryLoad
  BY <1>0, <1>3 DEF RetryLoad, loadDashboardData, Call, FirstFree
<1>4. CASE UNCHANGED calls
  BY <1>4
<1>. QED
  BY <1>1, <1>2, <1>3, <1>4
  DEF AppStep, onopen, AuthOk, onclose, Reconnect, ReceiveFrame, ShowAlert, CheckProfile,
      ProfileKnown, ProfileGone, handleLogout, LeaveMissing, Navigate, ClickToast,
      ClickNotification, DismissToast, PressClose, RaiseAlert

LEMMA AuthTouch ==
  ASSUME AuthStep \/ KeysExchanged \/ \E s \in Slot : LoggedIn(s), CallTypes
  PROVE  Touch(LoginOps)
<1>. USE DEF Touch
<1>1. ASSUME NEW s \in Slot, Registered(s) \/ LoginFailed(s) \/ LoggedIn(s)
      PROVE  Only(s) /\ calls[s].op \in LoginOps
  BY <1>1
  DEF CallTypes, Only, Registered, LoginFailed, LoggedIn, handleAuthSuccess, Return, LoginOps
<1>2. ASSUME handleSubmit PROVE Touch(LoginOps)
  BY <1>2 DEF CallTypes, Only, handleSubmit, FirstFree
<1>. QED
  BY <1>1, <1>2
  DEF AuthStep, KeysExchanged, SessionPaired, Connect, Associated, ConnectFailed, SwitchMode,
      appVars

LEMMA ListTouch ==
  ASSUME ListStep, CallTypes
  PROVE  Touch({})
<1>. USE DEF Touch
<1>1. ASSUME NEW entry \in Rows, AcknowledgeRow(entry) PROVE Touch({})
  BY <1>1 DEF CallTypes, Only, AcknowledgeRow, handleAcknowledgeAlert, Call, FirstFree
<1>. QED
  BY <1>1 DEF ListStep, FilterChosen, ChooseFilter, toggleSort, TurnPage

LEMMA DetailTouch ==
  ASSUME DetailStep, CallTypes
  PROVE  Touch({"analyse"})
<1>. USE DEF Touch
<1>1. ASSUME NEW s \in Slot, AnswerAnalysis(s) \/ Analysed(s) \/ AnalysisFailed(s)
      PROVE  Only(s) /\ calls[s].op = "analyse"
  BY <1>1
  DEF CallTypes, Only, AnswerAnalysis, Analysed, AnalysisFailed, EndOfAnalysis, Return
<1>2. ASSUME AcknowledgeAndGoBack PROVE Touch({"analyse"})
  BY <1>2 DEF CallTypes, Only, AcknowledgeAndGoBack, handleAcknowledgeAlert, Call, FirstFree
<1>3. ASSUME handleContinueAnalysis PROVE Touch({"analyse"})
  BY <1>3 DEF CallTypes, Only, handleContinueAnalysis, FirstFree
<1>. QED
  BY <1>1, <1>2, <1>3 DEF DetailStep, SelectTab, ToggleStage, ShowProgress, appVars

LEMMA ChildrenTouch ==
  ASSUME ChildrenStep \/ \E s \in Slot : ChangeDone(s), CallTypes
  PROVE  Touch({"create", "update", "delete"})
<1>. USE DEF Touch
<1>1. ASSUME NEW s \in Slot,
             AnswerChange(s) \/ ChangeFailed(s) \/ ChangeDoneQuietly(s) \/ ChangeDone(s)
      PROVE  Only(s) /\ calls[s].op \in {"create", "update", "delete"}
  BY <1>1
  DEF CallTypes, Only, AnswerChange, ChangeFailed, ChangeDoneQuietly, ChangeDone, IsChange,
      Return
<1>2. ASSUME NEW op, NEW c, Change(op, c) PROVE Touch({"create", "update", "delete"})
  BY <1>2 DEF CallTypes, Only, Change, FirstFree
<1>. QED
  BY <1>1, <1>2
  DEF ChildrenStep, EnterChild, startEdit, askDelete, cancelEdit, keepChild, Edited,
      handleRegister, handleUpdate, handleDelete

LEMMA RoomTouch ==
  ASSUME RoomStep, CallTypes
  PROVE  Touch({"ingest"})
<1>. USE DEF Touch
<1>1. ASSUME NEW s \in Slot, AnswerIngest(s) \/ Sent(s) \/ SendFailed(s)
      PROVE  Only(s) /\ calls[s].op = "ingest"
  BY <1>1 DEF CallTypes, Only, AnswerIngest, Sent, SendFailed, Return
<1>2. ASSUME handleSend PROVE Touch({"ingest"})
  BY <1>2 DEF CallTypes, Only, handleSend, FirstFree
<1>. QED
  BY <1>1, <1>2 DEF RoomStep, SelectChild, SelectRole, EnterMessage, ClearLogs

LEMMA OtherTouch ==
  ASSUME \/ OpenRecent \/ OpenCard \/ ViewAllAlerts \/ SelectRow \/ GoBack \/ handleNavigate
         \/ SettingsStep \/ ToggleMenu
  PROVE  UNCHANGED calls
BY DEF OpenRecent, OpenCard, ViewAllAlerts, SelectRow, GoBack, handleNavigate, Navigate,
       ToggleMenu, SettingsStep, ChooseTheme, ChooseInterval, ToggleSound, handleVolumeChange,
       requestDesktopNotificationPermission, PermissionAnswered, Changed, ChangedQuietly

(* What a step does to each form: it is one of its own steps, or the form  *)
(* is left alone or mounted anew and its calls go on.                      *)
LEMMA FormMoves ==
  ASSUME Next, CallTypes
  PROVE  /\ \/ AuthStep \/ KeysExchanged \/ \E s \in Slot : LoggedIn(s)
            \/ (FollowAuth \/ UNCHANGED authVars) /\ Beside(LoginOps)
         /\ \/ DetailStep
            \/ (FollowDetail \/ UNCHANGED detailVars) /\ Beside({"analyse"})
         /\ \/ RoomStep
            \/ (FollowRoom \/ UNCHANGED roomVars) /\ UNCHANGED ingested /\ Beside({"ingest"})
         /\ \/ ChildrenStep \/ \E s \in Slot : ChangeDone(s)
            \/ FollowChildren /\ AppStep
            \/ (FollowChildren \/ UNCHANGED childrenVars) /\ Beside(ChangeOps)
<1>. DEFINE C3 == {"create", "update", "delete"}
            L2 == {"load", "acknowledge"}
<1>0. /\ \A others : others \cap {} = {}
      /\ LoginOps \cap L2 = {} /\ {"analyse"} \cap L2 = {} /\ {"ingest"} \cap L2 = {}
      /\ {"analyse"} \cap LoginOps = {} /\ {"ingest"} \cap LoginOps = {}
      /\ ChangeOps \cap LoginOps = {} /\ LoginOps \cap {"analyse"} = {}
      /\ {"ingest"} \cap {"analyse"} = {} /\ ChangeOps \cap {"analyse"} = {}
      /\ LoginOps \cap C3 = {} /\ {"analyse"} \cap C3 = {} /\ {"ingest"} \cap C3 = {}
      /\ LoginOps \cap {"ingest"} = {} /\ {"analyse"} \cap {"ingest"} = {}
      /\ ChangeOps \cap {"ingest"} = {}
  BY DEF LoginOps, ChangeOps
<1>. DEFINE Kept == Beside(LoginOps) /\ Beside({"analyse"}) /\ Beside({"ingest"})
                      /\ Beside(ChangeOps)
<1>1. ASSUME UNCHANGED calls PROVE Kept
  BY <1>1 DEF Beside
<1>2. ASSUME AppStep
      PROVE  Beside(LoginOps) /\ Beside({"analyse"}) /\ Beside({"ingest"})
  BY <1>0, <1>2, AppTouch, TouchBeside
<1>3. ASSUME AuthStep \/ KeysExchanged \/ \E s \in Slot : LoggedIn(s)
      PROVE  Beside({"analyse"}) /\ Beside({"ingest"}) /\ Beside(ChangeOps)
  BY <1>0, <1>3, AuthTouch, TouchBeside
<1>4. ASSUME ListStep PROVE Kept
  BY <1>0, <1>4, ListTouch, TouchBeside
<1>5. ASSUME DetailStep
      PROVE  Beside(LoginOps) /\ Beside({"ingest"}) /\ Beside(ChangeOps)
  BY <1>0, <1>5, DetailTouch, TouchBeside
<1>6. ASSUME ChildrenStep \/ \E s \in Slot : ChangeDone(s)
      PROVE  Beside(LoginOps) /\ Beside({"analyse"}) /\ Beside({"ingest"})
  BY <1>0, <1>6, ChildrenTouch, TouchBeside
<1>7. ASSUME RoomStep
      PROVE  Beside(LoginOps) /\ Beside({"analyse"}) /\ Beside(ChangeOps)
  BY <1>0, <1>7, RoomTouch, TouchBeside
<1>. HIDE DEF Kept
<1>8. ASSUME \/ OpenRecent \/ OpenCard \/ ViewAllAlerts \/ SelectRow \/ GoBack
             \/ handleNavigate \/ SettingsStep \/ ToggleMenu
      PROVE  Kept
  BY <1>1, <1>8, OtherTouch
<1>. USE DEF Kept
<1>9. ASSUME Turn, Follow, UNCHANGED ingested
      PROVE  /\ FollowAuth /\ FollowDetail /\ FollowRoom /\ FollowChildren
             /\ UNCHANGED ingested
             /\ Beside(LoginOps) /\ Beside({"analyse"}) /\ Beside({"ingest"})
             /\ AppStep \/ Beside(ChangeOps)
  BY <1>2, <1>8, <1>9 DEF Turn, Follow, FollowPages
<1>. QED
  BY <1>3, <1>4, <1>5, <1>6, <1>7, <1>8, <1>9 DEF Next, FollowPages

-----------------------------------------------------------------------------
LEMMA WaitsKept ==
  ASSUME NEW ops, NEW slots \in SUBSET Slot, NEW busy, Waits(calls, slots, busy, ops),
         Beside(ops)
  PROVE  Waits(calls', slots, busy, ops)
BY DEF Waits, Beside

LEMMA WaitsNone ==
  \A table, ops : Waits(table, {}, FALSE, ops)
BY DEF Waits

(* A call made for a form, by its button, which is disabled while one is   *)
(* in flight; and one that ends.                                           *)
LEMMA WaitsForOne ==
  ASSUME NEW ops, NEW s \in Slot, NEW slots, ~(slots # {}), NEW call \in CallRecord,
         call.op \in ops, CallTypes, calls' = [calls EXCEPT ![s] = call]
  PROVE  Waits(calls', slots \cup {s}, TRUE, ops)
<1>1. calls'[s] = call /\ call # None
  BY PagesAssumption DEF CallTypes
<1>. QED
  BY <1>1 DEF Waits

LEMMA WaitEnds ==
  ASSUME NEW ops, NEW s \in Slot, NEW slots \in SUBSET Slot, NEW busy \in BOOLEAN,
         Waits(calls, slots, busy, ops), Only(s),
         NEW left, left = slots \ {s}, NEW next, s \in slots => next = FALSE,
         s \notin slots => next = busy
  PROVE  Waits(calls', left, next, ops)
BY DEF Waits, Only

LEMMA WaitGoesOn ==
  ASSUME NEW ops, NEW s \in Slot, NEW slots \in SUBSET Slot, NEW busy,
         Waits(calls, slots, busy, ops), Only(s),
         s \in slots => calls'[s] # None /\ calls'[s].op \in ops
  PROVE  Waits(calls', slots, busy, ops)
BY DEF Waits, Only

(* The login form. *)
LEMMA AuthWaits ==
  ASSUME Next, CallTypes, CallTypes', AuthTypeOK, Waits(calls, submitted, authorizing, LoginOps)
  PROVE  Waits(calls, submitted, authorizing, LoginOps)'
<1>. DEFINE Goal == Waits(calls', submitted', authorizing', LoginOps)
<1>0. submitted \in SUBSET Slot /\ authorizing \in BOOLEAN
  BY DEF AuthTypeOK
<1>1. ASSUME MountAuth PROVE Goal
  BY <1>1, WaitsNone DEF MountAuth
<1>2. ASSUME UNCHANGED authVars, Beside(LoginOps) PROVE Goal
  BY <1>0, <1>2, WaitsKept DEF authVars
<1>3. ASSUME UNCHANGED <<submitted, authorizing, calls>> PROVE Goal
  BY <1>3
<1>4. ASSUME handleSubmit PROVE Goal
  <2>1. PICK s \in Slot :
          calls' = [calls EXCEPT ![s] = [op |-> mode]] /\ submitted' = submitted \cup {s}
    BY <1>4 DEF handleSubmit
  <2>2. authorizing' = TRUE /\ ~(submitted # {})
    BY <1>0, <1>4 DEF handleSubmit, Waits
  <2>. DEFINE call == [op |-> mode]
  <2>3. call \in CallRecord /\ call.op \in LoginOps
    BY DEF AuthTypeOK, CallRecord, LoginRecord, LoginOps
  <2>. HIDE DEF call
  <2>4. calls' = [calls EXCEPT ![s] = call]
    BY <2>1 DEF call
  <2>. QED
    BY <2>1, <2>2, <2>3, <2>4, WaitsForOne
<1>5. ASSUME NEW s \in Slot, Registered(s) PROVE Goal
  <2>1. Only(s) /\ UNCHANGED <<submitted, authorizing>>
    BY <1>5 DEF Registered, authVars, CallTypes, Only
  <2>2. calls'[s] # None /\ calls'[s].op \in LoginOps
    <3>1. calls[s] \in CallRecord /\ calls[s].op = "register"
      BY <1>5 DEF Registered, CallTypes
    <3>2. calls[s] \in LoginRecord
      BY <3>1 DEF CallRecord, LoadRecord, AcknowledgeRecord, AnalyseRecord, ChangeRecord,
                  IngestRecord
    <3>. DEFINE next == [calls[s] EXCEPT !.op = "login"]
    <3>3. next \in LoginRecord /\ next.op = "login"
      BY <3>2 DEF LoginRecord
    <3>4. calls'[s] = next
      BY <1>5 DEF Registered, CallTypes
    <3>. HIDE DEF next
    <3>. QED
      BY <3>3, <3>4, PagesAssumption DEF CallRecord, LoginOps
  <2>. QED
    BY <1>0, <2>1, <2>2, WaitGoesOn
<1>6. ASSUME NEW s \in Slot, LoginFailed(s) PROVE Goal
  <2>1. /\ Only(s) /\ submitted' = submitted \ {s}
        /\ s \in submitted => authorizing' = FALSE
        /\ s \notin submitted => authorizing' = authorizing
    BY <1>6 DEF LoginFailed, CallTypes, Only, Return
  <2>. QED
    BY <1>0, <2>1, WaitEnds
<1>7. CASE AuthStep \/ KeysExchanged \/ \E s \in Slot : LoggedIn(s)
  BY <1>1, <1>3, <1>4, <1>5, <1>6, <1>7
  DEF AuthStep, KeysExchanged, LoggedIn, Connect, Associated, ConnectFailed, SwitchMode,
      appVars
<1>8. CASE (FollowAuth \/ UNCHANGED authVars) /\ Beside(LoginOps)
  <2>1. FollowAuth => MountAuth \/ UNCHANGED <<mode, authorizing, submitted>>
    BY DEF FollowAuth
  <2>. QED
    BY <1>0, <1>1, <1>2, <1>8, <2>1, WaitsKept
<1>. QED
  BY <1>7, <1>8, FormMoves

(* The panel of an alert's page. *)
LEMMA DetailWaits ==
  ASSUME Next, CallTypes, CallTypes', DetailTypeOK, RecordTypes,
         HeldTrue(Known, Reviewed),
         Waits(calls, mine, panel.isAnalyzing, {"analyse"})
  PROVE  Waits(calls, mine, panel.isAnalyzing, {"analyse"})'
<1>. DEFINE Goal == Waits(calls', mine', panel'.isAnalyzing, {"analyse"})
            busy == panel.isAnalyzing
<1>0. mine \in SUBSET Slot /\ busy \in BOOLEAN
  BY DEF DetailTypeOK, Panel
<1>1. ASSUME MountDetail PROVE Goal
  BY <1>1, WaitsNone DEF MountDetail, FreshPanel
<1>2. ASSUME UNCHANGED mine, panel'.isAnalyzing = busy, Beside({"analyse"}) PROVE Goal
  BY <1>0, <1>2, WaitsKept
<1>3. ASSUME UNCHANGED calls PROVE Beside({"analyse"})
  BY <1>3 DEF Beside
<1>4. ASSUME NEW tab, SelectTab(tab) PROVE Goal
  BY <1>2, <1>3, <1>4 DEF SelectTab
<1>5. ASSUME NEW stage, ToggleStage(stage) PROVE Goal
  <2>1. UNCHANGED <<mine, calls>> /\ panel'.isAnalyzing = busy
    BY <1>5 DEF ToggleStage, DetailTypeOK, Panel
  <2>. QED
    BY <1>2, <1>3, <2>1
<1>6. ASSUME NEW text, ShowProgress(text) PROVE Goal
  <2>1. UNCHANGED <<mine, calls>> /\ panel'.isAnalyzing = busy
    BY <1>6 DEF ShowProgress, appVars, DetailTypeOK, Panel
  <2>. QED
    BY <1>2, <1>3, <2>1
<1>7. ASSUME AcknowledgeAndGoBack PROVE Goal
  <2>1. UNCHANGED <<mine, panel>> /\ Touch({})
    BY <1>7 DEF AcknowledgeAndGoBack, detailVars, handleAcknowledgeAlert, Call, FirstFree,
                Touch, Only, CallTypes
  <2>2. Beside({"analyse"})
    BY <2>1, TouchBeside
  <2>. QED
    BY <1>2, <2>1, <2>2
<1>8. ASSUME handleContinueAnalysis PROVE Goal
  <2>. DEFINE call == [op |-> "analyse", base |-> Viewed, answer |-> None]
  <2>1. PICK s \in Slot : calls' = [calls EXCEPT ![s] = call] /\ mine' = mine \cup {s}
    BY <1>8 DEF handleContinueAnalysis
  <2>2. panel'.isAnalyzing = TRUE /\ ~(mine # {})
    BY <1>0, <1>8 DEF handleContinueAnalysis, Waits, DetailTypeOK, Panel
  <2>3. call.op \in {"analyse"}
    OBVIOUS
  <2>. HIDE DEF call
  <2>4. calls'[s] = call /\ call # None
    <3>1. FineList(Known, Reviewed, alerts)
      BY DEF HeldTrue
    <3>2. Viewed \in Entry
      BY <1>8, <3>1, DetailListed, LookupFine
      DEF handleContinueAnalysis, RecordTypes, Viewed, Fine
    <3>3. call \in AnalyseRecord
      BY <3>2 DEF AnalyseRecord, call
    <3>. QED
      BY <2>1, <3>3, PagesAssumption DEF CallRecord, CallTypes
  <2>. QED
    BY <2>1, <2>2, <2>3, <2>4 DEF Waits
<1>9. ASSUME NEW s \in Slot, AnswerAnalysis(s) PROVE Goal
  <2>1. Only(s) /\ UNCHANGED <<mine, panel>>
    BY <1>9 DEF AnswerAnalysis, detailVars, CallTypes, Only
  <2>2. FineAnalyse(Known, Reviewed, calls[s])
    BY <1>9, CallFine, CallKinds DEF AnswerAnalysis
  <2>3. PICK new \in {Refused, <<>>} \cup {<<f>> : f \in Found} :
          calls' = [calls EXCEPT ![s] = [calls[s] EXCEPT !.answer = new]]
    <3>. DEFINE entry == Lookup(stored, calls[s].base.id)
    <3>1. PICK new \in {Refused, <<>>} \cup
                 {<<f>> : f \in {g \in Found : /\ g.alert = entry.id
                                              /\ g \notin ToSet(entry.detectedStages)}} :
            calls' = [calls EXCEPT ![s].answer = new]
      BY <1>9 DEF AnswerAnalysis
    <3>. HIDE DEF entry
    <3>2. new \in {Refused, <<>>} \cup {<<f>> : f \in Found}
      OBVIOUS
    <3>. QED
      BY <3>1, <3>2
  <2>. DEFINE next == [calls[s] EXCEPT !.answer = new]
  <2>4. next \in AnalyseRecord /\ next.op = "analyse"
    <3>1. <<>> \in Seq(Found) /\ \A f \in Found : <<f>> \in Seq(Found)
      OBVIOUS
    <3>2. new \in Seq(Found) \cup {Refused}
      BY <3>1
    <3>. QED
      BY <2>2, <3>2 DEF FineAnalyse, AnalyseRecord
  <2>5. calls'[s] = next
    BY <2>3 DEF CallTypes
  <2>. HIDE DEF next
  <2>6. calls'[s] # None /\ calls'[s].op \in {"analyse"}
    BY <2>4, <2>5, PagesAssumption DEF CallRecord
  <2>. QED
    BY <1>0, <2>1, <2>6, WaitGoesOn
<1>10. ASSUME NEW s \in Slot, Analysed(s) \/ AnalysisFailed(s) PROVE Goal
  <2>1. Only(s) /\ mine' = mine \ {s}
    BY <1>10 DEF Analysed, AnalysisFailed, EndOfAnalysis, CallTypes, Only, Return
  <2>2. /\ s \in mine => panel'.isAnalyzing = FALSE
        /\ s \notin mine => panel'.isAnalyzing = panel.isAnalyzing
    BY <1>10 DEF Analysed, AnalysisFailed, EndOfAnalysis, DetailTypeOK, Panel
  <2>. QED
    BY <1>0, <2>1, <2>2, WaitEnds
<1>11. CASE DetailStep
  BY <1>4, <1>5, <1>6, <1>7, <1>8, <1>9, <1>10, <1>11 DEF DetailStep
<1>12. CASE (FollowDetail \/ UNCHANGED detailVars) /\ Beside({"analyse"})
  BY <1>1, <1>2, <1>12 DEF FollowDetail, detailVars
<1>. QED
  BY <1>11, <1>12, FormMoves

(* The form of child accounts.  Its call gives way to the load that shows  *)
(* its result, and a load ends while the page follows the root component.  *)
LEMMA ChildrenWaits ==
  ASSUME Next, CallTypes, CallTypes', ChildrenTypeOK, RecordTypes,
         Waits(calls, changing, saving, ChangeOps)
  PROVE  Waits(calls, changing, saving, ChangeOps)'
<1>. DEFINE Goal == Waits(calls', changing', saving', ChangeOps)
<1>0. changing \in SUBSET Slot /\ saving \in BOOLEAN
  BY DEF ChildrenTypeOK
<1>1. ASSUME MountChildren PROVE Goal
  BY <1>1, WaitsNone DEF MountChildren
<1>2. ASSUME UNCHANGED <<saving, changing>>, Beside(ChangeOps) PROVE Goal
  BY <1>0, <1>2, WaitsKept
<1>3. ASSUME UNCHANGED calls PROVE Beside(ChangeOps)
  BY <1>3 DEF Beside
<1>4. ASSUME NEW s \in Slot, Only(s), UNCHANGED <<saving, changing>>,
             s \in changing => calls'[s] # None /\ calls'[s].op \in ChangeOps
      PROVE  Goal
  BY <1>0, <1>4, WaitGoesOn
(* A step of the root component ends the wait for a load that has ended.   *)
<1>5. ASSUME NEW s \in Slot, Only(s), FollowChildren,
             s \in changing => calls'[s] = None \/ calls'[s].op \in ChangeOps
      PROVE  Goal
  <2>1. CASE MountChildren
    BY <1>1, <2>1
  <2>2. CASE ~MountChildren
    <3>1. /\ changing' = {t \in changing : calls'[t] # None}
          /\ saving' = IF changing' # changing THEN FALSE ELSE saving
      BY <1>5, <2>2 DEF FollowChildren
    <3>2. \A t \in changing : t # s => calls'[t] = calls[t] /\ calls[t] # None
      BY <1>0, <1>5 DEF Only, Waits
    <3>3. CASE s \in changing /\ calls'[s] = None
      <4>1. changing' = {} /\ saving' = FALSE
        BY <3>1, <3>3 DEF Waits
      <4>. QED
        BY <4>1, WaitsNone
    <3>4. CASE s \notin changing \/ calls'[s] # None
      <4>1. changing' = changing /\ saving' = saving
        <5>1. changing' = changing
          BY <3>1, <3>2, <3>4
        <5>. QED
          BY <3>1, <5>1
      <4>. QED
        BY <1>4, <1>5, <3>4, <4>1
    <3>. QED
      BY <3>3, <3>4
  <2>. QED
    BY <2>1, <2>2
<1>6. ASSUME UNCHANGED calls, FollowChildren PROVE Goal
  <2>1. ASSUME ~MountChildren PROVE UNCHANGED <<changing, saving>>
    <3>1. /\ changing' = {t \in changing : calls'[t] # None}
          /\ saving' = IF changing' # changing THEN FALSE ELSE saving
      BY <2>1, <1>6 DEF FollowChildren
    <3>2. changing' = changing
      BY <1>6, <3>1 DEF Waits
    <3>. QED
      BY <3>1, <3>2
  <2>. QED
    BY <1>1, <1>2, <1>3, <1>6, <2>1
<1>7. ASSUME AppStep, FollowChildren PROVE Goal
  <2>1. \/ UNCHANGED calls
        \/ \E s \in Slot : Only(s) /\ (calls[s] = None \/ calls'[s] = None)
        \/ \E s \in Slot : AnswerLoad(s) \/ AnswerAcknowledge(s)
    BY <1>7
    DEF AppStep, onopen, AuthOk, onclose, Reconnect, ReceiveFrame, ShowAlert, CheckProfile,
        ProfileKnown, ProfileGone, handleLogout, LeaveMissing, Navigate, ClickToast,
        ClickNotification, DismissToast, PressClose, RaiseAlert, Loaded, LoadFailed,
        Acknowledged, AcknowledgeFailed, RetryLoad, loadDashboardData, Return, Call,
        FirstFree, Only, CallTypes
  <2>2. ASSUME NEW s \in Slot, AnswerLoad(s)
        PROVE  Only(s) /\ calls'[s].op \in ChangeOps
    <3>1. calls[s] \in LoadRecord
      BY <2>2 DEF AnswerLoad, CallTypes, CallRecord, LoginRecord, AcknowledgeRecord,
                  AnalyseRecord, ChangeRecord, IngestRecord
    <3>2. /\ Only(s)
          /\ \/ calls'[s] = [calls[s] EXCEPT !.kids = family]
             \/ calls'[s] = [calls[s] EXCEPT !.log = stored]
      BY <2>2 DEF AnswerLoad, CallTypes, Only
    <3>3. calls'[s].op = calls[s].op
      BY <3>1, <3>2 DEF LoadRecord
    <3>. QED
      BY <2>2, <3>2, <3>3 DEF AnswerLoad, ChangeOps
  <2>3. ASSUME NEW s \in Slot, AnswerAcknowledge(s)
        PROVE  Only(s) /\ s \notin changing
    <3>1. Only(s) /\ calls[s].op = "acknowledge"
      BY <2>3 DEF AnswerAcknowledge, CallTypes, Only
    <3>. QED
      BY <3>1 DEF Waits, ChangeOps
  <2>4. ASSUME NEW s \in Slot, calls[s] = None PROVE s \notin changing
    BY <2>4 DEF Waits
  <2>. QED
    BY <1>5, <1>6, <1>7, <2>1, <2>2, <2>3, <2>4
<1>8. ASSUME NEW op \in {"create", "update", "delete"}, NEW c \in Child, Change(op, c)
      PROVE  Goal
  <2>. DEFINE call == [op |-> op, child |-> c, reload |-> loads, answer |-> None]
  <2>1. PICK s \in Slot : calls' = [calls EXCEPT ![s] = call] /\ changing' = changing \cup {s}
    BY <1>8 DEF Change
  <2>2. saving' = TRUE /\ ~(changing # {})
    BY <1>0, <1>8 DEF Change, Waits
  <2>3. call \in ChangeRecord /\ call.op \in ChangeOps
    BY DEF ChangeRecord, ChangeOps, RecordTypes
  <2>. HIDE DEF call
  <2>4. calls'[s] = call /\ call # None
    BY <2>1, <2>3, PagesAssumption DEF CallTypes, CallRecord
  <2>. QED
    BY <2>1, <2>2, <2>3, <2>4 DEF Waits
<1>9. ASSUME NEW s \in Slot, AnswerChange(s) PROVE Goal
  <2>1. Only(s) /\ UNCHANGED <<saving, changing>>
    BY <1>9 DEF AnswerChange, childrenVars, CallTypes, Only
  <2>2. calls[s] \in ChangeRecord
    BY <1>9 DEF AnswerChange, IsChange, CallTypes, CallRecord, LoginRecord, LoadRecord,
                AcknowledgeRecord, AnalyseRecord, IngestRecord
  <2>3. PICK answer \in {"ok", Refused} :
          calls' = [calls EXCEPT ![s] = [calls[s] EXCEPT !.answer = answer]]
    <3>. DEFINE accepted == (calls[s].op = "create") # (calls[s].child \in family)
                answer == IF accepted THEN "ok" ELSE Refused
    <3>1. calls' = [calls EXCEPT ![s].answer = answer]
      BY <1>9 DEF AnswerChange
    <3>2. answer \in {"ok", Refused}
      OBVIOUS
    <3>. HIDE DEF answer
    <3>. QED
      BY <3>1, <3>2
  <2>. DEFINE next == [calls[s] EXCEPT !.answer = answer]
  <2>4. next \in ChangeRecord /\ next.op \in ChangeOps
    BY <2>2 DEF ChangeRecord, ChangeOps
  <2>5. calls'[s] = next
    BY <2>3 DEF CallTypes
  <2>. HIDE DEF next
  <2>6. calls'[s] # None /\ calls'[s].op \in ChangeOps
    BY <2>4, <2>5, PagesAssumption DEF CallRecord
  <2>. QED
    BY <1>4, <2>1, <2>6
<1>10. ASSUME NEW s \in Slot, ChangeFailed(s) \/ ChangeDoneQuietly(s) PROVE Goal
  <2>1. /\ Only(s) /\ changing' = changing \ {s}
        /\ s \in changing => saving' = FALSE
        /\ s \notin changing => saving' = saving
    BY <1>10 DEF ChangeFailed, ChangeDoneQuietly, CallTypes, Only, Return
  <2>. QED
    BY <1>0, <2>1, WaitEnds
<1>11. ASSUME NEW s \in Slot, ChangeDone(s) PROVE Goal
  <2>1. Only(s) /\ calls'[s] = Load(token) /\ calls'[s].op \in ChangeOps
    BY <1>11 DEF ChangeDone, CallTypes, Only, Load, ChangeOps
  <2>2. calls'[s] # None
    <3>1. Load(token) \in LoadRecord
      BY DEF Load, LoadRecord, RecordTypes
    <3>. QED
      BY <2>1, <3>1, PagesAssumption DEF CallRecord
  <2>3. MountChildren \/ UNCHANGED <<saving, changing>>
    BY <1>11 DEF ChangeDone
  <2>. QED
    BY <1>1, <1>4, <2>1, <2>2, <2>3
<1>12. ASSUME ChildrenStep PROVE Goal
  <2>1. ASSUME NEW d, NEW e, NEW c, Edited(d, e, c) PROVE Goal
    BY <1>2, <1>3, <2>1 DEF Edited
  <2>2. ASSUME handleRegister PROVE Goal
    <3>1. draft \in Child
      BY <2>2 DEF handleRegister, ChildrenTypeOK
    <3>. QED
      BY <1>8, <2>2, <3>1 DEF handleRegister
  <2>. QED
    BY <1>8, <1>9, <1>10, <1>12, <2>1, <2>2
    DEF ChildrenStep, EnterChild, startEdit, askDelete, cancelEdit, keepChild, handleUpdate,
        handleDelete
<1>13. ASSUME FollowChildren \/ UNCHANGED childrenVars, Beside(ChangeOps) PROVE Goal
  <2>1. ASSUME FollowChildren, ~MountChildren PROVE UNCHANGED <<saving, changing>>
    <3>1. /\ changing' = {t \in changing : calls'[t] # None}
          /\ saving' = IF changing' # changing THEN FALSE ELSE saving
      BY <2>1 DEF FollowChildren
    <3>2. changing' = changing
      BY <1>0, <1>13, <3>1 DEF Waits, Beside
    <3>. QED
      BY <3>1, <3>2
  <2>. QED
    BY <1>1, <1>2, <1>13, <2>1 DEF childrenVars
<1>. QED
  BY <1>7, <1>11, <1>12, <1>13, FormMoves

(* The test chat. *)
LEMMA RoomWaits ==
  ASSUME Next, CallTypes, CallTypes', RoomTypeOK, RecordTypes,
         Waits(calls, posting, sending, {"ingest"})
  PROVE  Waits(calls, posting, sending, {"ingest"})'
<1>. DEFINE Goal == Waits(calls', posting', sending', {"ingest"})
<1>0. posting \in SUBSET Slot /\ sending \in BOOLEAN
  BY DEF RoomTypeOK
<1>1. ASSUME posting' = {}, sending' = FALSE PROVE Goal
  BY <1>1, WaitsNone
<1>2. ASSUME UNCHANGED <<posting, sending>>, Beside({"ingest"}) PROVE Goal
  BY <1>0, <1>2, WaitsKept
<1>3. ASSUME UNCHANGED calls PROVE Beside({"ingest"})
  BY <1>3 DEF Beside
<1>4. ASSUME handleSend PROVE Goal
  <2>. DEFINE call == [op |-> "ingest", answer |-> None,
                       line |-> [senderId |-> getSenderId, role |-> senderRole]]
  <2>1. PICK s \in Slot : calls' = [calls EXCEPT ![s] = call] /\ posting' = posting \cup {s}
    BY <1>4 DEF handleSend
  <2>2. sending' = TRUE /\ ~(posting # {})
    BY <1>0, <1>4 DEF handleSend, MaySend, Waits
  <2>3. call.op \in {"ingest"}
    OBVIOUS
  <2>4. call \in IngestRecord
    <3>. DEFINE line == [senderId |-> getSenderId, role |-> senderRole]
    <3>1. getSenderId \in SenderId /\ senderRole \in Role
      BY DEF getSenderId, SenderId, RecordTypes, Role
    <3>2. line \in Line
      BY <3>1 DEF Line
    <3>. HIDE DEF line
    <3>. QED
      BY <3>2 DEF IngestRecord, line
  <2>. HIDE DEF call
  <2>5. calls'[s] = call /\ call # None
    BY <2>1, <2>4, PagesAssumption DEF CallTypes, CallRecord
  <2>. QED
    BY <2>1, <2>2, <2>3, <2>5 DEF Waits
<1>5. ASSUME NEW s \in Slot, AnswerIngest(s) PROVE Goal
  <2>1. Only(s) /\ UNCHANGED <<posting, sending>>
    BY <1>5 DEF AnswerIngest, roomVars, CallTypes, Only
  <2>2. calls[s] \in IngestRecord
    BY <1>5 DEF AnswerIngest, CallTypes, CallRecord, LoginRecord, LoadRecord,
                AcknowledgeRecord, AnalyseRecord, ChangeRecord
  <2>. DEFINE next == [calls[s] EXCEPT !.answer = "ok"]
  <2>3. next \in IngestRecord /\ next.op \in {"ingest"}
    BY <2>2 DEF IngestRecord
  <2>4. calls'[s] = next
    BY <1>5 DEF AnswerIngest, CallTypes
  <2>. HIDE DEF next
  <2>5. calls'[s] # None /\ calls'[s].op \in {"ingest"}
    BY <2>3, <2>4, PagesAssumption DEF CallRecord
  <2>. QED
    BY <1>0, <2>1, <2>5, WaitGoesOn
<1>6. ASSUME NEW s \in Slot, Sent(s) \/ SendFailed(s) PROVE Goal
  <2>1. /\ Only(s) /\ posting' = posting \ {s}
        /\ s \in posting => sending' = FALSE
        /\ s \notin posting => sending' = sending
    BY <1>6 DEF Sent, SendFailed, CallTypes, Only, Return
  <2>. QED
    BY <1>0, <2>1, WaitEnds
<1>7. CASE RoomStep
  BY <1>2, <1>3, <1>4, <1>5, <1>6, <1>7
  DEF RoomStep, SelectChild, SelectRole, EnterMessage, ClearLogs
<1>8. CASE (FollowRoom \/ UNCHANGED roomVars) /\ Beside({"ingest"})
  BY <1>1, <1>2, <1>8 DEF FollowRoom, roomVars
<1>. QED
  BY <1>7, <1>8, FormMoves

LEMMA FormsStep ==
  ASSUME Next, CallTypes, CallTypes', AuthTypeOK, ChildrenTypeOK, RoomTypeOK, DetailTypeOK,
         RecordTypes, RecordsTrue, FormsWait
  PROVE  FormsWait'
<1>1. HeldTrue(Known, Reviewed)
  BY DEF RecordsTrue
<1>. QED
  BY <1>1, AuthWaits, ChildrenWaits, RoomWaits, DetailWaits DEF FormsWait

(* A form is busy exactly while its one call is in flight. *)
LEMMA FormsBusy ==
  ASSUME FormsWait
  PROVE  BusyIsOwnCall
<1>1. ASSUME NEW slots, \A s, t \in slots : s = t PROVE Cardinality(slots) <= 1
  <2>1. CASE slots = {}
    BY <2>1, FS_EmptySet
  <2>2. CASE slots # {}
    <3>1. PICK s \in slots : slots = {s}
      BY <1>1, <2>2
    <3>2. Cardinality({s}) = 1
      BY FS_Singleton
    <3>. QED
      BY <3>1, <3>2
  <2>. QED
    BY <2>1, <2>2
<1>2. \A slots \in {submitted, changing, posting, mine} : Cardinality(slots) <= 1
  BY <1>1 DEF FormsWait, Waits
<1>. QED
  BY <1>2 DEF FormsWait, Waits, BusyIsOwnCall

-----------------------------------------------------------------------------
(* Types *)

LEMMA TypesAgree ==
  ASSUME TypeOK
  PROVE  /\ SocketTypes /\ RecordTypes /\ CallTypes /\ AppTypeOK /\ AuthTypeOK /\ ListTypeOK
         /\ DetailTypeOK /\ ChildrenTypeOK /\ RoomTypeOK
BY DEF TypeOK, AppTypeOK, AuthTypeOK, ListTypeOK, RoomTypeOK, ChildrenTypeOK, SocketTypes,
       RecordTypes, CallTypes

LEMMA SocketTypesKept ==
  ASSUME SocketTypes, RecordsTrue', addressed \in BOOLEAN, sessionId \in BOOLEAN, SocketMoves,
         PageMoves \/ StoreMoves
  PROVE  SocketTypes'
<1>1. /\ phase' \in [Effect -> Phase] /\ running' \in Effect \cup {None}
      /\ socketRef' \in Effect \cup {None}
  <2>1. AfterCleanup \in [Effect -> Phase]
    BY DEF AfterCleanup, SocketTypes, Phase
  <2>2. CASE UNCHANGED <<phase, running, socketRef>>
    BY <2>2 DEF SocketTypes
  <2>3. CASE StopSocket \/ RestartSocket
    BY <2>1, <2>3 DEF StopSocket, RestartSocket, SocketTypes, Phase, Open
  <2>4. ASSUME NEW e \in Effect, onopen(e) \/ AuthOk(e) \/ onclose(e) \/ Reconnect(e)
        PROVE  /\ phase' \in [Effect -> Phase] /\ running' \in Effect \cup {None}
               /\ socketRef' \in Effect \cup {None}
    BY <2>4 DEF onopen, AuthOk, onclose, Reconnect, SocketTypes, Phase, Open
  <2>. QED
    BY <2>2, <2>3, <2>4 DEF SocketMoves
<1>2. wire' \subseteq [to : Effect, alert : Entry]
  <2>1. CASE wire' \subseteq wire
    BY <2>1 DEF SocketTypes
  <2>2. ASSUME NEW id \in AlertId, NEW severity \in Severity, RaiseAlert(id, severity)
        PROVE  wire' \subseteq [to : Effect, alert : Entry]
    <3>. DEFINE entry == IF Listed(stored, id)
                         THEN [Lookup(stored, id) EXCEPT !.severity = severity]
                         ELSE [id |-> id, acknowledged |-> FALSE, severity |-> severity,
                               detectedStages |-> <<>>]
                ready == {d \in Effect : phase[d] = "authenticated"}
    <3>1. wire' = wire \cup {[to |-> e, alert |-> entry] : e \in ready}
      BY <2>2 DEF RaiseAlert
    <3>2. ready \subseteq Effect
      OBVIOUS
    <3>. HIDE DEF entry, ready
    <3>3. \A e \in ready : entry \in Entry
      <4>. SUFFICES ASSUME NEW e \in ready PROVE entry \in Entry
        OBVIOUS
      <4>1. [to |-> e, alert |-> entry] \in wire'
        BY <3>1
      <4>2. Fine(Known', Reviewed', entry)
        BY <4>1 DEF RecordsTrue, HeldTrue
      <4>. QED
        BY <4>2 DEF Fine
    <3>. QED
      BY <3>1, <3>2, <3>3 DEF SocketTypes
  <2>. QED
    BY <2>1, <2>2
    DEF PageMoves, StoreMoves, AnswerAcknowledge, AnswerAnalysis, AnswerChange, socketVars
<1>. QED
  BY <1>1, <1>2 DEF SocketTypes

(* What the backend holds and the page shows is of its type, for it is true. *)
LEMMA HeldTypes ==
  ASSUME RecordsTrue
  PROVE  alerts \in Seq(Entry) /\ stored \in Seq(Entry) /\ opening \subseteq Entry /\ CallTypes
BY DEF RecordsTrue, HeldTrue, FineList, Fine, FineCalls, CallTypes

(* The bound on events is spent, but for the number of profile checks.  *)
Bounded ==
  /\ budget \in [Event -> Nat] /\ checks \in 0..budget["checks"]

BoundMoves ==
  /\ budget' = budget \/ \E event \in Event \ {"checks"} : Spend(event)
  /\ \/ checks' = checks
     \/ checks < budget["checks"] /\ checks' = checks + 1
     \/ checks > 0 /\ checks' = checks - 1

LEMMA BoundsMove ==
  ASSUME Next
  PROVE  BoundMoves
<1>. USE DEF BoundMoves, rest, socketVars, session, shown, backend, Event
<1>1. CASE AppStep
  BY <1>1
  DEF AppStep, onopen, AuthOk, onclose, Reconnect, ReceiveFrame, ShowAlert, AnswerLoad,
      Loaded, LoadFailed, AnswerAcknowledge, Acknowledged, AcknowledgeFailed, RetryLoad,
      CheckProfile, ProfileKnown, ProfileGone, handleLogout, LeaveSession, LeaveMissing,
      Navigate, ClickToast, ClickNotification, DismissToast, PressClose, RaiseAlert
<1>2. CASE OpenRecent \/ OpenCard \/ ViewAllAlerts \/ SelectRow \/ GoBack \/ handleNavigate
  BY <1>2 DEF OpenRecent, OpenCard, ViewAllAlerts, SelectRow, GoBack, handleNavigate, Navigate
<1>3. CASE KeysExchanged \/ AuthStep \/ \E s \in Slot : LoggedIn(s)
  BY <1>3
  DEF KeysExchanged, SessionPaired, AuthStep, Connect, Associated, ConnectFailed,
      SwitchMode, handleSubmit, Registered, LoginFailed, LoggedIn, handleAuthSuccess, appVars
<1>4. CASE ListStep
  BY <1>4
  DEF ListStep, FilterChosen, ChooseFilter, toggleSort, TurnPage, AcknowledgeRow,
      handleAcknowledgeAlert
<1>5. CASE DetailStep
  BY <1>5
  DEF DetailStep, SelectTab, ToggleStage, ShowProgress, AnswerAnalysis, Analysed,
      AnalysisFailed, EndOfAnalysis, AcknowledgeAndGoBack, handleAcknowledgeAlert,
      handleContinueAnalysis, appVars
<1>6. CASE ChildrenStep \/ \E s \in Slot : ChangeDone(s)
  BY <1>6
  DEF ChildrenStep, EnterChild, startEdit, askDelete, cancelEdit, keepChild, Edited,
      handleRegister, handleUpdate, handleDelete, Change, AnswerChange, ChangeFailed,
      ChangeDoneQuietly, ChangeDone
<1>7. CASE RoomStep \/ ToggleMenu
  BY <1>7
  DEF RoomStep, SelectChild, SelectRole, EnterMessage, ClearLogs, handleSend, AnswerIngest,
      Sent, SendFailed, ToggleMenu
<1>8. CASE SettingsStep
  BY <1>8
  DEF SettingsStep, ChooseTheme, ChooseInterval, ToggleSound, handleVolumeChange,
      requestDesktopNotificationPermission, PermissionAnswered, Changed, ChangedQuietly
<1>. QED
  BY <1>1, <1>2, <1>3, <1>4, <1>5, <1>6, <1>7, <1>8 DEF Next, Turn

LEMMA BoundsKept ==
  ASSUME Bounded, BoundMoves
  PROVE  Bounded'
<1>1. budget' \in [Event -> Nat] /\ budget'["checks"] = budget["checks"]
  <2>1. ASSUME NEW event \in Event \ {"checks"}, Spend(event)
        PROVE  budget' \in [Event -> Nat] /\ budget'["checks"] = budget["checks"]
    <3>1. budget[event] \in Nat /\ budget[event] > 0
      BY <2>1 DEF Bounded, Spend
    <3>2. budget[event] - 1 \in Nat
      BY <3>1
    <3>3. "checks" \in Event
      BY DEF Event
    <3>. QED
      BY <2>1, <3>2, <3>3 DEF Bounded, Spend
  <2>. QED
    BY <2>1 DEF Bounded, BoundMoves
<1>2. budget["checks"] \in Nat
  BY DEF Bounded, Event
<1>3. checks' \in 0..budget["checks"]
  BY <1>2 DEF Bounded, BoundMoves
<1>. QED
  BY <1>1, <1>3 DEF Bounded

(* The rest of the root component's state: what the page shows, and what   *)
(* the parent has chosen.                                                  *)
RecentOnes ==
  \A i \in DOMAIN recentAlerts : recentAlerts[i] \in Entry

LEMMA RecentShown ==
  ASSUME alerts \in Seq(Entry)
  PROVE  RecentOnes
<1>. DEFINE last == IF Len(alerts) < 5 THEN Len(alerts) ELSE 5
<1>1. last \in 0..Len(alerts) /\ Len(alerts) \in Nat
  OBVIOUS
<1>2. recentAlerts = SubSeq(alerts, 1, last)
  BY DEF recentAlerts
<1>. HIDE DEF last
<1>3. recentAlerts \in Seq(Entry)
  BY <1>1, <1>2, PartItems
<1>. QED
  BY <1>3 DEF RecentOnes

PlainTypes ==
  /\ {sessionId, token, loads, isLoading, error, addressed} \subseteq BOOLEAN
  /\ children \subseteq Child /\ family \subseteq Child /\ gone \subseteq AlertId
  /\ activeView \in View /\ toasts \subseteq ToastItem /\ notified \subseteq AlertId
  /\ settings \in [soundEnabled : BOOLEAN, desktopNotifications : BOOLEAN,
                  theme : {"light", "dark"}, autoRefreshInterval : Interval,
                  permission : {"default", "granted", "denied"}]

LEMMA ViewTypes ==
  /\ \A page \in Page : PageView(page) \in View
  /\ \A id \in AlertId : AlertView(id) \in View
  /\ PageView("alerts") \in View /\ PageView("dashboard") \in View
  /\ PageView("children") \in View
BY DEF View, Page

LEMMA PlainTypesKept ==
  ASSUME Next, PlainTypes, RecordTypes, RecordsTrue
  PROVE  PlainTypes'
<1>0. /\ alerts \in Seq(Entry) /\ opening \subseteq Entry /\ RecentOnes
      /\ \A entry \in Entry : entry.id \in AlertId
      /\ \A entry \in Rows : entry \in Entry
  <2>1. alerts \in Seq(Entry) /\ opening \subseteq Entry
    BY HeldTypes
  <2>2. \A entry \in Rows : entry \in Entry
    BY <2>1, RowsShown DEF RecordTypes
  <2>. QED
    BY <2>1, <2>2, RecentShown DEF Entry
<1>. USE DEF PlainTypes, rest, socketVars, session, shown, backend
<1>1. CASE \/ \E e \in Effect : onopen(e) \/ AuthOk(e) \/ onclose(e) \/ Reconnect(e)
           \/ \E f \in wire : ReceiveFrame(f)
           \/ \E s \in Slot : AnswerLoad(s) \/ AnswerAcknowledge(s)
           \/ CheckProfile \/ ProfileKnown
           \/ \E id \in AlertId, severity \in Severity : RaiseAlert(id, severity)
  BY <1>1
  DEF onopen, AuthOk, onclose, Reconnect, ReceiveFrame, AnswerLoad, AnswerAcknowledge,
      CheckProfile, ProfileKnown, RaiseAlert
<1>2. CASE \E entry \in opening : ShowAlert(entry)
  BY <1>0, <1>2 DEF ShowAlert, addToast, ToastItem
<1>3. ASSUME NEW s \in Slot, Loaded(s) PROVE PlainTypes'
  <2>1. children' \subseteq Child
    <3>1. FineLoad(Known, Reviewed, calls[s])
      BY <1>3, CallFine, CallKinds DEF Loaded, RecordsTrue
    <3>2. calls[s].kids \in (SUBSET Child) \cup {None} /\ calls[s].kids # None
      BY <1>3, <3>1 DEF FineLoad, LoadRecord, Loaded
    <3>. QED
      BY <1>3, <3>2 DEF Loaded
  <2>. QED
    BY <1>3, <2>1 DEF Loaded, RestartSocket
<1>4. CASE \/ \E s \in Slot : LoadFailed(s) \/ Acknowledged(s) \/ AcknowledgeFailed(s)
           \/ RetryLoad
  BY <1>4, ViewTypes
  DEF LoadFailed, Acknowledged, AcknowledgeFailed, RetryLoad, loadDashboardData, addToast,
      ToastItem
<1>5. CASE ProfileGone \/ handleLogout
  BY <1>5, ViewTypes
  DEF ProfileGone, handleLogout, LeaveSession, StopSocket, clearToken, addToast, ToastItem
<1>6. CASE LeaveMissing \/ GoBack \/ OpenCard \/ ViewAllAlerts \/ handleNavigate
  BY <1>6, ViewTypes
  DEF LeaveMissing, GoBack, OpenCard, ViewAllAlerts, handleNavigate, Navigate
<1>7. CASE OpenRecent \/ SelectRow
  BY <1>0, <1>7, ViewTypes DEF OpenRecent, SelectRow, Navigate, RecentOnes
<1>8. CASE \/ \E id \in AlertId : ClickToast(id) \/ ClickNotification(id)
           \/ \E key \in toasts : DismissToast(key) \/ PressClose(key)
  BY <1>8, ViewTypes DEF ClickToast, ClickNotification, DismissToast, PressClose, closeToast
<1>9. CASE KeysExchanged \/ AuthStep \/ \E s \in Slot : LoggedIn(s)
  BY <1>9
  DEF KeysExchanged, SessionPaired, setSessionId, AuthStep, Connect, Associated,
      ConnectFailed, SwitchMode, handleSubmit, Registered, LoginFailed, LoggedIn,
      handleAuthSuccess, setToken, RestartSocket, addToast, ToastItem, appVars
<1>10. CASE ListStep
  BY <1>10
  DEF ListStep, FilterChosen, ChooseFilter, toggleSort, TurnPage, AcknowledgeRow,
      handleAcknowledgeAlert
<1>11. CASE DetailStep
  BY <1>11
  DEF DetailStep, SelectTab, ToggleStage, ShowProgress, AnswerAnalysis, Analysed,
      AnalysisFailed, EndOfAnalysis, AcknowledgeAndGoBack, handleAcknowledgeAlert,
      handleContinueAnalysis, appVars
<1>12. ASSUME NEW s \in Slot, AnswerChange(s) PROVE PlainTypes'
  <2>1. calls[s] \in ChangeRecord
    BY <1>12, CallFine, CallKinds DEF AnswerChange, IsChange, RecordsTrue
  <2>. DEFINE c == calls[s].child
              accepted == (calls[s].op = "create") # (c \in family)
              deleted == {i \in DOMAIN stored :
                            accepted /\ calls[s].op = "delete" /\ ChildOf[stored[i].id] = c}
  <2>2. /\ family' = CASE accepted /\ calls[s].op = "create" -> family \cup {c}
                       [] accepted /\ calls[s].op = "delete" -> family \ {c}
                       [] OTHER -> family
        /\ gone' = gone \cup {stored[i].id : i \in deleted}
        /\ UNCHANGED <<session, shown, activeView, toasts, settings, socketVars, notified>>
    BY <1>12 DEF AnswerChange
  <2>3. \A i \in DOMAIN stored : stored[i].id \in AlertId
    <3>1. stored \in Seq(Entry)
      BY HeldTypes
    <3>2. \A i \in DOMAIN stored : stored[i] \in Entry
      BY <3>1
    <3>. QED
      BY <3>2 DEF Entry
  <2>4. deleted \subseteq DOMAIN stored /\ c \in Child
    BY <2>1 DEF ChangeRecord
  <2>. HIDE DEF accepted, deleted, c
  <2>5. gone' \subseteq AlertId
    BY <2>2, <2>3, <2>4
  <2>6. family' \subseteq Child
    BY <2>2, <2>4
  <2>. QED
    BY <2>2, <2>5, <2>6
<1>13. CASE ChildrenStep \/ \E s \in Slot : ChangeDone(s)
  BY <1>12, <1>13
  DEF ChildrenStep, EnterChild, startEdit, askDelete, cancelEdit, keepChild, Edited,
      handleRegister, handleUpdate, handleDelete, Change, ChangeFailed,
      ChangeDoneQuietly, ChangeDone
<1>14. CASE RoomStep \/ ToggleMenu
  BY <1>14
  DEF RoomStep, SelectChild, SelectRole, EnterMessage, ClearLogs, handleSend, AnswerIngest,
      Sent, SendFailed, ToggleMenu
<1>15. ASSUME SettingsStep PROVE PlainTypes'
  <2>1. ASSUME \/ \E theme \in {"light", "dark"} : ChooseTheme(theme)
               \/ \E seconds \in Interval : ChooseInterval(seconds)
        PROVE  PlainTypes'
    BY <2>1 DEF ChooseTheme, ChooseInterval, ChangedQuietly, updateSetting
  <2>2. ASSUME ToggleSound \/ handleVolumeChange PROVE PlainTypes'
    BY <2>2 DEF ToggleSound, handleVolumeChange, Changed, updateSetting, RestartSocket
  <2>3. ASSUME requestDesktopNotificationPermission PROVE PlainTypes'
    BY <2>3 DEF requestDesktopNotificationPermission, Changed, updateSetting, RestartSocket
  <2>4. ASSUME NEW permission \in {"granted", "denied"}, PermissionAnswered(permission)
        PROVE  PlainTypes'
    BY <2>4 DEF PermissionAnswered, RestartSocket
  <2>. QED
    BY <1>15, <2>1, <2>2, <2>3, <2>4 DEF SettingsStep
<1>. QED
  BY <1>1, <1>2, <1>3, <1>4, <1>5, <1>6, <1>7, <1>8, <1>9, <1>10, <1>11, <1>13, <1>14, <1>15
  DEF Next, Turn, AppStep

LEMMA AuthTypesKept ==
  ASSUME Next, CallTypes, AuthTypeOK
  PROVE  AuthTypeOK'
<1>. USE DEF AuthTypeOK
<1>1. CASE AuthStep \/ KeysExchanged \/ \E s \in Slot : LoggedIn(s)
  BY <1>1
  DEF AuthStep, KeysExchanged, LoggedIn, Connect, Associated, ConnectFailed, SwitchMode,
      handleSubmit, Registered, LoginFailed, MountAuth, authVars
<1>2. CASE FollowAuth \/ UNCHANGED authVars
  BY <1>2 DEF FollowAuth, MountAuth, authVars
<1>. QED
  BY <1>1, <1>2, FormMoves

LEMMA DetailTypesKept ==
  ASSUME Next, CallTypes, DetailTypeOK
  PROVE  DetailTypeOK'
<1>. USE DEF DetailTypeOK, Panel
<1>1. CASE \/ \E tab \in {"chat", "analysis"} : SelectTab(tab)
           \/ \E stage \in Stage : ToggleStage(stage)
           \/ \E text \in progress : ShowProgress(text)
  BY <1>1 DEF SelectTab, ToggleStage, ShowProgress
<1>2. CASE \/ \E s \in Slot : AnswerAnalysis(s) \/ Analysed(s) \/ AnalysisFailed(s)
           \/ AcknowledgeAndGoBack
  <2>1. ASSUME UNCHANGED detailVars PROVE DetailTypeOK'
    BY <2>1 DEF detailVars
  <2>2. ASSUME NEW s \in Slot, NEW status \in {"success", "failed"},
               NEW text \in {"complete", "failed"}, EndOfAnalysis(s, status, text)
        PROVE  DetailTypeOK'
    BY <2>2 DEF EndOfAnalysis
  <2>. QED
    BY <1>2, <2>1, <2>2 DEF AnswerAnalysis, Analysed, AnalysisFailed, AcknowledgeAndGoBack
<1>3. CASE handleContinueAnalysis
  BY <1>3 DEF handleContinueAnalysis
<1>4. CASE FollowDetail \/ UNCHANGED detailVars
  <2>1. FreshPanel \in Panel
    BY DEF FreshPanel
  <2>2. CASE MountDetail
    BY <2>1, <2>2 DEF MountDetail
  <2>3. CASE UNCHANGED detailVars
    BY <2>3 DEF detailVars
  <2>. QED
    BY <1>4, <2>2, <2>3 DEF FollowDetail
<1>. QED
  BY <1>1, <1>2, <1>3, <1>4, FormMoves DEF DetailStep

LEMMA ChildrenTypesKept ==
  ASSUME Next, CallTypes, ChildrenTypeOK, children \subseteq Child
  PROVE  ChildrenTypeOK'
<1>. USE DEF ChildrenTypeOK
<1>1. ASSUME NEW op, NEW c, Change(op, c) PROVE ChildrenTypeOK'
  BY <1>1 DEF Change
<1>2. ASSUME NEW s \in Slot, FormCleared(s)
      PROVE  {draft', editing', confirming'} \subseteq Child \cup {None}
  BY <1>2 DEF FormCleared, Form
<1>3. CASE ChildrenStep \/ \E s \in Slot : ChangeDone(s)
  BY <1>1, <1>2, <1>3
  DEF ChildrenStep, EnterChild, startEdit, askDelete, cancelEdit, keepChild, Plain, Edited,
      Form, handleRegister, handleUpdate, handleDelete, AnswerChange, ChangeFailed,
      ChangeDoneQuietly, ChangeDone, MountChildren, childrenVars
<1>4. CASE FollowChildren \/ UNCHANGED childrenVars
  BY <1>4 DEF FollowChildren, MountChildren, Form, childrenVars
<1>. QED
  BY <1>3, <1>4, FormMoves

LEMMA RoomTypesKept ==
  ASSUME Next, CallTypes, RoomTypeOK, children' \subseteq Child
  PROVE  RoomTypeOK'
<1>. DEFINE Goal ==
       /\ selectedChild' \in Child \cup {None} /\ senderRole' \in Role
       /\ message' \in BOOLEAN /\ sending' \in BOOLEAN
       /\ history' \in Seq(Line) /\ ingested' \in Seq(Line) /\ posting' \subseteq Slot
<1>. USE DEF Role
<1>0. /\ selectedChild \in Child \cup {None} /\ senderRole \in Role
      /\ message \in BOOLEAN /\ sending \in BOOLEAN
      /\ history \in Seq(Line) /\ ingested \in Seq(Line) /\ posting \subseteq Slot
  BY DEF RoomTypeOK
<1>1. ASSUME NEW s \in Slot, AnswerIngest(s) \/ Sent(s)
      PROVE  calls[s].line \in Line
  <2>1. calls[s] \in IngestRecord
    BY <1>1 DEF AnswerIngest, Sent, CallTypes, CallRecord, LoginRecord, LoadRecord,
                AcknowledgeRecord, AnalyseRecord, ChangeRecord
  <2>. QED
    BY <2>1 DEF IngestRecord
<1>2. ASSUME \/ \E c \in Child : SelectChild(c)
             \/ \E role \in Role : SelectRole(role)
             \/ EnterMessage \/ ClearLogs \/ handleSend
      PROVE  Goal
  <2>1. <<>> \in Seq(Line)
    OBVIOUS
  <2>. QED
    BY <1>0, <1>2, <2>1 DEF SelectChild, SelectRole, EnterMessage, ClearLogs, handleSend
<1>3. ASSUME NEW s \in Slot, AnswerIngest(s) PROVE Goal
  <2>1. Append(ingested, calls[s].line) \in Seq(Line)
    BY <1>0, <1>1, <1>3
  <2>. QED
    BY <1>0, <1>3, <2>1 DEF AnswerIngest, roomVars
<1>4. ASSUME NEW s \in Slot, Sent(s) PROVE Goal
  <2>1. Append(history, calls[s].line) \in Seq(Line)
    BY <1>0, <1>1, <1>4
  <2>. QED
    BY <1>0, <1>4, <2>1 DEF Sent
<1>5. ASSUME NEW s \in Slot, SendFailed(s) PROVE Goal
  BY <1>0, <1>5 DEF SendFailed
<1>6. ASSUME FollowRoom \/ UNCHANGED roomVars, UNCHANGED ingested PROVE Goal
  <2>1. AutoSelect(selectedChild) \subseteq Child \cup {None} /\ <<>> \in Seq(Line)
    BY <1>0 DEF AutoSelect
  <2>. QED
    BY <1>0, <1>6, <2>1 DEF FollowRoom, roomVars
<1>7. Goal
  BY <1>2, <1>3, <1>4, <1>5, <1>6, FormMoves DEF RoomStep
<1>. QED
  BY <1>7 DEF RoomTypeOK

(* The list, the question about notifications and the menu. *)
LEMMA OthersMove ==
  ASSUME Next
  PROVE  /\ ListStep \/ FollowList \/ UNCHANGED listVars
         /\ SettingsStep \/ UNCHANGED asking
         /\ ToggleMenu \/ FollowSidebar \/ isOpen' = FALSE \/ UNCHANGED isOpen
BY DEF Next, Follow, FollowPages, handleNavigate

LEMMA ListTypesKept ==
  ASSUME Next, ListTypeOK, alerts \in Seq(Entry), children \subseteq Child
  PROVE  ListTypeOK'
<1>. USE DEF ListTypeOK
<1>0. totalPages \in Nat \ {0}
  BY PageInRange
<1>1. ASSUME FilterChosen PROVE ListTypeOK'
  BY <1>1 DEF FilterChosen, ChooseFilter, Selections
<1>2. ASSUME NEW field \in {"date", "risk"}, toggleSort(field) PROVE ListTypeOK'
  BY <1>2 DEF toggleSort
<1>3. ASSUME TurnPage PROVE ListTypeOK'
  BY <1>0, <1>3 DEF TurnPage
<1>4. ASSUME NEW entry, AcknowledgeRow(entry) PROVE ListTypeOK'
  BY <1>4 DEF AcknowledgeRow, listVars
<1>5. CASE FollowList \/ UNCHANGED listVars
  BY <1>5 DEF FollowList, MountList, NoFilter, NewestFirst, Selections, All, listVars
<1>. QED
  BY <1>1, <1>2, <1>3, <1>4, <1>5, OthersMove DEF ListStep

LEMMA TypesStep ==
  ASSUME Next, TypeOK, RecordsTrue, RecordsTrue'
  PROVE  TypeOK'
<1>0. /\ SocketTypes /\ RecordTypes /\ CallTypes /\ AppTypeOK /\ AuthTypeOK /\ ListTypeOK
      /\ DetailTypeOK /\ ChildrenTypeOK /\ RoomTypeOK
  BY TypesAgree
<1>1. /\ alerts \in Seq(Entry) /\ children \subseteq Child /\ addressed \in BOOLEAN
      /\ sessionId \in BOOLEAN
  BY <1>0 DEF AppTypeOK
<1>2. SocketTypes'
  BY <1>0, <1>1, SocketsMove, RecordsMove, SocketTypesKept
<1>3. PlainTypes' /\ Bounded'
  <2>1. PlainTypes /\ Bounded
    BY <1>0 DEF AppTypeOK, PlainTypes, Bounded
  <2>. QED
    BY <1>0, <2>1, PlainTypesKept, BoundsMove, BoundsKept
<1>4. (alerts \in Seq(Entry) /\ stored \in Seq(Entry) /\ opening \subseteq Entry /\ CallTypes)'
  BY HeldTypes, PTL
<1>5. AppTypeOK'
  BY <1>2, <1>3, <1>4 DEF AppTypeOK, SocketTypes, PlainTypes, Bounded
<1>6. AuthTypeOK' /\ DetailTypeOK'
  BY <1>0, AuthTypesKept, DetailTypesKept
<1>7. ChildrenTypeOK' /\ ListTypeOK'
  BY <1>0, <1>1, ChildrenTypesKept, ListTypesKept
<1>8. RoomTypeOK'
  BY <1>0, <1>3, RoomTypesKept DEF PlainTypes
<1>9. SettingsTypeOK' /\ SidebarTypeOK'
  <2>1. asking \in BOOLEAN /\ isOpen \in BOOLEAN
    BY DEF TypeOK, SettingsTypeOK, SidebarTypeOK
  <2>2. asking' \in BOOLEAN
    BY <2>1, OthersMove
    DEF SettingsStep, ChooseTheme, ChooseInterval, ToggleSound, handleVolumeChange,
        requestDesktopNotificationPermission, PermissionAnswered
  <2>3. isOpen' \in BOOLEAN
    BY <2>1, OthersMove DEF ToggleMenu, FollowSidebar
  <2>. QED
    BY <2>2, <2>3 DEF SettingsTypeOK, SidebarTypeOK
<1>. QED
  BY <1>4, <1>5, <1>6, <1>7, <1>8, <1>9 DEF TypeOK, CallTypes

-----------------------------------------------------------------------------
(* The test chat *)

(* Where each of these lines is among those the backend has taken. *)
Places(place, lines, taken) ==
  /\ place \in [DOMAIN lines -> DOMAIN taken]
  /\ \A m, n \in DOMAIN lines : m < n => place[m] < place[n]
  /\ \A n \in DOMAIN lines : lines[n] = taken[place[n]]

(* A line that was taken after all of them. *)
After(place, lines, taken, line) ==
  \E i \in DOMAIN taken : taken[i] = line /\ \A n \in DOMAIN lines : place[n] < i

(* The lines of the chat are lines the backend took, at rising positions,  *)
(* and a line that was taken and is still awaited comes after all of them. *)
EchoPlaced ==
  \E place : /\ Places(place, history, ingested)
             /\ \A s \in posting : calls[s].answer = "ok" =>
                  After(place, history, ingested, calls[s].line)

LEMMA NothingPlaced ==
  \A taken : Places(<<>>, <<>>, taken)
BY DEF Places

(* One more line is taken. *)
LEMMA PlacesKept ==
  ASSUME NEW S, NEW lines \in Seq(S), NEW taken \in Seq(S), NEW line \in S, NEW place,
         Places(place, lines, taken)
  PROVE  /\ Places(place, lines, Append(taken, line))
         /\ After(place, lines, Append(taken, line), line)
         /\ \A other : After(place, lines, taken, other) =>
                         After(place, lines, Append(taken, line), other)
<1>. DEFINE more == Append(taken, line)
<1>1. /\ DOMAIN taken = 1..Len(taken) /\ DOMAIN more = 1..Len(taken) + 1 /\ Len(taken) \in Nat
      /\ \A i \in DOMAIN taken : more[i] = taken[i]
      /\ more[Len(taken) + 1] = line
  OBVIOUS
<1>. HIDE DEF more
<1>2. DOMAIN taken \subseteq DOMAIN more
  BY <1>1
<1>3. \A n \in DOMAIN lines : place[n] \in 1..Len(taken)
  BY <1>1 DEF Places
<1>4. Places(place, lines, more)
  BY <1>1, <1>2, <1>3 DEF Places
<1>5. After(place, lines, more, line)
  <2>1. Len(taken) + 1 \in DOMAIN more
    BY <1>1
  <2>2. \A n \in DOMAIN lines : place[n] < Len(taken) + 1
    BY <1>1, <1>3
  <2>. QED
    BY <1>1, <2>1, <2>2 DEF After
<1>6. \A other : After(place, lines, taken, other) => After(place, lines, more, other)
  BY <1>1, <1>2 DEF After
<1>. QED
  BY <1>4, <1>5, <1>6 DEF more

(* The line taken last of those awaited is shown. *)
LEMMA PlacedNext ==
  ASSUME NEW S, NEW lines \in Seq(S), NEW taken \in Seq(S), NEW line \in S, NEW place,
         Places(place, lines, taken), After(place, lines, taken, line)
  PROVE  \E next : Places(next, Append(lines, line), taken)
<1>. DEFINE more == Append(lines, line)
            l == Len(lines)
<1>1. /\ DOMAIN lines = 1..l /\ DOMAIN more = 1..l + 1 /\ l \in Nat
      /\ \A n \in DOMAIN lines : more[n] = lines[n]
      /\ more[l + 1] = line
  OBVIOUS
<1>. HIDE DEF more, l
<1>2. PICK i \in DOMAIN taken : taken[i] = line /\ \A n \in DOMAIN lines : place[n] < i
  BY DEF After
<1>. DEFINE next == [n \in DOMAIN more |-> IF n \in DOMAIN lines THEN place[n] ELSE i]
<1>3. \A n \in DOMAIN lines : place[n] \in DOMAIN taken
  BY DEF Places
<1>4. next \in [DOMAIN more -> DOMAIN taken]
  BY <1>2, <1>3
<1>5. \A m, n \in DOMAIN more : m < n => next[m] < next[n]
  <2>. SUFFICES ASSUME NEW m \in DOMAIN more, NEW n \in DOMAIN more, m < n
                PROVE  next[m] < next[n]
    OBVIOUS
  <2>1. m \in DOMAIN lines
    BY <1>1
  <2>2. CASE n \in DOMAIN lines
    BY <2>1, <2>2 DEF Places
  <2>3. CASE n \notin DOMAIN lines
    BY <1>2, <2>1, <2>3
  <2>. QED
    BY <2>2, <2>3
<1>6. \A n \in DOMAIN more : more[n] = taken[next[n]]
  <2>. SUFFICES ASSUME NEW n \in DOMAIN more PROVE more[n] = taken[next[n]]
    OBVIOUS
  <2>1. CASE n \in DOMAIN lines
    BY <1>1, <2>1 DEF Places
  <2>2. CASE n \notin DOMAIN lines
    <3>1. n = l + 1
      BY <1>1, <2>2
    <3>. QED
      BY <1>1, <1>2, <2>2, <3>1
  <2>. QED
    BY <2>1, <2>2
<1>7. Places(next, more, taken)
  BY <1>4, <1>5, <1>6 DEF Places
<1>. QED
  BY <1>7 DEF more

LEMMA EchoStep ==
  ASSUME Next, CallTypes, RoomTypeOK, Waits(calls, posting, sending, {"ingest"}), EchoPlaced
  PROVE  EchoPlaced'
<1>0. history \in Seq(Line) /\ ingested \in Seq(Line) /\ posting \in SUBSET Slot
  BY DEF RoomTypeOK
<1>1. PICK place :
        /\ Places(place, history, ingested)
        /\ \A s \in posting : calls[s].answer = "ok" =>
             After(place, history, ingested, calls[s].line)
  BY DEF EchoPlaced
<1>2. ASSUME NEW next, Places(next, history', ingested'),
             \A s \in posting' : calls'[s].answer = "ok" =>
               After(next, history', ingested', calls'[s].line)
      PROVE  EchoPlaced'
  BY <1>2 DEF EchoPlaced
<1>3. ASSUME history' = <<>>, posting' = {} PROVE EchoPlaced'
  BY <1>2, <1>3, NothingPlaced
<1>4. ASSUME UNCHANGED <<history, ingested>>, posting' \subseteq posting,
             \A s \in posting' : calls'[s] = calls[s]
      PROVE  EchoPlaced'
  BY <1>1, <1>2, <1>4
<1>5. ASSUME ClearLogs PROVE EchoPlaced'
  <2>1. history' = <<>> /\ UNCHANGED <<posting, calls, ingested>>
    BY <1>5 DEF ClearLogs
  <2>2. \A line : After(place, history, ingested, line) => After(<<>>, <<>>, ingested, line)
    BY DEF After
  <2>. QED
    BY <1>1, <1>2, <2>1, <2>2, NothingPlaced
<1>6. ASSUME handleSend PROVE EchoPlaced'
  <2>1. PICK s \in Slot :
          /\ calls' = [calls EXCEPT ![s] =
               [op |-> "ingest", answer |-> None,
                line |-> [senderId |-> getSenderId, role |-> senderRole]]]
          /\ posting' = posting \cup {s}
    BY <1>6 DEF handleSend
  <2>2. posting = {} /\ UNCHANGED <<history, ingested>>
    BY <1>6 DEF handleSend, MaySend, Waits
  <2>3. calls'[s].answer # "ok"
    BY <2>1, PagesAssumption DEF CallTypes
  <2>. QED
    BY <1>1, <1>2, <2>1, <2>2, <2>3
<1>7. ASSUME NEW s \in Slot, AnswerIngest(s) PROVE EchoPlaced'
  <2>. DEFINE line == calls[s].line
  <2>1. /\ Only(s) /\ UNCHANGED <<posting, history>> /\ ingested' = Append(ingested, line)
        /\ calls' = [calls EXCEPT ![s] = [calls[s] EXCEPT !.answer = "ok"]]
    BY <1>7 DEF AnswerIngest, roomVars, CallTypes, Only
  <2>2. calls[s] \in IngestRecord
    BY <1>7 DEF AnswerIngest, CallTypes, CallRecord, LoginRecord, LoadRecord,
                AcknowledgeRecord, AnalyseRecord, ChangeRecord
  <2>3. line \in Line /\ calls'[s].line = line
    <3>1. calls'[s] = [calls[s] EXCEPT !.answer = "ok"]
      BY <2>1 DEF CallTypes
    <3>. QED
      BY <2>2, <3>1 DEF IngestRecord
  <2>. HIDE DEF line
  <2>4. /\ Places(place, history, ingested')
        /\ After(place, history, ingested', line)
        /\ \A other : After(place, history, ingested, other) =>
                        After(place, history, ingested', other)
    BY <1>0, <1>1, <2>1, <2>3, PlacesKept
  <2>5. ASSUME NEW t \in posting', calls'[t].answer = "ok"
        PROVE  After(place, history, ingested', calls'[t].line)
    <3>1. CASE t = s
      BY <2>3, <2>4, <3>1
    <3>2. CASE t # s
      <4>1. calls'[t] = calls[t] /\ t \in posting
        BY <1>0, <2>1, <3>2 DEF Only
      <4>. QED
        BY <1>1, <2>4, <2>5, <4>1
    <3>. QED
      BY <3>1, <3>2
  <2>. QED
    BY <1>2, <2>1, <2>4, <2>5
<1>8. ASSUME NEW s \in Slot, Sent(s) PROVE EchoPlaced'
  <2>. DEFINE line == calls[s].line
  <2>1. Only(s) /\ posting' = posting \ {s} /\ UNCHANGED ingested /\ calls[s].answer = "ok"
    BY <1>8 DEF Sent, CallTypes, Only, Return
  <2>2. CASE s \notin posting
    <3>1. UNCHANGED history /\ posting' = posting
      BY <1>8, <2>1, <2>2 DEF Sent
    <3>. QED
      BY <1>0, <1>4, <2>1, <2>2, <3>1 DEF Only
  <2>3. CASE s \in posting
    <3>1. history' = Append(history, line) /\ posting' = {}
      BY <1>8, <2>1, <2>3 DEF Sent, Waits
    <3>2. line \in Line
      <4>1. calls[s] \in IngestRecord
        BY <1>8 DEF Sent, CallTypes, CallRecord, LoginRecord, LoadRecord,
                    AcknowledgeRecord, AnalyseRecord, ChangeRecord
      <4>. QED
        BY <4>1 DEF IngestRecord
    <3>3. After(place, history, ingested, line)
      BY <1>1, <2>1, <2>3
    <3>. HIDE DEF line
    <3>4. PICK next : Places(next, Append(history, line), ingested)
      BY <1>0, <1>1, <3>2, <3>3, PlacedNext
    <3>. QED
      BY <1>2, <2>1, <3>1, <3>4
  <2>. QED
    BY <2>2, <2>3
<1>9. ASSUME NEW s \in Slot, SendFailed(s) PROVE EchoPlaced'
  <2>1. Only(s) /\ posting' = posting \ {s} /\ UNCHANGED <<history, ingested>>
    BY <1>9 DEF SendFailed, CallTypes, Only, Return
  <2>. QED
    BY <1>0, <1>4, <2>1 DEF Only
<1>10. CASE RoomStep
  BY <1>4, <1>5, <1>6, <1>7, <1>8, <1>9, <1>10
  DEF RoomStep, SelectChild, SelectRole, EnterMessage
<1>11. ASSUME FollowRoom \/ UNCHANGED roomVars, UNCHANGED ingested, Beside({"ingest"})
       PROVE  EchoPlaced'
  <2>1. \A s \in posting : calls'[s] = calls[s]
    BY <1>0, <1>11 DEF Waits, Beside
  <2>2. (history' = <<>> /\ posting' = {}) \/ UNCHANGED <<history, posting>>
    BY <1>11 DEF FollowRoom, roomVars
  <2>. QED
    BY <1>3, <1>4, <1>11, <2>1, <2>2
<1>. QED
  BY <1>10, <1>11, FormMoves

LEMMA EchoShown ==
  ASSUME RoomTypeOK, EchoPlaced
  PROVE  EchoedInOrder
<1>. DEFINE k == Len(history)
<1>1. /\ history \in Seq(Line) /\ ingested \in Seq(Line) /\ DOMAIN history = 1..k /\ k \in Nat
      /\ history = [n \in 1..k |-> history[n]]
  BY DEF RoomTypeOK
<1>2. PICK place : Places(place, history, ingested)
  BY DEF EchoPlaced
<1>. HIDE DEF k
<1>3. /\ place \in [1..k -> DOMAIN ingested]
      /\ \A m, n \in 1..k : m < n => place[m] < place[n]
      /\ \A n \in 1..k : history[n] = ingested[place[n]]
  BY <1>1, <1>2 DEF Places
<1>4. Sublist(ingested, Values(place, k)) = [n \in 1..k |-> ingested[place[n]]]
  BY <1>1, <1>3, RisingSublist
<1>5. Values(place, k) \in SUBSET DOMAIN ingested
  BY <1>3 DEF Values
<1>6. history = Sublist(ingested, Values(place, k))
  BY <1>1, <1>3, <1>4
<1>. QED
  BY <1>5, <1>6 DEF EchoedInOrder

-----------------------------------------------------------------------------
(* The sums of the first page *)

LEMMA PairsCounted ==
  ASSUME NEW count, NEW p
  PROVE  p \in UNION {{x} \X (1..count[x]) : x \in DOMAIN count}
           <=> \E x \in DOMAIN count : \E n \in 1..count[x] : p = <<x, n>>
<1>1. ASSUME NEW x PROVE p \in {x} \X (1..count[x]) <=> \E n \in 1..count[x] : p = <<x, n>>
  OBVIOUS
<1>2. p \in UNION {{x} \X (1..count[x]) : x \in DOMAIN count}
        <=> \E x \in DOMAIN count : p \in {x} \X (1..count[x])
  OBVIOUS
<1>. QED
  BY <1>1, <1>2, Zenon

(* The members of a set are counted by any key: each is the n-th of those  *)
(* with its key, for one n.                                                *)
LEMMA CountedByKey ==
  ASSUME NEW I \in SUBSET Nat, IsFiniteSet(I), NEW D, NEW key \in [I -> D]
  PROVE  Total([x \in D |-> Cardinality({i \in I : key[i] = x})]) = Cardinality(I)
<1>. DEFINE Part(x) == {i \in I : key[i] = x}
            Place(i) == Cardinality(Earlier(Part(key[i]), i)) + 1
            count == [x \in D |-> Cardinality(Part(x))]
            pairs == UNION {{x} \X (1..count[x]) : x \in DOMAIN count}
            g == [i \in I |-> <<key[i], Place(i)>>]
<1>1. ASSUME NEW x \in D
      PROVE  Part(x) \in SUBSET Nat /\ IsFiniteSet(Part(x))
  BY FS_Subset
<1>2. ASSUME NEW i \in I
      PROVE  /\ Place(i) \in 1..Cardinality(Part(key[i]))
             /\ i = Nth(Part(key[i]), Place(i))
  <2>1. key[i] \in D /\ i \in Part(key[i])
    OBVIOUS
  <2>2. Part(key[i]) \in SUBSET Nat /\ IsFiniteSet(Part(key[i]))
    BY <1>1, <2>1
  <2>. DEFINE part == Part(key[i])
  <2>3. i \in part /\ part \in SUBSET Nat /\ IsFiniteSet(part)
    BY <2>1, <2>2
  <2>. HIDE DEF part
  <2>4. PICK n \in 1..Cardinality(part) : Nth(part, n) = i
    BY <2>3, NthKept
  <2>5. Cardinality(Earlier(part, i)) = n - 1
    BY <2>3, <2>4, NthKept
  <2>6. Cardinality(Earlier(part, i)) + 1 = n
    BY <2>4, <2>5
  <2>. QED
    BY <2>4, <2>6 DEF part
<1>3. ASSUME NEW x \in D, NEW n \in 1..Cardinality(Part(x))
      PROVE  /\ Nth(Part(x), n) \in I /\ key[Nth(Part(x), n)] = x
             /\ Place(Nth(Part(x), n)) = n
  <2>. DEFINE part == Part(x)
  <2>1. part \in SUBSET Nat /\ IsFiniteSet(part)
    BY <1>1
  <2>2. part = Part(x) /\ n \in 1..Cardinality(part)
    OBVIOUS
  <2>. HIDE DEF part
  <2>3. Nth(part, n) \in part /\ Cardinality(Earlier(part, Nth(part, n))) = n - 1
    BY <2>1, <2>2, NthKept
  <2>4. Nth(part, n) \in I /\ key[Nth(part, n)] = x
    BY <2>2, <2>3
  <2>5. Part(key[Nth(part, n)]) = part
    BY <2>2, <2>4
  <2>6. Place(Nth(part, n)) = n - 1 + 1
    BY <2>3, <2>5
  <2>. QED
    BY <2>2, <2>4, <2>6
<1>. HIDE DEF Place
<1>. HIDE DEF Part
<1>4. \A p : p \in pairs <=> \E x \in D : \E n \in 1..Cardinality(Part(x)) : p = <<x, n>>
  <2>1. DOMAIN count = D /\ \A x \in D : count[x] = Cardinality(Part(x))
    OBVIOUS
  <2>. HIDE DEF count
  <2>2. \A p : p \in pairs <=> \E x \in DOMAIN count : \E n \in 1..count[x] : p = <<x, n>>
    BY PairsCounted
  <2>. HIDE DEF pairs
  <2>. QED
    BY <2>1, <2>2
<1>. HIDE DEF pairs
<1>5. \A p \in pairs : \E x \in D : \E n \in 1..Cardinality(Part(x)) : p = <<x, n>>
  BY <1>4
<1>6. g \in [I -> pairs]
  <2>1. \A i \in I : <<key[i], Place(i)>> \in pairs
    BY <1>2, <1>4
  <2>. QED
    BY <2>1
<1>7. \A i, j \in I : g[i] = g[j] => i = j
  BY <1>2
<1>8. \A p \in pairs : \E i \in I : g[i] = p
  <2>. SUFFICES ASSUME NEW p \in pairs PROVE \E i \in I : g[i] = p
    OBVIOUS
  <2>1. PICK x \in D : \E n \in 1..Cardinality(Part(x)) : p = <<x, n>>
    BY <1>5
  <2>2. PICK n \in 1..Cardinality(Part(x)) : p = <<x, n>>
    BY <2>1
  <2>. QED
    BY <1>3, <2>2
<1>9. g \in Bijection(I, pairs)
  BY <1>6, <1>7, <1>8 DEF Bijection, Injection, Surjection, IsInjective
<1>10. Cardinality(pairs) = Cardinality(I)
  BY <1>9, FS_Bijection DEF ExistsBijection
<1>. QED
  BY <1>10 DEF Total, pairs, Part

LEMMA AlertAt ==
  ASSUME NEW list \in Seq(Entry), NEW i \in DOMAIN list
  PROVE  list[i].id \in AlertId /\ list[i].acknowledged \in BOOLEAN
<1>1. list[i] \in Entry
  OBVIOUS
<1>. QED
  BY <1>1 DEF Entry

(* The chart has a bar for every weekday, whatever today is. *)
LEMMA WholeWeek ==
  ASSUME NEW today \in 0..6
  PROVE  weekdaysShown(today) = 0..6
<1>1. weekdaysShown(today) \subseteq 0..6
  BY DEF weekdaysShown
<1>2. ASSUME NEW day \in 0..6 PROVE \E i \in 0..6 : day = (today + 7 - i) % 7
  <2>1. CASE day <= today
    <3>1. today - day \in 0..6 /\ (today + 7 - (today - day)) % 7 = day
      BY <2>1
    <3>. QED
      BY <3>1
  <2>2. CASE day > today
    <3>1. today + 7 - day \in 0..6 /\ (today + 7 - (today + 7 - day)) % 7 = day
      BY <2>2
    <3>. QED
      BY <3>1
  <2>. QED
    BY <2>1, <2>2
<1>. QED
  BY <1>1, <1>2 DEF weekdaysShown

LEMMA TrendSum ==
  ASSUME alerts \in Seq(Entry), NEW today \in 0..6
  PROVE  /\ Total(getAlertsTrendData(today)) = Len(alerts)
         /\ \A i \in DOMAIN alerts : DayOf[alerts[i].id] % 7 \in 0..6
<1>. DEFINE I == DOMAIN alerts
            D == 0..6
            key == [i \in I |-> DayOf[alerts[i].id] % 7]
            Part(x) == {i \in I : key[i] = x}
<1>1. I \in SUBSET Nat /\ IsFiniteSet(I) /\ Cardinality(I) = Len(alerts)
  BY FiniteDomain
<1>2. ASSUME NEW i \in I PROVE DayOf[alerts[i].id] % 7 \in 0..6
  <2>1. DayOf[alerts[i].id] \in Nat
    BY AlertAt, HomeAssumption
  <2>. QED
    BY <2>1
<1>3. key \in [I -> D]
  BY <1>2
<1>4. getAlertsTrendData(today) = [x \in D |-> Cardinality(Part(x))]
  <2>1. \A x : {i \in I : DayOf[alerts[i].id] % 7 = x} = Part(x)
    OBVIOUS
  <2>. HIDE DEF I, key, Part
  <2>2. getAlertsTrendData(today) =
          [x \in D |-> Cardinality({i \in I : DayOf[alerts[i].id] % 7 = x})]
    BY WholeWeek DEF getAlertsTrendData, I
  <2>. QED
    BY <2>1, <2>2
<1>. HIDE DEF key, D, I
<1>5. Total([x \in D |-> Cardinality(Part(x))]) = Cardinality(I)
  BY <1>1, <1>3, CountedByKey
<1>. HIDE DEF Part
<1>6. Total(getAlertsTrendData(today)) = Len(alerts)
  BY <1>1, <1>4, <1>5
<1>. QED
  BY <1>2, <1>6 DEF I

LEMMA HighestBarFull ==
  ASSUME alerts \in Seq(Entry), alerts # <<>>, NEW today \in 0..6
  PROVE  \E day \in DOMAIN getAlertsTrendData(today) : barHeights(today)[day] = 100
<1>. DEFINE bars == getAlertsTrendData(today)
            OnDay(day) == {i \in DOMAIN alerts : DayOf[alerts[i].id] % 7 = day}
            values == {1} \cup {bars[day] : day \in DOMAIN bars}
<1>1. DOMAIN bars = 0..6 /\ \A day \in 0..6 : bars[day] = Cardinality(OnDay(day))
  BY WholeWeek DEF getAlertsTrendData
<1>2. IsFiniteSet(DOMAIN alerts) /\ Cardinality(DOMAIN alerts) = Len(alerts)
  BY FiniteDomain
<1>3. Len(alerts) \in Nat \ {0} /\ 1 \in DOMAIN alerts
  OBVIOUS
<1>. HIDE DEF bars
<1>4. ASSUME NEW day \in 0..6 PROVE bars[day] \in 0..Len(alerts) /\ IsFiniteSet(OnDay(day))
  <2>0. OnDay(day) \subseteq DOMAIN alerts
    OBVIOUS
  <2>. HIDE DEF OnDay
  <2>1. IsFiniteSet(OnDay(day)) /\ Cardinality(OnDay(day)) <= Len(alerts)
    BY <1>2, <2>0, FS_Subset
  <2>2. Cardinality(OnDay(day)) \in Nat
    BY <2>1, FS_CardinalityType
  <2>. QED
    BY <1>1, <1>3, <2>1, <2>2
<1>5. PICK some \in 0..6 : bars[some] >= 1
  <2>1. PICK some \in 0..6 : 1 \in OnDay(some)
    BY <1>3, TrendSum
  <2>2. OnDay(some) # {} /\ IsFiniteSet(OnDay(some))
    BY <1>4, <2>1
  <2>. HIDE DEF OnDay
  <2>3. Cardinality(OnDay(some)) \in Nat /\ Cardinality(OnDay(some)) # 0
    BY <2>2, FS_EmptySet, FS_CardinalityType
  <2>. QED
    BY <1>1, <2>3
<1>. HIDE DEF OnDay
<1>6. values \in SUBSET Nat /\ IsFiniteSet(values) /\ values # {}
  <2>1. values \subseteq 0..Len(alerts)
    BY <1>1, <1>3, <1>4
  <2>2. IsFiniteSet(0..Len(alerts))
    BY <1>3, FS_Interval
  <2>3. IsFiniteSet(values)
    BY <2>1, <2>2, FS_Subset
  <2>. QED
    BY <1>3, <2>1, <2>3
<1>7. PICK greatest \in values : \A x \in values : greatest >= x
  BY <1>6, GreatestMember
<1>8. Max(values) \in values /\ \A x \in values : Max(values) >= x
  BY <1>7 DEF Max
<1>9. Max(values) \in Nat \ {0}
  BY <1>6, <1>8
<1>10. PICK day \in 0..6 : bars[day] = Max(values)
  <2>1. CASE Max(values) = 1
    <3>1. bars[some] \in values /\ bars[some] \in 0..Len(alerts)
      BY <1>1, <1>4
    <3>. QED
      BY <1>5, <1>8, <2>1, <3>1
  <2>2. CASE Max(values) # 1
    BY <1>1, <1>8, <2>2
  <2>. QED
    BY <2>1, <2>2
<1>11. (100 * Max(values)) \div Max(values) = 100
  <2>. DEFINE x == Max(values)
  <2>1. x \in Nat \ {0}
    BY <1>9
  <2>. HIDE DEF x
  <2>2. (100 * x) \div x = 100
    BY <2>1
  <2>. QED
    BY <2>2 DEF x
<1>12. barHeights(today) = [d \in DOMAIN bars |-> (100 * bars[d]) \div Max(values)]
  BY DEF barHeights, bars
<1>. QED
  BY <1>1, <1>10, <1>11, <1>12 DEF bars

LEMMA ScoreAddsUp ==
  ASSUME alerts \in Seq(Entry)
  PROVE  safetyScore.shown = 100 <=> unreadAlertsCount = 0
<1>. DEFINE unread == {i \in DOMAIN alerts : ~alerts[i].acknowledged}
<1>1. IsFiniteSet(unread)
  BY FiniteDomain, FS_Subset
<1>2. unreadAlertsCount \in Nat
  BY <1>1, FS_CardinalityType DEF unreadAlertsCount
<1>. QED
  BY <1>2 DEF safetyScore

LEMMA PlatformsSum ==
  ASSUME alerts \in Seq(Entry)
  PROVE  Total([platform \in DOMAIN monitoredPlatforms |->
                  monitoredPlatforms[platform].active]) =
           Cardinality({i \in DOMAIN alerts :
             ~alerts[i].acknowledged
               /\ PlatformOf[alerts[i].id] \in DOMAIN monitoredPlatforms})
<1>. DEFINE D == DOMAIN monitoredPlatforms
            I == {i \in DOMAIN alerts :
                    ~alerts[i].acknowledged /\ PlatformOf[alerts[i].id] \in D}
            key == [i \in I |-> PlatformOf[alerts[i].id]]
            Part(x) == {i \in I : key[i] = x}
            active == [platform \in D |-> monitoredPlatforms[platform].active]
<1>1. I \in SUBSET Nat /\ IsFiniteSet(I)
  <2>1. IsFiniteSet(DOMAIN alerts) /\ I \subseteq DOMAIN alerts /\ DOMAIN alerts \subseteq Nat
    BY FiniteDomain
  <2>. QED
    BY <2>1, FS_Subset
<1>2. key \in [I -> D]
  OBVIOUS
<1>3. ASSUME NEW platform \in D
      PROVE  monitoredPlatforms[platform].active = Cardinality(Part(platform))
  <2>1. monitoredPlatforms[platform].active =
          Cardinality({i \in DOMAIN alerts :
            PlatformOf[alerts[i].id] = platform /\ ~alerts[i].acknowledged})
    BY DEF monitoredPlatforms
  <2>2. {i \in DOMAIN alerts : PlatformOf[alerts[i].id] = platform /\ ~alerts[i].acknowledged}
          = Part(platform)
    OBVIOUS
  <2>. QED
    BY <2>1, <2>2
<1>4. active = [x \in D |-> Cardinality(Part(x))]
  BY <1>3
<1>. HIDE DEF key, D, I
<1>5. Total([x \in D |-> Cardinality(Part(x))]) = Cardinality(I)
  BY <1>1, <1>2, CountedByKey
<1>. QED
  BY <1>4, <1>5 DEF D, I

LEMMA HomeSums ==
  ASSUME alerts \in Seq(Entry)
  PROVE  HomeAddsUp
<1>1. \A today \in 0..6 : Total(getAlertsTrendData(today)) = Len(alerts)
  BY TrendSum
<1>2. \A today \in 0..6 :
        alerts # <<>> =>
          \E day \in DOMAIN getAlertsTrendData(today) : barHeights(today)[day] = 100
  BY HighestBarFull
<1>. QED
  BY <1>1, <1>2, ScoreAddsUp, PlatformsSum DEF HomeAddsUp

-----------------------------------------------------------------------------
(* The inductive invariant *)
DashboardInv == TypeOK /\ SocketsAgree /\ RecordsTrue /\ FormsWait /\ EchoPlaced

LEMMA StartTrue ==
  ASSUME Init
  PROVE  RecordsTrue
<1>. DEFINE I == Known
            A == Reviewed
<1>1. /\ stored \in Seq(Entry)
      /\ \A i, j \in DOMAIN stored : stored[i].id = stored[j].id => i = j
      /\ \A i \in DOMAIN stored : \A n \in DOMAIN stored[i].detectedStages :
           stored[i].detectedStages[n].alert = stored[i].id
  BY StartsAssumption DEF Init, AppInit
<1>2. \A i \in DOMAIN stored :
        /\ stored[i] \in Entry /\ stored[i].id \in I
        /\ stored[i].acknowledged => stored[i].id \in A
  BY <1>1 DEF Known, Reviewed, Ids, Acked
<1>3. \A i \in DOMAIN stored : Belongs(stored[i].detectedStages, stored[i].id)
  BY <1>1, <1>2 DEF Belongs, Entry
<1>. HIDE DEF I, A
<1>4. FineList(I, A, stored)
  BY <1>1, <1>2, <1>3 DEF FineList, Fine
<1>5. FineList(I, A, <<>>)
  BY DEF FineList
<1>6. FineCalls(I, A, calls)
  BY DEF FineCalls, Init, AppInit
<1>. QED
  BY <1>4, <1>5, <1>6 DEF RecordsTrue, HeldTrue, Init, AppInit, I, A

LEMMA StartTyped ==
  ASSUME Init
  PROVE  TypeOK
<1>1. PICK start \in Starts :
        stored = start.stored /\ family = start.family /\ budget = start.bounds
  BY DEF Init, AppInit
<1>2. stored \in Seq(Entry) /\ family \subseteq Child /\ budget \in [Event -> Nat]
  BY <1>1, StartsAssumption
<1>3. Bounded
  <2>1. budget["checks"] \in Nat
    BY <1>2 DEF Event
  <2>. QED
    BY <1>2, <2>1 DEF Bounded, Init, AppInit
<1>4. PlainTypes
  BY <1>2, ViewTypes DEF PlainTypes, Init, AppInit, Interval
<1>5. SocketTypes
  BY DEF SocketTypes, Phase, Init, AppInit
<1>6. alerts \in Seq(Entry) /\ opening \subseteq Entry /\ CallTypes
  BY DEF CallTypes, Init, AppInit
<1>7. AppTypeOK
  BY <1>2, <1>3, <1>4, <1>5, <1>6 DEF AppTypeOK, PlainTypes, SocketTypes, Bounded
<1>8. AuthTypeOK /\ SettingsTypeOK /\ SidebarTypeOK
  BY DEF Init, AuthInit, AuthFresh, AuthTypeOK, SettingsTypeOK, SidebarTypeOK
<1>9. ListTypeOK
  BY DEF Init, ListFresh, NoFilter, NewestFirst, ListTypeOK, Selections, All
<1>10. DetailTypeOK
  BY DEF Init, DetailFresh, FreshPanel, DetailTypeOK, Panel
<1>11. ChildrenTypeOK
  BY DEF Init, ChildrenFresh, ChildrenTypeOK
<1>12. RoomTypeOK
  <2>1. history \in Seq(Line) /\ ingested \in Seq(Line)
    BY DEF Init, RoomFresh
  <2>. QED
    BY <2>1 DEF Init, RoomFresh, RoomTypeOK, Role
<1>. QED
  BY <1>6, <1>7, <1>8, <1>9, <1>10, <1>11, <1>12 DEF TypeOK, CallTypes

LEMMA DashboardStarts ==
  ASSUME Init
  PROVE  DashboardInv
<1>1. SocketsAgree
  BY DEF SocketsAgree, Open, Init, AppInit
<1>2. FormsWait
  <2>1. /\ submitted = {} /\ changing = {} /\ posting = {} /\ mine = {}
        /\ authorizing = FALSE /\ saving = FALSE /\ sending = FALSE
        /\ panel.isAnalyzing = FALSE
    BY DEF Init, AuthInit, AuthFresh, ChildrenFresh, RoomFresh, DetailFresh, FreshPanel
  <2>. QED
    BY <2>1, WaitsNone DEF FormsWait
<1>3. EchoPlaced
  <2>1. history = <<>> /\ posting = {}
    BY DEF Init, RoomFresh
  <2>. QED
    BY <2>1, NothingPlaced DEF EchoPlaced
<1>. QED
  BY <1>1, <1>2, <1>3, StartTrue, StartTyped DEF DashboardInv

LEMMA DashboardSteps ==
  ASSUME DashboardInv, [Next]_vars
  PROVE  DashboardInv'
<1>1. CASE Next
  <2>0. /\ SocketTypes /\ RecordTypes /\ CallTypes /\ AppTypeOK /\ AuthTypeOK /\ ListTypeOK
        /\ DetailTypeOK /\ ChildrenTypeOK /\ RoomTypeOK
    BY TypesAgree DEF DashboardInv
  <2>1. RecordsTrue'
    BY <1>1, <2>0, RecordsStep DEF DashboardInv
  <2>2. TypeOK'
    BY <1>1, <2>1, TypesStep DEF DashboardInv
  <2>3. SocketsAgree'
    BY <1>1, <2>0, SocketsMove, SocketsStep DEF DashboardInv
  <2>4. CallTypes'
    BY <2>2 DEF TypeOK, CallTypes
  <2>5. FormsWait'
    BY <1>1, <2>0, <2>4, FormsStep DEF DashboardInv
  <2>6. EchoPlaced'
    BY <1>1, <2>0, EchoStep DEF DashboardInv, FormsWait
  <2>. QED
    BY <2>1, <2>2, <2>3, <2>5, <2>6 DEF DashboardInv
<1>2. CASE UNCHANGED vars
  <2>1. /\ UNCHANGED <<session, shown, activeView, toasts, settings, socketVars, opening>>
        /\ UNCHANGED <<notified, checks, backend, calls, budget>>
        /\ UNCHANGED <<authVars, listVars, detailVars, childrenVars, roomVars>>
        /\ UNCHANGED <<ingested, asking, isOpen>>
    BY <1>2 DEF vars, appVars, rest
  <2>2. /\ UNCHANGED <<sessionId, token, loads, children, alerts, isLoading, error>>
        /\ UNCHANGED <<phase, running, addressed, socketRef, wire, stored, family, gone>>
        /\ UNCHANGED <<pairing, mode, authorizing, submitted, filter, sorting, currentPage>>
        /\ UNCHANGED <<activeTab, panel, progress, mine>>
        /\ UNCHANGED <<draft, editing, confirming, saving, changing>>
        /\ UNCHANGED <<selectedChild, senderRole, message, sending, history, posting>>
    BY <2>1
    DEF session, shown, socketVars, backend, authVars, listVars, detailVars, childrenVars,
        roomVars
  <2>3. TypeOK'
    <3>1. AppTypeOK => AppTypeOK'
      BY <2>1, <2>2 DEF AppTypeOK
    <3>2. (AuthTypeOK => AuthTypeOK') /\ (ListTypeOK => ListTypeOK')
      BY <2>2 DEF AuthTypeOK, ListTypeOK
    <3>3. DetailTypeOK => DetailTypeOK'
      BY <2>2 DEF DetailTypeOK
    <3>4. ChildrenTypeOK => ChildrenTypeOK'
      BY <2>2 DEF ChildrenTypeOK
    <3>5. RoomTypeOK => RoomTypeOK'
      BY <2>1, <2>2 DEF RoomTypeOK
    <3>6. (SettingsTypeOK => SettingsTypeOK') /\ (SidebarTypeOK => SidebarTypeOK')
      BY <2>1 DEF SettingsTypeOK, SidebarTypeOK
    <3>. QED
      BY <2>1, <3>1, <3>2, <3>3, <3>4, <3>5, <3>6 DEF DashboardInv, TypeOK
  <2>4. SocketsAgree' /\ RecordsTrue'
    <3>1. SocketsAgree => SocketsAgree'
      BY <2>2 DEF SocketsAgree
    <3>2. RecordsTrue => RecordsTrue'
      BY <2>1, <2>2, PageKeepsTruth, TypesAgree
      DEF DashboardInv, PageMoves, AlertsMoves, OpeningMoves, CallMoves
    <3>. QED
      BY <3>1, <3>2 DEF DashboardInv
  <2>5. FormsWait' /\ EchoPlaced'
    BY <2>1, <2>2 DEF DashboardInv, FormsWait, EchoPlaced, Waits, Places, After
  <2>. QED
    BY <2>3, <2>4, <2>5 DEF DashboardInv
<1>. QED
  BY <1>1, <1>2

-----------------------------------------------------------------------------
(* The types, the one socket and its effect, the truth of what the page    *)
(* holds, the forms and their calls, and the places of the test chat's     *)
(* lines are together preserved by every callback of the page.             *)
THEOREM DashboardInvariant == Spec => []DashboardInv
<1>. QED
  BY DashboardStarts, DashboardSteps, PTL DEF Spec

(* The dashboard's state has its types, also the calls in flight and what  *)
(* the handlers that await them have kept (App.tsx and its pages).         *)
THEOREM DashboardTypeCorrect == Spec => []TypeOK
<1>1. DashboardInv => TypeOK
  BY DEF DashboardInv
<1>. QED
  BY <1>1, DashboardInvariant, PTL

(* App.tsx's socket effect: only the effect that runs ever has a socket,   *)
(* so no alert is announced by two, whatever timers and drops do.          *)
THEOREM OneSocketAlways == Spec => []OneSocket
<1>1. DashboardInv => OneSocket
  BY OneRunning DEF DashboardInv
<1>. QED
  BY <1>1, DashboardInvariant, PTL

(* Neither live frames nor loads, acknowledgements and analyses that end   *)
(* late ever list an alert twice.                                          *)
THEOREM AlertsStayDistinct == Spec => []AlertsDistinct
<1>1. DashboardInv => AlertsDistinct
  BY TruthShown DEF DashboardInv
<1>. QED
  BY <1>1, DashboardInvariant, PTL

(* No alert is shown as reviewed that the backend does not hold as         *)
(* reviewed: every copy the page, its sockets or its calls keep of an      *)
(* alert says so only if the backend does, which never takes it back.      *)
THEOREM AcknowledgedIsReal == Spec => []ShownAckIsReal
<1>1. DashboardInv => ShownAckIsReal
  BY TruthShown DEF DashboardInv
<1>. QED
  BY <1>1, DashboardInvariant, PTL

(* Stages are shown with the alert they were found in, also when an        *)
(* analysis ends after the parent has gone on to another alert.            *)
THEOREM StagesBelongToAlert == Spec => []StagesBelong
<1>1. DashboardInv => StagesBelong
  BY TruthShown DEF DashboardInv
<1>. QED
  BY <1>1, DashboardInvariant, PTL

(* AlertsPage.tsx clamps the page it shows, so a list with matches never   *)
(* shows an empty page, for any number of rows to a page.                  *)
THEOREM PageShowsRows == Spec => []PageNotEmpty
<1>1. DashboardInv => PageNotEmpty
  <2>1. TypeOK => alerts \in Seq(Entry) /\ currentPage \in Nat \ {0}
    BY DEF TypeOK, AppTypeOK, ListTypeOK
  <2>. QED
    BY <2>1, PageHasRow DEF DashboardInv
<1>. QED
  BY <1>1, DashboardInvariant, PTL

(* Each form of the dashboard is busy exactly while the one call it made   *)
(* is in flight, also after logout, unmounting and late answers.           *)
THEOREM FormsBusyForTheirCall == Spec => []BusyIsOwnCall
<1>1. DashboardInv => BusyIsOwnCall
  BY FormsBusy DEF DashboardInv
<1>. QED
  BY <1>1, DashboardInvariant, PTL

(* The test chat shows lines the backend took, in the order it took them.  *)
THEOREM ChatEchoesInOrder == Spec => []EchoedInOrder
<1>1. DashboardInv => EchoedInOrder
  BY EchoShown DEF DashboardInv, TypeOK
<1>. QED
  BY <1>1, DashboardInvariant, PTL

(* DashboardView.tsx: on any day and for any alerts, each of them is in    *)
(* one bar and the highest bar is full, the score is full only without an  *)
(* unread alert, and the platforms' counts leave out and repeat none.      *)
THEOREM FirstPageAddsUp == Spec => []HomeAddsUp
<1>1. DashboardInv => HomeAddsUp
  BY HomeSums DEF DashboardInv, TypeOK, AppTypeOK
<1>. QED
  BY <1>1, DashboardInvariant, PTL
=============================================================================
