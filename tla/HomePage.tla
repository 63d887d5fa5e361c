------------------------------- MODULE HomePage -------------------------------
(***************************************************************************)
(* The dashboard's first page (DashboardView.tsx): counts, the trend by    *)
(* weekday, the score, the platforms and the most recent alerts, all       *)
(* derived from the root component's data; and the counter beside the      *)
(* sidebar's entry.                                                        *)
(***************************************************************************)
EXTENDS AlertsPage

CONSTANTS
  DayOf,        \* the day each alert was raised, counted from a Sunday
  AccountOn     \* the platform of each child account

ASSUME HomeAssumption == DayOf \in [AlertId -> Nat]

OnHome == Screen = "dashboard"

unreadAlertsCount == Cardinality({i \in DOMAIN alerts : ~alerts[i].acknowledged})

highRiskAlertsCount ==
  Cardinality({i \in DOMAIN alerts : ~alerts[i].acknowledged /\ alerts[i].severity >= 2})

recentAlerts == SubSeq(alerts, 1, IF Len(alerts) < 5 THEN Len(alerts) ELSE 5)

\* Mutant: six days before today are taken for seven.
weekdaysBefore(today) == {(today + 7 - i) % 7 : i \in 1..6}

(* The chart has a bar for each weekday among the last seven days. *)
weekdaysShown(today) == {(today + 7 - i) % 7 : i \in 0..6}

getAlertsTrendData(today) ==
  [day \in weekdaysShown(today) |->
     Cardinality({i \in DOMAIN alerts : DayOf[alerts[i].id] % 7 = day})]

(* The height of its bars, in percent of the highest. *)
barHeights(today) ==
  LET bars == getAlertsTrendData(today)
      maxTrendValue == Max({1} \cup {bars[day] : day \in DOMAIN bars})
  IN [day \in DOMAIN bars |-> (100 * bars[day]) \div maxTrendValue]

(* The gauge: the number shown stops at 10, the ring around it at 0. *)
safetyScore ==
  LET lost == 10 * unreadAlertsCount
  IN [shown |-> IF lost < 90 THEN 100 - lost ELSE 10,
      ring |-> IF lost < 100 THEN 100 - lost ELSE 0]

(* The platforms of the children, each with its accounts and its alerts    *)
(* that are not acknowledged.                                              *)
monitoredPlatforms ==
  [platform \in {AccountOn[c] : c \in children} |->
     [accounts |-> Cardinality({c \in children : AccountOn[c] = platform}),
      active |-> Cardinality({i \in DOMAIN alerts :
                   PlatformOf[alerts[i].id] = platform /\ ~alerts[i].acknowledged})]]

-----------------------------------------------------------------------------
(* A click on a recent alert, and on the cards above them. *)
OpenRecent ==
  OnHome /\ \E i \in DOMAIN recentAlerts : Navigate(AlertView(recentAlerts[i].id))

OpenCard == OnHome /\ \E page \in {"children", "alerts"} : Navigate(PageView(page))

(* The button above the recent alerts. *)
ViewAllAlerts == OnHome /\ Navigate(PageView("alerts"))
=============================================================================
