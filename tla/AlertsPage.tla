------------------------------ MODULE AlertsPage ------------------------------
(***************************************************************************)
(* The list of alerts (AlertsPage.tsx): filters, sorting and pages over    *)
(* the alerts of the root component, which change while the page is open.  *)
(* An alert's child and platform never change; its date is the order of    *)
(* its id.  A search term stands for the name of a child: it finds the     *)
(* alerts whose child is shown under that name.                            *)
(***************************************************************************)
EXTENDS Dashboard, SequencesExt

CONSTANTS
  PlatformOf,            \* the platform of each alert
  itemsPerPage           \* rows of a page, 8 in the code

ASSUME AlertsPageAssumption == itemsPerPage \in Nat \ {0}

VARIABLES
  filter,       \* search term and the four selections
  sorting,      \* field and order
  currentPage

listVars == <<filter, sorting, currentPage>>

All == None      \* no restriction
Platforms == {PlatformOf[id] : id \in AlertId}
Selections ==
  [search : Child \cup {None}, platform : Platforms \cup {All},
   child : Child \cup {All}, severity : Severity \cup {All},
   status : {All, "active"}]

ListTypeOK ==
  /\ filter \in Selections
  /\ sorting \in [field : {"date", "risk"}, order : {"desc", "asc"}]
  /\ currentPage \in Nat \ {0}

NoFilter ==
  [search |-> None, platform |-> All, child |-> All, severity |-> All, status |-> All]
NewestFirst == [field |-> "date", order |-> "desc"]

ListFresh == filter = NoFilter /\ sorting = NewestFirst /\ currentPage = 1
MountList == filter' = NoFilter /\ sorting' = NewestFirst /\ currentPage' = 1

OnList == Screen = "alerts"

(* The page names a child it does not know by its number. *)
getChildName(id) == IF ChildOf[id] \in children THEN ChildOf[id] ELSE None

Matches(entry) ==
  /\ filter.search # None => getChildName(entry.id) = filter.search
  /\ filter.platform \in {All, PlatformOf[entry.id]}
  /\ filter.child \in {All, ChildOf[entry.id]}
  /\ filter.severity \in {All, entry.severity}
  /\ filter.status = "active" => ~entry.acknowledged

SortKey(entry) == IF sorting.field = "date" THEN entry.id ELSE entry.severity

(* Array.sort keeps the order of rows that compare as equal. *)
Precedes(i, j) ==
  LET a == SortKey(alerts[i])
      b == SortKey(alerts[j])
  IN \/ IF sorting.order = "desc" THEN a > b ELSE a < b
     \/ a = b /\ i < j

matching == {i \in DOMAIN alerts : Matches(alerts[i])}
rowAt(n) ==
  CHOOSE i \in matching : Cardinality({j \in matching : Precedes(j, i)}) = n - 1

processedAlerts == [n \in 1..Cardinality(matching) |-> alerts[rowAt(n)]]

totalPages ==
  LET full == (Len(processedAlerts) + itemsPerPage - 1) \div itemsPerPage
  IN IF full = 0 THEN 1 ELSE full

\* Mutant: the page that was asked for.
requestedPage == currentPage

safeCurrentPage == IF currentPage < totalPages THEN currentPage ELSE totalPages

PageRows(page) ==
  LET start == (page - 1) * itemsPerPage
      left == Len(processedAlerts) - start
  IN SubSeq(processedAlerts, start + 1,
            start + (IF left < itemsPerPage THEN left ELSE itemsPerPage))

paginatedAlerts == PageRows(safeCurrentPage)

-----------------------------------------------------------------------------
(* The search field and the selections, and the button for active alerts *)
(* only: each starts over at the first page.                               *)
ChooseFilter(field, value) ==
  /\ OnList /\ filter[field] # value
  /\ Spend("filters")
  /\ filter' = [filter EXCEPT ![field] = value]
  /\ currentPage' = 1
  /\ UNCHANGED <<session, shown, activeView, toasts, settings, socketVars,
                 opening, notified, checks, calls, backend, sorting>>

FilterChosen ==
  \/ \E c \in Child \cup {None} : ChooseFilter("search", c)
  \/ \E c \in children \cup {All} : ChooseFilter("child", c)
  \/ \E p \in Platforms \cup {All} : ChooseFilter("platform", p)
  \/ \E s \in Severity \cup {All} : ChooseFilter("severity", s)
  \/ \E s \in {All, "active"} : ChooseFilter("status", s)

toggleSort(field) ==
  /\ OnList
  /\ Spend("filters")
  /\ sorting' = IF sorting.field # field THEN [field |-> field, order |-> "desc"]
                ELSE [sorting EXCEPT !.order = IF @ = "desc" THEN "asc" ELSE "desc"]
  /\ UNCHANGED <<session, shown, activeView, toasts, settings, socketVars,
                 opening, notified, checks, calls, backend, filter, currentPage>>

(* The buttons go by the page that is shown to be enabled, and count from  *)
(* the page that was asked for.                                            *)
TurnPage ==
  /\ OnList
  /\ Spend("filters")
  /\ \/ safeCurrentPage > 1
        /\ currentPage' = IF currentPage > 1 THEN currentPage - 1 ELSE 1
     \/ safeCurrentPage < totalPages
        /\ currentPage' = IF currentPage < totalPages THEN currentPage + 1 ELSE totalPages
  /\ UNCHANGED <<session, shown, activeView, toasts, settings, socketVars,
                 opening, notified, checks, calls, backend, filter, sorting>>

Rows == ToSet(paginatedAlerts)

(* A click on a row leaves the list. *)
SelectRow == \E entry \in Rows : OnList /\ Navigate(AlertView(entry.id))

AcknowledgeRow(entry) ==
  /\ OnList /\ ~entry.acknowledged
  /\ handleAcknowledgeAlert(entry.id, FALSE)
  /\ UNCHANGED listVars

(* What a step of another part does to the list. *)
FollowList == IF OnList /\ OnList' THEN UNCHANGED listVars ELSE MountList

ListStep ==
  \/ FilterChosen
  \/ \E field \in {"date", "risk"} : toggleSort(field)
  \/ TurnPage
  \/ \E entry \in Rows : AcknowledgeRow(entry)
=============================================================================
