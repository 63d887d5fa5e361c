-------------------------------- MODULE Sidebar --------------------------------
(***************************************************************************)
(* The sidebar beside every page of a signed-in parent (Sidebar.tsx).  On  *)
(* a narrow screen it is a menu that is opened over the page.              *)
(***************************************************************************)
EXTENDS Dashboard

VARIABLE isOpen     \* the menu of a narrow screen is open

SidebarTypeOK == isOpen \in BOOLEAN

(* The button of the narrow screen's bar; a click beside the open menu     *)
(* closes it as well.                                                      *)
ToggleMenu ==
  /\ SignedIn
  /\ Spend("menus")
  /\ isOpen' = ~isOpen
  /\ UNCHANGED <<rest, calls>>

handleNavigate ==
  /\ \E page \in Page : Navigate(PageView(page))
  /\ isOpen' = FALSE

(* What a step of another part does to the sidebar. *)
FollowSidebar == isOpen' = (isOpen /\ SignedIn /\ SignedIn')
=============================================================================
