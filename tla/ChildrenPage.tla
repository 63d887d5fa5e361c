----------------------------- MODULE ChildrenPage -----------------------------
(***************************************************************************)
(* The page of child accounts (ChildrenManagement.tsx): register, rename   *)
(* and delete.  A successful change loads the dashboard again; while that  *)
(* shows the spinner the page is unmounted and loses its state.  A rename  *)
(* changes no identity, so its new name is left out.                       *)
(***************************************************************************)
EXTENDS Dashboard, Subsequences

VARIABLES
  draft,        \* the child named in the registration form
  editing,      \* the child whose row is open for editing
  confirming,   \* the child whose row asks whether to delete it
  saving,       \* the page's own isLoading
  changing      \* slots of the calls this mounted page waits for

childrenVars == <<draft, editing, confirming, saving, changing>>

ChildrenTypeOK ==
  /\ {draft, editing, confirming} \subseteq Child \cup {None}
  /\ saving \in BOOLEAN
  /\ changing \subseteq Slot

ChildrenFresh ==
  /\ draft = None /\ editing = None /\ confirming = None
  /\ saving = FALSE /\ changing = {}

OnChildren == Screen = "children"

Form(d, e, c) == draft' = d /\ editing' = e /\ confirming' = c

MountChildren == Form(None, None, None) /\ saving' = FALSE /\ changing' = {}

Edited(d, e, c) ==
  /\ OnChildren
  /\ Spend("edits")
  /\ Form(d, e, c)
  /\ UNCHANGED <<rest, calls, saving, changing>>

EnterChild(c) == draft # c /\ Edited(c, editing, confirming)

(* Buttons of a row: what it shows depends on editing, then on confirming. *)
Plain(c) == c \in children /\ editing # c /\ confirming # c
startEdit(c) == Plain(c) /\ Edited(draft, c, confirming)
cancelEdit == editing \in children /\ Edited(draft, None, confirming)
askDelete(c) == Plain(c) /\ Edited(draft, editing, c)
keepChild == confirming \in children \ {editing} /\ Edited(draft, editing, None)

Change(op, c) ==
  /\ OnChildren /\ ~saving
  /\ Spend("changes")
  /\ saving' = TRUE
  /\ \E s \in Slot :
       /\ FirstFree(s)
       /\ calls' = [calls EXCEPT ![s] = [op |-> op, child |-> c, reload |-> loads, answer |-> None]]
       /\ changing' = changing \cup {s}
  /\ UNCHANGED <<rest, draft, editing, confirming>>

handleRegister == draft # None /\ Change("create", draft)
handleUpdate(c) == c \in children /\ editing = c /\ Change("update", c)
handleDelete(c) ==
  c \in children /\ confirming = c /\ editing # c /\ Change("delete", c)

IsChange(s) == calls[s] # None /\ calls[s].op \in {"create", "update", "delete"}

(* The backend refuses to create a child that is registered already, and   *)
(* to change one that is not.  A child is deleted with its alerts.         *)
AnswerChange(s) ==
  /\ IsChange(s) /\ calls[s].answer = None
  /\ LET c == calls[s].child
         accepted == (calls[s].op = "create") # (c \in family)
         deleted == {i \in DOMAIN stored :
                       accepted /\ calls[s].op = "delete" /\ ChildOf[stored[i].id] = c}
     IN /\ calls' = [calls EXCEPT ![s].answer = IF accepted THEN "ok" ELSE Refused]
        /\ family' = CASE accepted /\ calls[s].op = "create" -> family \cup {c}
                       [] accepted /\ calls[s].op = "delete" -> family \ {c}
                       [] OTHER -> family
        /\ stored' = Sublist(stored, DOMAIN stored \ deleted)
        /\ gone' = gone \cup {stored[i].id : i \in deleted}
  /\ UNCHANGED <<session, shown, activeView, toasts, settings, socketVars,
                 opening, notified, checks, budget, childrenVars>>

(* The form is cleared if the page is still mounted; onRefresh runs anyway *)
(* and its load takes the place of the call that ended.                    *)
FormCleared(s) ==
  LET op == calls[s].op
  IN IF s \in changing
     THEN Form(IF op = "create" THEN None ELSE draft,
               IF op = "update" THEN None ELSE editing,
               IF op = "delete" THEN None ELSE confirming)
     ELSE UNCHANGED <<draft, editing, confirming>>

ChangeDone(s) ==
  /\ IsChange(s) /\ calls[s].answer = "ok" /\ calls[s].reload
  /\ calls' = [calls EXCEPT ![s] = Load(token)]
  /\ isLoading' = TRUE
  /\ error' = FALSE
  /\ UNCHANGED <<session, children, alerts, activeView, toasts, settings,
                 socketVars, opening, notified, checks, backend, budget>>
  /\ IF OnChildren /\ OnChildren' THEN FormCleared(s) /\ UNCHANGED <<saving, changing>>
     ELSE MountChildren

(* Without a session id in its render, onRefresh returns at once. *)
ChangeDoneQuietly(s) ==
  /\ IsChange(s) /\ calls[s].answer = "ok" /\ ~calls[s].reload
  /\ FormCleared(s)
  /\ saving' = IF s \in changing THEN FALSE ELSE saving
  /\ changing' = changing \ {s}
  /\ Return(s)
  /\ UNCHANGED <<rest, budget>>

ChangeFailed(s) ==
  /\ IsChange(s)
  /\ IF calls[s].answer = Refused THEN UNCHANGED budget ELSE Spend("failures")
  /\ saving' = IF s \in changing THEN FALSE ELSE saving
  /\ changing' = changing \ {s}
  /\ Return(s)
  /\ UNCHANGED <<rest, draft, editing, confirming>>

\* Mutant: the page does not notice that its reload has ended.
FollowChildrenKeeps ==
  IF OnChildren /\ OnChildren' THEN UNCHANGED childrenVars ELSE MountChildren

(* What a step of another part does to the page: the end of a load ends    *)
(* the change that waits for it.                                           *)
FollowChildren ==
  IF OnChildren /\ OnChildren'
  THEN /\ changing' = {s \in changing : calls'[s] # None}
       /\ saving' = IF changing' # changing THEN FALSE ELSE saving
       /\ UNCHANGED <<draft, editing, confirming>>
  ELSE MountChildren

ChildrenStep ==
  \/ \E c \in Child : EnterChild(c) \/ startEdit(c) \/ askDelete(c)
  \/ cancelEdit \/ keepChild \/ handleRegister
  \/ \E c \in Child : handleUpdate(c) \/ handleDelete(c)
  \/ \E s \in Slot : AnswerChange(s) \/ ChangeFailed(s) \/ ChangeDoneQuietly(s)
=============================================================================
