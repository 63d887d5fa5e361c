----------------------------- MODULE AlertDetail -----------------------------
(***************************************************************************)
(* The page of one alert (AlertDetailView.tsx) with its analysis panel     *)
(* (AiAnalysisPanel.tsx).  The component is mounted without a key: its     *)
(* state lives on when the page turns from one alert to another, and ends  *)
(* when another page is shown.                                             *)
(*                                                                         *)
(* A handler belongs to the render it was made in: an analysis carries the *)
(* alert as it was when the button was pressed.                            *)
(***************************************************************************)
EXTENDS Dashboard, Subsequences, SequencesExt

VARIABLES
  activeTab,    \* "chat" or "analysis"
  panel,        \* the panel's status, its line of text, the stage expanded
  progress,     \* progress texts whose timers have not fired
  mine          \* slots of the analyses this mounted panel started

detailVars == <<activeTab, panel, progress, mine>>

Panel ==
  [isAnalyzing : BOOLEAN, status : {"idle", "running", "success", "failed"},
   message : {"none", "extracting", "classifying", "evaluating", "complete", "failed"},
   expanded : Stage \cup {None}]

DetailTypeOK ==
  /\ activeTab \in {"chat", "analysis"}
  /\ panel \in Panel
  /\ progress \subseteq {"classifying", "evaluating"}
  /\ mine \subseteq Slot

FreshPanel ==
  [isAnalyzing |-> FALSE, status |-> "idle", message |-> "none", expanded |-> None]

(* The values of a component that has just been mounted. *)
DetailFresh ==
  activeTab = "chat" /\ panel = FreshPanel /\ progress = {} /\ mine = {}
MountDetail ==
  activeTab' = "chat" /\ panel' = FreshPanel /\ progress' = {} /\ mine' = {}

OnDetail == Screen = "detail"
Viewed == Lookup(alerts, activeView.id)

-----------------------------------------------------------------------------
(* What the panel derives from an alert.  A stage is listed as detected    *)
(* under its own name or under that name in lower case; the advice looks   *)
(* only for the name itself.                                               *)
Detected(stages) == {stages[i].stage : i \in DOMAIN stages}
DetectedByName(stages) ==
  {stages[i].stage : i \in {j \in DOMAIN stages : stages[j].exact}}

Latest(numbers) == IF numbers = {} THEN 0
                 ELSE CHOOSE n \in numbers : \A m \in numbers : m <= n

summaryStage(stages) == Latest(Detected(stages))
recommendedStage(stages) == Latest(DetectedByName(stages))
stopContact(entry) == entry.severity >= 2

(* handleAnalysisUpdated: names are compared without regard to case, also  *)
(* with the names just added.                                              *)
Merge(stages, new) ==
  stages \o Sublist(new, {n \in DOMAIN new :
                            /\ new[n].stage \notin Detected(stages)
                            /\ \A m \in 1..n - 1 : new[m].stage # new[n].stage})

-----------------------------------------------------------------------------
SelectTab(tab) ==
  /\ OnDetail /\ activeTab # tab
  /\ Spend("reads")
  /\ activeTab' = tab
  /\ UNCHANGED <<session, shown, activeView, toasts, settings, socketVars,
                 opening, notified, checks, calls, backend, panel, progress, mine>>

ToggleStage(stage) ==
  /\ OnDetail
  /\ Spend("reads")
  /\ panel' = [panel EXCEPT !.expanded = IF @ = stage THEN None ELSE stage]
  /\ UNCHANGED <<session, shown, activeView, toasts, settings, socketVars,
                 opening, notified, checks, calls, backend, activeTab, progress, mine>>

(* onBack leaves the page. *)
GoBack == OnDetail /\ Navigate(PageView("alerts"))

(* The button is drawn for an alert that is not acknowledged; the handler  *)
(* goes back to the list when its call has ended.                          *)
AcknowledgeAndGoBack ==
  /\ OnDetail /\ ~Viewed.acknowledged
  /\ handleAcknowledgeAlert(activeView.id, TRUE)
  /\ UNCHANGED detailVars

(* The button is disabled while the panel is analyzing. *)
handleContinueAnalysis ==
  /\ OnDetail /\ ~panel.isAnalyzing
  /\ Spend("analyses")
  /\ panel' = [panel EXCEPT !.isAnalyzing = TRUE, !.status = "running",
                            !.message = "extracting"]
  /\ progress' = {"classifying", "evaluating"}
  /\ \E s \in Slot :
       /\ FirstFree(s)
       /\ calls' = [calls EXCEPT ![s] =
                      [op |-> "analyse", base |-> Viewed, answer |-> None]]
       /\ mine' = mine \cup {s}
  /\ UNCHANGED <<session, shown, activeView, toasts, settings, socketVars,
                 opening, notified, checks, backend, activeTab>>

(* The two timers of the progress texts: nothing clears them. *)
ShowProgress(text) ==
  /\ text \in progress
  /\ progress' = progress \ {text}
  /\ panel' = [panel EXCEPT !.message = text]
  /\ UNCHANGED <<appVars, activeTab, mine>>

(* The backend names stages it has not stored for the alert yet, in the    *)
(* spelling the language model chose; an alert that was deleted with its   *)
(* child is not found.                                                     *)
AnswerAnalysis(s) ==
  /\ calls[s] # None /\ calls[s].op = "analyse" /\ calls[s].answer = None
  /\ LET entry == Lookup(stored, calls[s].base.id)
         Possible == {f \in Found : f.alert = entry.id /\ f \notin ToSet(entry.detectedStages)}
     IN IF Listed(stored, calls[s].base.id)
        THEN \E new \in {<<>>} \cup {<<f>> : f \in Possible} :
               /\ calls' = [calls EXCEPT ![s].answer = new]
               /\ stored' = Replace(stored, [entry EXCEPT !.detectedStages = @ \o new])
        ELSE /\ calls' = [calls EXCEPT ![s].answer = Refused]
             /\ UNCHANGED stored
  /\ UNCHANGED <<session, shown, activeView, toasts, settings, socketVars,
                 opening, notified, checks, family, gone, budget, detailVars>>

EndOfAnalysis(s, status, message) ==
  /\ panel' = IF s \in mine
              THEN [panel EXCEPT !.isAnalyzing = FALSE, !.status = status,
                                 !.message = message]
              ELSE panel
  /\ mine' = mine \ {s}
  /\ Return(s)
  /\ UNCHANGED <<session, children, isLoading, error, activeView, toasts,
                 settings, socketVars, opening, notified, checks, backend, activeTab,
                 progress>>

\* Mutant: the stages go to the alert on the screen.
AnalysedOnScreen(s) ==
  /\ calls[s] # None /\ calls[s].op = "analyse"
  /\ calls[s].answer \notin {None, Refused}
  /\ alerts' = IF OnDetail
               THEN Replace(alerts, [Viewed EXCEPT
                      !.detectedStages = Merge(@, calls[s].answer)])
               ELSE alerts
  /\ EndOfAnalysis(s, "success", "complete")
  /\ UNCHANGED budget

(* handleUpdateAlertDetail puts the alert of the old render, with the new  *)
(* stages, in the place of whatever is listed under its id now.            *)
Analysed(s) ==
  /\ calls[s] # None /\ calls[s].op = "analyse"
  /\ calls[s].answer \notin {None, Refused}
  /\ LET base == calls[s].base
     IN alerts' = Replace(alerts, [base EXCEPT
                    !.detectedStages = Merge(@, calls[s].answer)])
  /\ EndOfAnalysis(s, "success", "complete")
  /\ UNCHANGED budget

AnalysisFailed(s) ==
  /\ calls[s] # None /\ calls[s].op = "analyse"
  /\ IF calls[s].answer = Refused THEN UNCHANGED budget ELSE Spend("failures")
  /\ EndOfAnalysis(s, "failed", "failed")
  /\ UNCHANGED alerts

(* What a step of another part does to the page. *)
FollowDetail == IF OnDetail /\ OnDetail' THEN UNCHANGED detailVars ELSE MountDetail

DetailStep ==
  \/ \E tab \in {"chat", "analysis"} : SelectTab(tab)
  \/ \E stage \in Stage : ToggleStage(stage)
  \/ \E text \in progress : ShowProgress(text)
  \/ \E s \in Slot : AnswerAnalysis(s) \/ Analysed(s) \/ AnalysisFailed(s)
  \/ AcknowledgeAndGoBack
  \/ handleContinueAnalysis
=============================================================================
