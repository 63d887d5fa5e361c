------------------------------- MODULE ChatRoom -------------------------------
(***************************************************************************)
(* The test chat room (TestChatRoom.tsx): the parent plays a conversation, *)
(* each line of which is ingested by the backend as a game's would be.     *)
(* A line is known by its sender: the child selected, or the stranger; the *)
(* third sender of the form, its server and its presets only vary names.   *)
(***************************************************************************)
EXTENDS Dashboard

VARIABLES
  selectedChild,
  senderRole,
  message,      \* whether the input holds text
  sending,      \* the page's own isLoading
  history,      \* localHistory: sender and role of each line
  posting,      \* slots of the calls this mounted page waits for
  ingested      \* at the backend: the lines it has taken, in order

roomVars == <<selectedChild, senderRole, message, sending, history, posting>>

Stranger == "stranger"
Role == {"suspect", "child"}
SenderId == Child \cup {Stranger, "ChildUser"}

Line == [senderId : SenderId, role : Role]

RoomTypeOK ==
  /\ selectedChild \in Child \cup {None}
  /\ senderRole \in Role
  /\ {message, sending} \subseteq BOOLEAN
  /\ {history, ingested} \subseteq Seq(Line)
  /\ posting \subseteq Slot

(* The effect that selects the first child; a selection is never dropped.  *)
AutoSelect(selection) ==
  IF selection # None \/ children' = {} THEN {selection} ELSE children'

RoomFresh ==
  /\ selectedChild = None
  /\ senderRole = "suspect" /\ message = FALSE /\ sending = FALSE
  /\ history = <<>> /\ posting = {}

OnRoom == Screen = "debug"

getSenderId ==
  CASE senderRole = "suspect" -> Stranger
    [] senderRole = "child" /\ selectedChild \in children -> selectedChild
    [] OTHER -> "ChildUser"

SelectChild(c) ==
  /\ OnRoom /\ c \in children \ {selectedChild}
  /\ Spend("plays")
  /\ selectedChild' = c
  /\ UNCHANGED <<rest, calls, senderRole, message, sending, history, posting, ingested>>

SelectRole(role) ==
  /\ OnRoom /\ senderRole # role
  /\ Spend("plays")
  /\ senderRole' = role
  /\ UNCHANGED <<rest, calls, selectedChild, message, sending, history, posting,
                 ingested>>

EnterMessage ==
  /\ OnRoom /\ ~message
  /\ Spend("plays")
  /\ message' = TRUE
  /\ UNCHANGED <<rest, calls, selectedChild, senderRole, sending, history, posting,
                 ingested>>

ClearLogs ==
  /\ OnRoom /\ history # <<>>
  /\ Spend("plays")
  /\ history' = <<>>
  /\ UNCHANGED <<rest, calls, selectedChild, senderRole, message, sending, posting,
                 ingested>>

(* What a step of another part does to the room. *)
FollowRoom ==
  /\ selectedChild' \in IF OnRoom' THEN AutoSelect(selectedChild) ELSE {None}
  /\ IF OnRoom /\ OnRoom'
     THEN UNCHANGED <<senderRole, message, sending, history, posting>>
     ELSE /\ senderRole' = "suspect" /\ message' = FALSE /\ sending' = FALSE
          /\ history' = <<>> /\ posting' = {}

\* Mutant: the button is not disabled while a line is sent.
MaySendTwice == OnRoom /\ message /\ children # {} /\ selectedChild # None

MaySend == OnRoom /\ message /\ ~sending /\ children # {} /\ selectedChild # None

(* Sender and role are those of the render the form was submitted in. *)
handleSend ==
  /\ MaySend
  /\ Spend("posts")
  /\ sending' = TRUE
  /\ \E s \in Slot :
       /\ FirstFree(s)
       /\ calls' = [calls EXCEPT ![s] = [op |-> "ingest", answer |-> None,
                      line |-> [senderId |-> getSenderId, role |-> senderRole]]]
       /\ posting' = posting \cup {s}
  /\ UNCHANGED <<rest, selectedChild, senderRole, message, history, ingested>>

AnswerIngest(s) ==
  /\ calls[s] # None /\ calls[s].op = "ingest" /\ calls[s].answer = None
  /\ calls' = [calls EXCEPT ![s].answer = "ok"]
  /\ ingested' = Append(ingested, calls[s].line)
  /\ UNCHANGED <<rest, budget, roomVars>>

Sent(s) ==
  /\ calls[s] # None /\ calls[s].op = "ingest" /\ calls[s].answer = "ok"
  /\ IF s \in posting
     THEN /\ history' = Append(history, calls[s].line)
          /\ message' = FALSE /\ sending' = FALSE
     ELSE UNCHANGED <<history, message, sending>>
  /\ posting' = posting \ {s}
  /\ Return(s)
  /\ UNCHANGED <<rest, budget, selectedChild, senderRole, ingested>>

SendFailed(s) ==
  /\ calls[s] # None /\ calls[s].op = "ingest"
  /\ Spend("failures")
  /\ sending' = IF s \in posting THEN FALSE ELSE sending
  /\ posting' = posting \ {s}
  /\ Return(s)
  /\ UNCHANGED <<rest, selectedChild, senderRole, message, history, ingested>>

RoomStep ==
  \/ \E c \in Child : SelectChild(c)
  \/ \E role \in Role : SelectRole(role)
  \/ EnterMessage \/ ClearLogs \/ handleSend
  \/ \E s \in Slot : AnswerIngest(s) \/ Sent(s) \/ SendFailed(s)
=============================================================================
