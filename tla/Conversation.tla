----------------------------- MODULE Conversation -----------------------------
(***************************************************************************)
(* The conversation beside an alert (ConversationViewer.tsx) as operators  *)
(* on the alert's messages and stages: groups of bubbles, date separators, *)
(* labels of flagged messages and the targets of the jump buttons.         *)
(*                                                                         *)
(* Messages come in the order they were sent.  Times are minutes; what a   *)
(* group shows of its sender (avatar, side, colours) is left out, as is    *)
(* the search, which only highlights.                                      *)
(***************************************************************************)
EXTENDS Integers, Subsequences, SequencesExt

CONSTANTS
  Sender,
  MaxGap,       \* minutes, 3 in the code
  DayLength     \* minutes of a day

Message == [id : Nat, userId : Sender, createdAt : Nat]
Evidence == [stage : Nat, messageId : Int]    \* stage 0: a name not in the list

getMessageDate(msg) == msg.createdAt \div DayLength

-----------------------------------------------------------------------------
\* Mutant: the date does not matter.
isNewGroupUndated(messages, i) ==
  \/ i = 1
  \/ messages[i - 1].userId # messages[i].userId
  \/ messages[i].createdAt - messages[i - 1].createdAt > MaxGap

isNewGroup(messages, i) ==
  \/ i = 1
  \/ messages[i - 1].userId # messages[i].userId
  \/ messages[i].createdAt - messages[i - 1].createdAt > MaxGap
  \/ getMessageDate(messages[i - 1]) # getMessageDate(messages[i])

(* A group reaches up to the message before the one that starts the next. *)
GroupStarts(messages) == {i \in DOMAIN messages : isNewGroup(messages, i)}
GroupEnd(messages, g) ==
  IF g = Cardinality(GroupStarts(messages)) THEN Len(messages)
  ELSE Nth(GroupStarts(messages), g + 1) - 1

messageGroups(messages) ==
  [g \in 1..Cardinality(GroupStarts(messages)) |->
     SubSeq(messages, Nth(GroupStarts(messages), g), GroupEnd(messages, g))]

showDateSeparator(groups, g) ==
  g = 1 \/ getMessageDate(groups[g - 1][1]) # getMessageDate(groups[g][1])

(* The date a reader takes a group to be of: that of the last separator    *)
(* drawn above it.                                                         *)
DateAbove(groups, g) ==
  LET above == {h \in 1..g : showDateSeparator(groups, h)}
  IN getMessageDate(groups[Max(above)][1])

-----------------------------------------------------------------------------
(* A later stage that names the same message replaces the earlier one. *)
messageIdToStage(stages, id) ==
  LET naming == {i \in DOMAIN stages : stages[i].messageId = id}
  IN IF naming = {} THEN 0 ELSE Max(naming)

isSuspicious(stages, msg) == messageIdToStage(stages, msg.id) # 0

\* Mutant: the stage that was found first comes first.
flaggedIdsFound(stages) ==
  {id \in {stages[i].messageId : i \in DOMAIN stages \cap {1}} : id > 0}

flaggedIds(stages) == {id \in {stages[i].messageId : i \in DOMAIN stages} : id > 0}

(* 0 stands for a button that is not drawn. *)
jumpTargets(messages, stages) ==
  LET flagged == flaggedIds(stages)
      known == {i \in DOMAIN stages : stages[i].stage # 0}
      rank == Max({stages[i].stage : i \in known})
  IN [firstSuspicious |-> IF flagged = {} THEN 0 ELSE Min(flagged),
      newest |-> IF messages = <<>> THEN 0 ELSE messages[Len(messages)].id,
      oldest |-> IF messages = <<>> THEN 0 ELSE messages[1].id,
      highestRisk |-> IF known = {} THEN 0
                      ELSE stages[Min({i \in known : stages[i].stage = rank})].messageId]

(* The buttons that are drawn. *)
JumpButtons(messages, stages) ==
  LET targets == jumpTargets(messages, stages)
  IN {button \in DOMAIN targets : targets[button] # 0}
=============================================================================
