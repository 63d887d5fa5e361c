SPECIFICATION Spec
CONSTANTS
  None = None
  mia = mia
  leo = leo
  stranger = stranger
  anna = anna
  ben = ben
  Sender = {mia, leo, stranger}
  Parent = {anna, ben}
  ParentOf <- MCParentOf
  Page = {1, 2, 3}
  PageOwner <- MCPageOwner
  Viewer = {1, 2, 3, 4}
  PageOf <- MCPageOf
  Analyst = {1, 2}
  Stage = {1}
  NamedId <- MCNamedId
  Socket = {1, 2}
  Request <- MCRequest
  MinUnprocessed = 3
  MaxMessages = 4
  MinMessages = 3
  max_retries = 1
  MaxGap = 1
  DayLength = 3
  Starts <- MCStarts
CHECK_DEADLOCK FALSE
INVARIANTS
  TypeOK CacheHoldsStore JudgedWhole GetsOwnVerdict PendingIsAsked AlertWasFlagged
  ViewersTold SeparatorsShowDates FirstFlaggedComesFirst
PROPERTIES
  NoLostReview EveryIngestEnds
