SPECIFICATION Spec
CONSTANTS
  Tools = {t1, t2}
  Names = {bash}
  Questions = {q}
  Replies = {reply}
  None = None
  ChannelSize = 2
  MaxAsks = 1
  MaxPresses = 2
  MaxPanics = 1
INVARIANTS TypeOK OneErrandPerCall PromptsTakeTurns BooksAgree ReplyIsDelivered
PROPERTIES FinishedCallsStayFinished BatchEnds Refinement
CHECK_DEADLOCK FALSE
