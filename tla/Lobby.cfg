SPECIFICATION FairSpec
CONSTANTS
  Clients = {c1, c2}
  NoClient = NoClient
  Texts <- MCTexts
  Unreadable = Unreadable
  Blank = Blank
  NoLine = NoLine
  Backlog = 2
  MaxModifier = 2
INVARIANTS
  TypeOK
PROPERTIES
  ImplementsRequestReply
  RepliesAreKept
  RequestsAreAnswered
  WaitersAreServed
  PollsComeRound
\* the load balancer gives up when the pool does not come up, and may die
CHECK_DEADLOCK FALSE
