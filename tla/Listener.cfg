SPECIFICATION FairSpec
CONSTANTS
  Clients = {c1}
  NoClient = NoClient
  Texts <- MCTexts
  Unreadable = Unreadable
  Blank = Blank
  NoLine = NoLine
  Backlog = 1
  MaxScripts = 1
INVARIANTS
  TypeOK
  OrderIsRecorded
PROPERTIES
  ImplementsRequestReply
  RepliesAreKept
  RequestsAreAnswered
  AbortEnds
  OrderTakesEffect
