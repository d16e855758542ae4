SPECIFICATION Spec
CONSTANTS
  RowTokens = {"1", "2"}
  MaxTokens = 4
  NoTopic = NoTopic
  Clients = {"p1", "p2"}
  Expr <- MCExpr
  May <- MCMay
  Queries <- Rows
INVARIANTS TypeOK NoStaleRoute AliasRoutable InboxPrivate PartialPathComplete TableExclusive UndeliverableReturned NoGhostClient
PROPERTIES ImplementsTable
