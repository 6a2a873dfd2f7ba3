CONSTANTS
  None = None
  Days <- MCDays
  SendDays <- MCSendDays
  Clocks <- MCClocks
  Drafts <- MCDrafts
  Foreign <- MCForeign
  Policy <- MCPolicy
  Inboxes <- MCInboxes
  Handled <- MCHandled
  Errors <- MCErrors
  MaxDeliveries = 4
  MaxHops = 3
  LongestDelay = 7
SPECIFICATION Spec
INVARIANTS TypeOK CalendarAgrees MessagesKeepWhole ErrorSubjectKeepsAll OneConversation WaitsDouble
CHECK_DEADLOCK FALSE
