SPECIFICATION FairSpec

CONSTANTS
  u1 = u1
  u2 = u2
  p1 = p1
  v1 = v1
  v2 = v2
  NoRef = NoRef
  NoPayment = NoPayment
  EndUsers = {u1, u2}
  PaymentIds = {p1}
  Reviews = {v1, v2}
  Refs = {p1, NoRef}
  Amounts = {0, 1}
  StoreFaults = TRUE
  Opening <- MCOpening
  MaxTx = 1

INVARIANTS
  ReceiptUsedOnce
  RowsAgree
  MessagesAreTrue

PROPERTIES
  VerdictStands
  ApprovedPlanIsSettled

CHECK_DEADLOCK FALSE
