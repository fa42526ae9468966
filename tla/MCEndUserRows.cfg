SPECIFICATION CustomersSpec

CONSTANTS
  u1 = u1
  t1 = t1
  t2 = t2
  NoRef = NoRef
  NoPayment = NoPayment
  EndUsers = {u1}
  PaymentIds = {}
  Tasks = {t1, t2}
  Refs = {NoRef}
  Amounts = {1}
  MaxTrials = 1
  StoreFaults = TRUE
  Opening <- MCOpening
  MaxTx = 3

INVARIANTS
  NothingInvented
  OnlyStaleCopiesHarm
  TrialOrderTellsOutcome

CHECK_DEADLOCK FALSE
