SPECIFICATION FairSpec

CONSTANTS
  u1 = u1
  r1 = r1
  r2 = r2
  NoRef = NoRef
  NoPayment = NoPayment
  Nobody = Nobody
  EndUsers = {u1}
  PaymentIds = {}
  Requests = {r1, r2}
  Refs = {r1, r2, NoRef}
  Amounts = {2}
  Prices = {2}
  StoreFaults = TRUE
  Opening <- MCOpening
  MaxTx = 2

INVARIANTS
  PaidOnceOrRefunded
  ChargeIsAnswered
  OrderTellsOutcome
  PanelMatchesServices

PROPERTIES
  ImplementsPurchase
  EveryRequestEnds

CHECK_DEADLOCK FALSE
