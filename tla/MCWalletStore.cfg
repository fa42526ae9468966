SPECIFICATION WalletSpec

CONSTANTS
  u1 = u1
  u2 = u2
  p1 = p1
  p2 = p2
  NoRef = NoRef
  NoPayment = NoPayment
  EndUsers = {u1, u2}
  PaymentIds = {p1, p2}
  Refs = {p1, p2, NoRef}
  Amounts = {0, 1, 2}
  Opening <- MCOpening
  MaxTx = 2

INVARIANTS
  HistoryExplainsBalance
  TopUpCreditedOnce

PROPERTY
  ImplementsLedger

CHECK_DEADLOCK FALSE
