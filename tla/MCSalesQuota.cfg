SPECIFICATION Spec
CONSTANTS
  Accounts = {a1, a2, a3}
  Runs = {r1, r2}
  NoAccount = NoAccount
  Limits = {1, 2}
SYMMETRY Symmetric
CHECK_DEADLOCK FALSE
INVARIANTS
  QuotaHolds
PROPERTIES
  UndoSparesServices
