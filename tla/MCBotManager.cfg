SPECIFICATION Spec
SYMMETRY MCSymmetry
CONSTANTS
  a1 = a1
  a2 = a2
  d1 = d1
  d2 = d2
  u1 = u1
  u2 = u2
  Admins <- MCAdmins
  Deliveries <- MCDeliveries
  Boot = boot
  Tokens = {t1, t2}
  FirstToken = t1
  None = None
  Updates <- MCUpdates
  MaxSeen = 1
  MaxRetries = 1
  MaxBegun = 3
INVARIANTS
  ConsoleIsObeyed
  RegistryFollowsRow
  WebhookFollowsStatus
  HandledOncePerMemory
CHECK_DEADLOCK FALSE
