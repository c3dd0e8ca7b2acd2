CONSTANTS
  d = d
  p = p
  v = v
  Client = {d, v}
  Dealer = {d}
  Display = {v}
  Server = Server
  MaxEvents = 2
  MaxRestarts = 1
  MaxInFlight = 1
  Rejects = FALSE
  Makes <- DealerPlaysOn
  MaxDrops <- NoDrops
  MaxReloads <- DealerReloadsOnce
  Slow = FALSE
SPECIFICATION FairStoreSpec
CHECK_DEADLOCK FALSE
INVARIANT AckedKept
PROPERTIES QueueDelivered DisplayHears ImplementsLog
