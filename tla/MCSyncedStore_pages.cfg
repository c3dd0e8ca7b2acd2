CONSTANTS
  d = d
  p = p
  v = v
  Client = {d, v}
  Dealer = {d}
  Display = {v}
  Server = Server
  MaxEvents = 2
  MaxRestarts = 0
  MaxInFlight = 1
  Rejects = TRUE
  Makes <- DealerPlaysLive
  MaxDrops <- DealerDropsOnce
  MaxReloads <- EachReloadsOnce
  Slow = FALSE
SPECIFICATION StoreSpec
INVARIANTS QuietAgree DisplayShowsPrefix AtMostOnce
PROPERTIES ImplementsLog
CHECK_DEADLOCK FALSE
