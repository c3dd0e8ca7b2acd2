CONSTANTS
  d = d
  p = p
  v = v
  Client = {d, p}
  Dealer = {d}
  Display = {}
  Server = Server
  MaxEvents = 2
  MaxRestarts = 0
  MaxInFlight = 1
  Rejects = FALSE
  Makes <- BothPlay
  MaxDrops <- NoDrops
  MaxReloads <- NoDrops
  Slow = FALSE
SPECIFICATION StoreSpec
INVARIANTS QuietAgree
CHECK_DEADLOCK FALSE
