SPECIFICATION Spec
CONSTANTS
  gateway = gateway
  cli = cli
  t1 = t1
  t2 = t2
  None = None
  Processes = {gateway, cli}
  Threads = {t1, t2}
  Placements <- MCPlacements
  event = event
  Events = {event}
  Quota <- MCQuota
  MaxCrashes = 1
INVARIANTS TypeOK VerifiedAtRest Bracketed
PROPERTIES SealedIsFinal CallsEnd
CHECK_DEADLOCK FALSE
