SPECIFICATION Spec
CONSTANTS
  Reports <- TwoBoots
  MaxRequests = 2
  MaxAlerts = 2
  MaxFailures = 1
  None = None
INVARIANTS TypeOK NewestOfBoot
PROPERTIES CountsOnce AlertsConverge
