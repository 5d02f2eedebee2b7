SPECIFICATION FairSpec
CHECK_DEADLOCK FALSE
CONSTANTS
  Daemon = {a, b}
  Run = {r1, r2}
  Kind = {x, y}
  Slot = {0, 1}
  None = None
  MaxEngines = 2
  MaxEvents = 2
 
PROPERTIES AbandonedClaimGoes
