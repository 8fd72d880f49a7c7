SPECIFICATION Spec
CONSTANTS
  NoSpec = NoSpec
  NoRequest = NoRequest
  r1 = r1
  MaxAttempts = 1
  Requests = {r1}
  Specs <- MCSpecs
  Ticks = {1, 2, 3}
  Retention = 2
  StartVersion = 1
  MaxEvents = 8
  Reserve = 3
  MaxOpens = 2
INVARIANTS AcknowledgedKept TerminalSpaceKept
PROPERTIES NeverResent
CHECK_DEADLOCK FALSE
