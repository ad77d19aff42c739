SPECIFICATION Spec
CONSTANTS
  WORD = 256
  MS = 12
  Rate <- Rates
  Step <- Steps
  Span <- Spans
  Second <- Seconds
  Relative = {"amiga", "mac"}
  Timeouts = {0, 1, 8, 20}
  Uptime <- WhileItHolds
INVARIANTS TypeOK NeverLate
PROPERTIES NeverEarly Monotonic
CHECK_DEADLOCK FALSE
