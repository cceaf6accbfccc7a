SPECIFICATION FanoutSpec
CONSTANTS
  Exchanges = {e1}
  MaxInflight = 1
  MaxAttempts = 2
  Writes = {w1, w2}
  Matching = {d1}
  Setups <- MCSetups
  MaxRestarts = 1
INVARIANT AcceptedApplied
CHECK_DEADLOCK FALSE
