\* Of the five operations, the family "options" calls four.
SPECIFICATION MCSpec
CONSTANTS
  NPids = 3
  Fuel = 5
  MaxKills = 1
  Programs <- MCEither
INVARIANTS Relations WaitsAreAnswered EndsTold HeldOrFree AllEnd
CHECK_DEADLOCK FALSE
