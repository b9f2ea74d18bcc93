SPECIFICATION HealthSpec
CONSTANTS
  Check = {c1}
  Probe = {c2}
  MaxChanges = 2
  MaxFailures = 2
INVARIANTS AnswersHonest
