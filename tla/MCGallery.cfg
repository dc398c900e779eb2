SPECIFICATION Spec
CHECK_DEADLOCK FALSE
CONSTANTS
  Templates <- MCTemplates
  Config10 = {TRUE, FALSE}
  Metrics = {2, 5, 31}
  Evidences = {190, 200}
  Coverages = {100}
  RejectBump = 1
  RejectStop = 2
INVARIANTS
  TypeOK
  DecisionIsEarned
  SelectedOutranks
  RejectsBounded
