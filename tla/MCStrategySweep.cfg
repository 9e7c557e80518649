CONSTANTS
  A = A
  B = B
  x = x
  y = y
  Servers = {A, B}
  Accounts = {x, y}
  None = None
  Absent = Absent
  Default = A
  Choices <- ChoicesDef
  Mappings <- MappingsDef
  MaxAttempts = 2
  MaxChanges = 2
  MaxFaults = 1
  MaxLogins = 1
  MaxArms = 1
SPECIFICATION MCSpec
INVARIANTS TypeOK NothingIsForgotten
PROPERTY SweptInTheEnd
CHECK_DEADLOCK FALSE
