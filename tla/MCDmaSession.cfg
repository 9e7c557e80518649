CONSTANTS
  Accounts = {a1, a2}
  MaxFaults = 2
  MaxEdits = 2
SPECIFICATION Spec
INVARIANTS TypeOK DrivenOrSilent AllowListIsSound
PROPERTIES NoLoginAfterRefusal LifecycleSpec EventuallySettles
CHECK_DEADLOCK FALSE
