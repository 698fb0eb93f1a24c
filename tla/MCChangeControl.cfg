SPECIFICATION ChangeSpec
CONSTANTS
  Proposals = {"p1", "p2"}
  Kind <- MCKind
  SetupOf <- MCSetupOf
  Operators = {o1}
  Validators = {v1}
  MaxVersion = 4
  MaxEdgeStarts = 0
INVARIANT RetiredForGood
CHECK_DEADLOCK FALSE
