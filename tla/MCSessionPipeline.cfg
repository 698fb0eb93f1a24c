SPECIFICATION PipelineSpec
CONSTANTS
  MaxCommands = 1
INVARIANT HaltNeedsSignOff
CHECK_DEADLOCK FALSE
