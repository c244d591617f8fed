SPECIFICATION Spec
CONSTANTS
  Value = {nil, v}
  NoValue = nil
  MaxUpvalues = 2
  MaxRegisters = 4
  MaxFrames = 3
  MaxRuns = 2
  Function <- Functions
  Captured = {1}
  GasLimit = {3}
  InitGas = 2
  Kind = {"compiled", "direct", "init"}
  None = None
INVARIANTS TypeOK StackShape LeftoversFailed
PROPERTIES CompiledLeavesClean ImplementsCallStack
CHECK_DEADLOCK FALSE
