SPECIFICATION Spec
CONSTANTS
  Workflows <- MCWorkflows
  Mains = {"outer"}
  Nodes <- MCNodes
  Owner <- MCOwner
  Root <- MCRoot
  Kind <- MCKind
  Children <- MCChildren
  Sub <- MCSub
  Registered <- MCRegistered
  Names <- MCNames
  Result <- MCResult
  Outputs <- MCOutputs
  MaxDepth = 2
  MaxRetries = 1
  MaxCrashes = 0
  HostCalls = {"resume"}
  Reentrant = {}
INVARIANTS ApprovalHolds
CHECK_DEADLOCK FALSE
