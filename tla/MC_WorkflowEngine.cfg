SPECIFICATION Spec
CONSTANTS
  Workflows <- MCWorkflows
  Mains = {"gate", "choice", "deep", "outer"}
  Nodes <- MCNodes
  Owner <- MCOwner
  Root <- MCRoot
  Kind <- MCKind
  Children <- MCChildren
  Sub <- MCSub
  Registered <- MCRegistered
  Names <- MCNames
  Result <- MCResult
  Outputs <- MCOutputs
  MaxDepth = 2
  MaxRetries = 1
  MaxCrashes = 1
  HostCalls = {"pause", "resume", "retry", "cancel", "complete", "fail", "capability"}
  Reentrant = {"pause", "resume", "cancel"}
INVARIANTS TypeOK CheckpointsAreSound FlatStatusHolds
PROPERTIES FlatNotExecutedAgain CompletesOnlyFinished ExecuteReturns
CHECK_DEADLOCK FALSE
