\* The replacement of an artifact is reviewed and found wanting.
SPECIFICATION Spec
CONSTANTS
  x = x  r = r  s = s
  fixX = fixX  goneX = goneX  fixR = fixR
  c1 = c1
  Main = Main  None = None
  Artifacts <- Replacement
  JobOf <- JobOfReplacement
  Plans <- PlansOfR
  SourceOf <- SourceOfR
  About <- AboutR
  Callers = {c1}
  MaxAttempts = 2
  MaxDecisions = 2
  MaxReviews = 3
INVARIANT FindingsCanBeRevised
CHECK_DEADLOCK FALSE
