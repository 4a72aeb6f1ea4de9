\* Two results of a revision of one artifact, with one call in progress and
\* any number of the calls that save once.
SPECIFICATION Spec
CONSTANTS
  x = x  r = r  s = s
  fixX = fixX  goneX = goneX  fixR = fixR
  c1 = c1
  Main = Main  None = None
  Artifacts <- Results
  JobOf <- JobOfResults
  Plans <- PlansOfX
  SourceOf <- SourceOfX
  About <- AboutX
  Callers = {c1}
  MaxAttempts = 3
  MaxDecisions = 3
  MaxReviews = 3
INVARIANTS TypeOK GateIsCurrent SupersededAfterPass SomethingStaysActive WaitingIsAnswerable RevisionsWereApproved
\* The bounds end every behaviour.
CHECK_DEADLOCK FALSE
