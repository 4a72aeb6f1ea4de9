\* Two exports, one call in progress, crashes anywhere, edits between calls.
SPECIFICATION Spec
CONSTANTS
  icon = icon  manifest = manifest
  first = first  second = second  before = before  edited = edited
  unity1 = unity1  unity2 = unity2
  b1 = b1
  Main = main  Absent = Absent  None = None
  Paths = {icon, manifest}
  Contents = {first, second, before, edited}
  Before = before
  Edited = edited
  Exports <- Icons
  Items <- ItemsOfIcons
  Content <- ContentOfIcons
  Target <- TargetOfIcons
  Generations <- GenerationsOfIcons
  Verdicts <- OneGateShut
  Branches = {main, b1}
  Starts <- OneThere
  MaxEdits = 1
  MaxChecks = 1
  MaxCommits = 2
  MaxChanges = 2
  MaxCrashes = 1
INVARIANTS TypeOK NothingIsLost CommitsAreKept
PROPERTY RollbackRestores
\* The bounds end every behaviour.
CHECK_DEADLOCK FALSE
