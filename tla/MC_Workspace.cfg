\* One conversation, one theme, one image, two tools of which one is a candidate; each
\* scope is a set of features that is explored together.
SPECIFICATION Spec
CONSTANTS
    Themes = {t1}
    Sources = {s1}
    Keys = {"a", "b"}
    Tools = {stable, candidate}
    Candidates = {candidate}
    MaxVersions = 3
    MaxLooks = 3
    MaxTasks = 3
    MaxCases = 2
    MaxCrashes = 1
    MaxRestores = 1
    None = None
    Scopes <- MCScopes
INVARIANTS TypeOK ThemeAsPlanned RequestsRunOnce StableUntilAdopted TrialsAreNotDelivered ArchiveIsOneMoment
\* The bounds end every behaviour.
CHECK_DEADLOCK FALSE
