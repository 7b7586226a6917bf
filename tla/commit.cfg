SPECIFICATION Spec
CONSTANTS
  Paths = {code, fresh, scratch}
  Excluded = {scratch}
  Tracked = {code}
  Places = {"worktree", "detached"}
  MaxVersion = 2
  MaxRounds = 1
CHECK_DEADLOCK FALSE
INVARIANTS  CompletedIsDelivered TeardownDestroysOnlyLateEdits  RecordedPullRequestExists
