SPECIFICATION Spec
CONSTANTS
  Threads = {t1, t2}
  Drafts <- OneDraft
  Posts <- OnePost
  Limits = {9}
  MaxRuns = 2
  MaxCrashes = 0
  Free = Free
INVARIANT PageNewestFirst
