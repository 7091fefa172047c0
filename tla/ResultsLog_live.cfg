SPECIFICATION FairSpec
CONSTANTS
  Threads = {t1, t2}
  Drafts <- OneDraft
  Posts <- OnePost
  Limits = {2}
  MaxRuns = 2
  MaxCrashes = 0
  Free = Free
PROPERTY EveryCallReturns
