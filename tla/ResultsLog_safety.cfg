SPECIFICATION Spec
CONSTANTS
  Threads = {t1, t2}
  Drafts <- MCDrafts
  Posts <- MCPosts
  Limits = {1, 9}
  MaxRuns = 2
  MaxCrashes = 1
  Free = Free
SYMMETRY Perms
INVARIANTS TypeOK AckedLostOnlyByGlue NoDuplicateRuns PageComplete
PROPERTY ImplementsRunTable
