SPECIFICATION Spec
CONSTANTS
  c1 = c1
  c2 = c2
  t1 = t1
  t2 = t2
  Clients <- MCOneClient
  Tables <- MCOneTable
  Shapes <- MCOneShape
  MaxStreams = 2
  MaxBatch = 1
  MaxRows = 1
  MaxCommits = 2
  MaxTableRows = 2
  MaxDrops = 0
  MaxCrashes = 0
INVARIANT BatchCommitAtomic
