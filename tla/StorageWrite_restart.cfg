SPECIFICATION Spec
CONSTANTS
  c1 = c1
  c2 = c2
  t1 = t1
  t2 = t2
  Clients <- MCOneClient
  Tables <- MCOneTable
  Shapes <- MCOneShape
  MaxStreams = 1
  MaxBatch = 2
  MaxRows = 2
  MaxCommits = 1
  MaxTableRows = 1
  MaxDrops = 0
  MaxCrashes = 1
INVARIANTS AckedDurable
