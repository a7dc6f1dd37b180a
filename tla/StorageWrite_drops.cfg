SPECIFICATION FairSpec
CONSTANTS
  c1 = c1
  c2 = c2
  t1 = t1
  t2 = t2
  Clients <- MCOneClient
  Tables <- MCOneTable
  Shapes <- MCTwoShapes
  MaxStreams = 1
  MaxBatch = 1
  MaxRows = 2
  MaxCommits = 1
  MaxTableRows = 1
  MaxDrops = 1
  MaxCrashes = 0
INVARIANTS FlushedPrefix
PROPERTIES StreamsOnlyGrow ImplementsPromise CallsReturn
