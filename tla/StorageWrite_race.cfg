SPECIFICATION Spec
CONSTANTS
  c1 = c1
  c2 = c2
  t1 = t1
  t2 = t2
  Clients <- MCClients
  Tables <- MCOneTable
  Shapes <- MCOneShape
  MaxStreams = 1
  MaxBatch = 1
  MaxRows = 2
  MaxCommits = 1
  MaxTableRows = 1
  MaxDrops = 0
  MaxCrashes = 0
SYMMETRY MCClientSymmetry
INVARIANTS RowsAccountedFor PendingInvisible OffsetsTile
