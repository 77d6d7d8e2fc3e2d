CONSTANTS
  g1 = g1
  g2 = g2
  g3 = g3
  a = a
  d1 = d1
  d2 = d2
  Absent = Absent
  NoProc = NoProc
  Procs = {g1, g2, g3}
  Ids = {a}
  Defs = {d1, d2}
  Resources <- MCResources
SPECIFICATION FairSpec
INVARIANTS TypeOK NoDataRace WaitsBehindHolder
PROPERTIES KeepsDefinitions ImplementsStore EveryCallReturns
