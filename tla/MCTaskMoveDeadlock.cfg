CONSTANTS
  Base = 8
  Threshold = 1
  None = None
  colA = colA
  colB = colB
  colX = colX
  home = home
  away = away
  r1 = r1
  r2 = r2
  r3 = r3
  TaskIds <- MCTaskIds
  Columns = {colA, colB, colX}
  Boards = {home, away}
  BoardOf <- MCBoardOf
  Reqs = {r1, r2, r3}
  Workloads <- DeadlockWorkloads
  MaxAhead = 2
  InitialTable <- DeadlockTable
SPECIFICATION Spec
INVARIANTS
  MovesNeverDeadlock
