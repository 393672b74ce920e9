CONSTANTS
  old = old
  new = new
  todo = todo
  done = done
  extra = extra
  one = one
  two = two
  three = three
  four = four
  Cards = {old, new}
  Columns = {todo, done, extra}
  Calls = {one, two, three, four}
  Workloads <- MCWorkloads
  InitialBoard <- MCInitialBoard
  Seed = Seed
  Guess = Guess
  TopLevel = TopLevel
  Gone = Gone
SPECIFICATION Spec
INVARIANTS
  TypeOK
  SettledMeansSynced
  AheadByOwnMovesOnly
  PlaceholdersArePending
