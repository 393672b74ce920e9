CONSTANTS
  alice = alice
  bob = bob
  carol = carol
  r1 = r1
  r2 = r2
  r3 = r3
  None = None
  Users <- MCUsers
  Reqs = {r1, r2, r3}
  Workloads <- HandOverWorkload
  InitialBoards <- MCBoards
SPECIFICATION Spec
INVARIANTS OwnerIdIsAnOwner
