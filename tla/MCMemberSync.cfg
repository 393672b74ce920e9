CONSTANTS
  I = I
  you = you
  one = one
  two = two
  three = three
  Users = {I, you}
  me = I
  Changes = {one, two, three}
  Workloads <- MCWorkloads
  None = None
  NoData = NoData
SPECIFICATION Spec
INVARIANTS
  TypeOK
  RoleShown
  MembersShown
PROPERTIES
  EventuallyLive
