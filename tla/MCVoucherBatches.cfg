SPECIFICATION Spec
CONSTANTS
  Users = {u1, u2}
  Panel = {B1}
  Import = Imp
  Names <- MCNames
  Requests = {1, 2}
  NoRow = NoRow
INVARIANTS
  TypeOK
  UsedIsSpared
CHECK_DEADLOCK FALSE
