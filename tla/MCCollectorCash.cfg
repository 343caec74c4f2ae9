SPECIFICATION CashSpec
CONSTANTS
  Customers = {c1, c2}
  Names = {ani, budi}
  Invoices = {i1}
  Settlements = {s1}
  Amounts = {1}
  MaxRequests = 3
  MaxFailures = 1
  NoId = NoId
  NoName = NoName
SYMMETRY Symmetry
INVARIANTS
  CashTypeOK
  CashIsAccounted
CHECK_DEADLOCK FALSE
