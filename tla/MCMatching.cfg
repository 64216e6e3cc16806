SPECIFICATION Spec

CONSTANTS
  Alice = Alice
  Bob = Bob
  NoOrder = NoOrder
  Accounts <- MCAccounts
  Requests <- MCRequests
  MaxOrders = 4

SYMMETRY Symmetry
CHECK_DEADLOCK FALSE

INVARIANTS
  BookConsistent
  ReportsAgree
  RestoreRebuilds

PROPERTIES
  FOKFillsWithoutOwnOrders
  ImplementsMarket
