SPECIFICATION Spec

CONSTANTS
  Alice = Alice
  Bob = Bob
  Sink = Sink
  NoRelease = NoRelease
  NoOrder = NoOrder
  Consumer = Consumer
  Scale = 2
  MaxInt = 7
  TradingAccounts <- MCAccounts
  Opening <- MCOpening
  Requests <- MCRequests
  Withdrawals <- MCWithdrawals
  PublishOutcomes <- Answered
  MaxCancels = 1
  MaxFaults = 1

INVARIANTS
  OpenOrdersAreCovered
  HoldsMatchBook
  ProjectionFollowsEngine

PROPERTY
  OrdersComplete

CHECK_DEADLOCK FALSE
