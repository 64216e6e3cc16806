SPECIFICATION Spec

CONSTANTS
  Alice = Alice
  Bob = Bob
  Sink = Sink
  NoRelease = NoRelease
  NoOrder = NoOrder
  Consumer = Consumer
  Scale = 2
  MaxInt = 7
  TradingAccounts <- MCAccounts
  Opening <- MCOpening
  Requests <- OneIdTwice
  Withdrawals = {}
  PublishOutcomes <- Confirmed
  MaxCancels = 0
  MaxFaults = 0

INVARIANT
  OpenOrdersAreCovered

CHECK_DEADLOCK FALSE
