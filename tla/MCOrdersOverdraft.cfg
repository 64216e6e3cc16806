SPECIFICATION Spec

CONSTANTS
  Alice = Alice
  Bob = Bob
  Sink = Sink
  NoRelease = NoRelease
  NoOrder = NoOrder
  Consumer = Consumer
  Scale = 2
  MaxInt = 7
  TradingAccounts <- MCAccounts
  Opening <- MCOpening
  Requests <- TwoPurchases
  Withdrawals = {}
  PublishOutcomes <- Confirmed
  MaxCancels = 0
  MaxFaults = 0

INVARIANT
  NoOverdraft

CHECK_DEADLOCK FALSE
