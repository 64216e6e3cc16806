SPECIFICATION Spec

CONSTANTS
  Alice = Alice
  Bob = Bob
  Sink = Sink
  NoRelease = NoRelease
  Scale = 2
  MaxInt = 7
  TradingAccounts <- MCAccounts
  Opening <- MCOpening
  Trades <- MCTrades
  Credits <- MCCredits
  Reservations <- MCReservations
  Callers = {consumer, handler}

INVARIANT
  ReservedIsHolds
