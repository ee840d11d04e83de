CONSTANTS
  a = a
  b = b
  NaN = NaN
  None = None
  Tickers = {a, b}
  Price <- OneDollar
  BookCorr = 5
  MaxPositions = 2
  Seats = {"analyst"}
  Asks <- PmAsks
  Opening <- Books
  Quotes <- Markets
  MaxFires = 2
  MaxFaults = 2
SPECIFICATION Spec
INVARIANTS SizedOnTheBook CloseWrittenOnce VerdictIsTrue
PROPERTIES TicketsFit
CHECK_DEADLOCK FALSE
