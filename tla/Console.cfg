SPECIFICATION Spec
CONSTANTS
  Tabs = {t1}
  Deals = {d1, d2}
  Desk = desk
  None = None
  MAX_NONCE = 1
  MAX_SENDS = 2
  MAX_ARMED = 1
  MAX_LOSSES = 1
CONSTRAINT
  SecondDeal
SYMMETRY DealSymmetry
INVARIANTS
  ScreensTypeOK
  NothingStalls
  RetryIsOfTheMatch
  HeardIsNotSentAgain
  SettledMeansReleased
PROPERTIES
  QuoteItWaitsForTheTrade
CHECK_DEADLOCK FALSE
