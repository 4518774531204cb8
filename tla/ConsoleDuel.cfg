SPECIFICATION DuelSpec
CONSTANTS
  Tabs = {t1, t2}
  Deals = {d1}
  Desk = desk
  None = None
  MAX_NONCE = 1
  MAX_SENDS = 1
  MAX_ARMED = 1
  MAX_LOSSES = 0
SYMMETRY DuelSymmetry
INVARIANT
  PayerIsTheMaker
CHECK_DEADLOCK FALSE
