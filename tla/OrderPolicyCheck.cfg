CONSTANTS
  Prices = {0, 1, 2, 3, 7, 10, 13, 20}
  Quantities = {1, 2, 3, 5}
  Bps = {1, 3000, 4999, 5500, 7000, 10000}
  Overpay = 2
SPECIFICATION PolicySpec
INVARIANT FormsAgree
PROPERTY PayingMoreNeverHurts
CHECK_DEADLOCK FALSE
