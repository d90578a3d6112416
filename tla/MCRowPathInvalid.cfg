SPECIFICATION Spec
CONSTANTS
  Digits = 3
  Precision = 2
  TETHER_TREASURY_ADDRESS = treasury
  Tokens = {usdt, other}
  Addresses = {treasury, wallet}
  Values = {0, 7, 999, 1000}
  Decimals = {0, 2}
  MaxRuns = 2
  MaxLogs = 2
  Null = Null
INVARIANT InvalidStoresNothing
