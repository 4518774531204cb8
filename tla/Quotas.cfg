SPECIFICATION QuotasSpec
CONSTANTS
  Kinds = {"maker-faucet"}
  PerIp <- MCPerIp
  Global <- MCGlobal
  a1 = a1
  a2 = a2
  a3 = a3
  Askers <- MCAskers
  Ips = {ip1, ip2, ip3}
  MaxRequests = 3
  MaxSettled = 1
  Addresses = {a1, a2, a3}
  WINDOW = 2
  CLAIM_GAP = 2
  DAY = 2
  GAS_DRIP = 1
  GAS_ENOUGH = 1
  GAS_OWNER_RESERVE = 2
  GAS_DAILY_BUDGET = 2
  FAUCET_MINT = 1
  OwnerGas = 3
  OwnerFxrp = 1
  Calls = {c1, c2}
  MaxTime = 2
SYMMETRY QuotaSymmetry
INVARIANTS
  QuotasTypeOK
  RollingQuota
  RetryAfterHonest
  GasDayBudget
  ClaimsSpaced
  ReserveOvershootBounded
