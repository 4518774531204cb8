SPECIFICATION FairSpec
CONSTANTS
  alice = alice
  bob = bob
  id1 = id1
  id2 = id2
  rAlice = rAlice
  rBob = rBob
  otherEscrow = otherEscrow
  otherSource = otherSource
  EscrowAddr = escrowAddr
  LedgerAddr = ledgerAddr
  Nobody = Nobody
  Malformed = Malformed
  EmptyXrplAddress = EmptyXrplAddress
  EXPECTED_SOURCE_ID = testXRP
  Parties <- MCParties
  XrplAddresses = {rAlice, rBob}
  BIPS = 4
  BAND_BIPS = 1
  BOND_BIPS = 1
  MIN_BLOCK_FXRP = 4
  FTSO_FEE = 1
  MAX_U128 = 20
  MAX_U32 = 9
  Treasuries = {treasury}
  InitialMid = 4
  SETTLEMENT_WINDOW = 2
  ATTESTATION_BUDGET = 1
  MatchIds = {id1}
  Signers = {k1}
  Escrows = {escrowAddr, otherEscrow}
  Sources = {testXRP, otherSource}
  MAX_ORACLE_AGE = 1
  REFUND_GRACE = 1
  TxIds = {x1}
  MAX_SKEW = 1
  Amounts = {4}
  BondAmounts = {1}
  ArmTimes = {1}
  Mids = {5}
  MaxTime = 5
  InitialFxrp <- ChecksFxrp
  Instructions <- ChecksInstructions
  PaymentForms <- ChecksPayments
INVARIANTS
  DropsWithinBand
PROPERTIES
  HonestMakerHasTime
  EveryMatchSettles
