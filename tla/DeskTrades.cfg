SPECIFICATION DeskSpec
CONSTANTS
  alice = alice
  bob = bob
  id1 = id1
  rAlice = rAlice
  EscrowAddr = escrowAddr
  LedgerAddr = ledgerAddr
  Nobody = Nobody
  Malformed = Malformed
  EmptyXrplAddress = EmptyXrplAddress
  EXPECTED_SOURCE_ID = testXRP
  Parties <- MCParties
  XrplAddresses = {rAlice}
  BIPS = 4
  BAND_BIPS = 1
  BOND_BIPS = 1
  MIN_BLOCK_FXRP = 4
  FTSO_FEE = 1
  MAX_U128 = 20
  MAX_U32 = 9
  Treasuries = {treasury}
  InitialMid = 4
  SETTLEMENT_WINDOW = 2
  ATTESTATION_BUDGET = 1
  MatchIds = {id1}
  Escrows = {escrowAddr}
  Sources = {testXRP}
  MAX_ORACLE_AGE = 2
  REFUND_GRACE = 1
  TxIds = {}
  MAX_SKEW = 1
  Amounts = {4}
  BondAmounts = {1}
  ArmTimes = {1}
  Mids = {3}
  MaxTime = 1
  InitialFxrp <- DeskFxrp
  Instructions = {}
  PaymentForms = {}
  Signers = {k1, k2}
  Keys = {k1, k2}
  RfqMessages <- DeskRfqs
  QuoteMessages <- DeskQuotes
  AllowDirectRfq = FALSE
  Tasks = {t1}
  MaxSeq = 1
  QuoteTTLSec = 2
  MaxPriceStaleness = 1
  PriceStaleMaxSec = 1
  InstructionTTL = 1
  RfqWindowSec = 0
  RfqTTLSec = 1
  MAX_U64 = 20
SYMMETRY KeySymmetry
INVARIANTS
  TradesAgreed
PROPERTIES
  PrefilterImpliesLock
