SPECIFICATION MakerSpec
CONSTANTS
  deskTaker = deskTaker
  visitor = visitor
  m1 = m1
  rDesk = rDesk
  rVisitor = rVisitor
  EscrowAddr = escrowAddr
  LedgerAddr = ledgerAddr
  Nobody = Nobody
  Malformed = Malformed
  EmptyXrplAddress = EmptyXrplAddress
  EXPECTED_SOURCE_ID = testXRP
  NoId = NoId
  NoTx = NoTx
  Prices = {4}
  Parties <- MCParties
  XrplOf <- MCXrplOf
  XrplAddresses = {rDesk, rVisitor}
  DeskTaker = deskTaker
  VisitingTakers = {visitor}
  Makers = {m1}
  Requests = {r1}
  MatchIds = {id1}
  RunIds = {id1}
  TxIds = {x1}
  BIPS = 4
  BAND_BIPS = 1
  BOND_BIPS = 1
  MIN_BLOCK_FXRP = 4
  FTSO_FEE = 1
  MAX_U128 = 40
  MAX_U32 = 9
  MAX_ORACLE_AGE = 9
  Treasuries = {treasury}
  Signers = {key1}
  TeeKeys = {key1}
  Escrows = {escrowAddr}
  Sources = {testXRP}
  InitialMid = 5
  Mids = {}
  SETTLEMENT_WINDOW = 2
  ATTESTATION_BUDGET = 1
  REFUND_GRACE = 0
  MAX_SKEW = 0
  RUN_LOCK_TTL = 1
  RECORD_TTL = 0
  RFQ_WINDOW = 1
  INSTRUCTION_TTL = 1
  ARMED_FOR = 3
  MAX_WAIT = 1
  MAX_ATTEMPTS = 2
  MaxTime = 2
  Amounts = {}
  BondAmounts = {}
  ArmTimes = {2}
  Instructions = {}
  PaymentForms <- MCPaymentForms
  InitialFxrp <- MCFxrp
SYMMETRY MakerSymmetry
INVARIANTS
  MakerTypeOK
  RecordIsOnChain
  DetectedPaymentCovers
