SPECIFICATION DeskSpec
CONSTANTS
  deskOwner = deskOwner
  deskTaker = deskTaker
  deskMaker = deskMaker
  visitor = visitor
  rDesk = rDesk
  rVisitor = rVisitor
  EscrowAddr = escrowAddr
  LedgerAddr = ledgerAddr
  Nobody = Nobody
  Malformed = Malformed
  EmptyXrplAddress = EmptyXrplAddress
  EXPECTED_SOURCE_ID = testXRP
  OwnerKey = ownerKey
  NoId = NoId
  Parties <- MCParties
  VisitorXrpl <- MCVisitorXrpl
  XrplAddresses = {rDesk, rVisitor}
  DeskXrplAddress = rDesk
  DeskOwner = deskOwner
  DeskTaker = deskTaker
  DeskMaker = deskMaker
  Visitors = {visitor}
  Requests = {r1}
  MatchIds = {id1, id2}
  RunIds = {id1, id2}
  TxIds = {x1}
  BIPS = 4
  BAND_BIPS = 1
  BOND_BIPS = 1
  MIN_BLOCK_FXRP = 4
  XRPL_PAY_BUFFER_NUM = 6
  XRPL_PAY_BUFFER_DEN = 4
  MAX_XRP_DROPS = 6
  PayBodies <- MCPayBodies
  FTSO_FEE = 1
  MAX_U128 = 40
  MAX_U32 = 9
  MAX_ORACLE_AGE = 9
  Treasuries = {treasury}
  Signers = {ownerKey}
  Escrows = {escrowAddr}
  Sources = {testXRP}
  InitialMid = 4
  Mids = {}
  SETTLEMENT_WINDOW = 2
  ATTESTATION_BUDGET = 1
  REFUND_GRACE = 0
  MAX_SKEW = 0
  RUN_LOCK_TTL = 2
  PREPARE_RECORD_TTL = 2
  WALLET_MODE_DEADLINE = 3
  ONE_CLICK_DEADLINE = 1
  ARMED_FOR = 4
  MaxTime = 3
  Amounts = {}
  BondAmounts = {}
  ArmTimes = {}
  Instructions = {}
  PaymentForms = {}
  InitialFxrp <- ToppedUpFxrp
SYMMETRY DeskSymmetry
INVARIANT
  TagAsPredicted
