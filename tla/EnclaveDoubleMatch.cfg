SPECIFICATION Spec
CONSTANTS
  alice = alice
  bob = bob
  carol = carol
  r1 = r1
  rAlice = rAlice
  Parties <- MCParties
  Escrow = escrowAddr
  NoParty = NoParty
  EmptyXrplAddress = EmptyXrplAddress
  BIPS = 4
  BandBips = 1
  BondBips = 1
  QuoteTTLSec = 2
  MaxPriceStaleness = 1
  PriceStaleMaxSec = 1
  InstructionTTL = 3
  RfqIds = {r1}
  XrplAddresses = {rAlice}
  MinBlockFxrpRaw = 4
  RfqWindowSec = 1
  RfqTTLSec = 1
  MAX_U64 = 7
  Keys = {k1}
  AllowDirectRfq = FALSE
  Tasks = {t1, t2}
  MaxTime = 2
  MaxSeq = 1
  RfqMessages <- AliceRfq
  QuoteMessages <- OneQuote
  ChainStates <- FundedChain
INVARIANTS
  AnswersAgree
