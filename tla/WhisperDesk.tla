---------------------------- MODULE WhisperDesk -----------------------------
(***************************************************************************)
(* The desk: the enclave beside the contracts.  The enclave's view of the  *)
(* chain is the contracts' own state, read through its cache; what lock()  *)
(* is given is what the sign port has signed, by anybody who has it, in    *)
(* any order and any number of times; and the owner registers the key of   *)
(* a boot with setTeeSigner some time after the node has come up with it.  *)
(***************************************************************************)
EXTENDS DvPEscrow

CONSTANTS
  Keys, RfqMessages, QuoteMessages, AllowDirectRfq, Tasks, MaxSeq,
  QuoteTTLSec, MaxPriceStaleness, PriceStaleMaxSec, InstructionTTL,
  RfqWindowSec, RfqTTLSec, MAX_U64

\* The owner registers the keys the node shows; what is on the wire is typed.
ASSUME DeskAssumption ==
  /\ Keys = Signers
  /\ RfqMessages \subseteq
       [id : MatchIds, submitter : Parties, sender : Parties, taker : Parties,
        amount : Nat, limit : Nat, xrplAddress : XrplAddresses \cup {EmptyXrplAddress}]
  /\ QuoteMessages \subseteq
       [id : MatchIds, signer : Parties, maker : Parties, price : Nat, maxFxrp : Nat,
        nonce : Nat]
  /\ QuoteTTLSec \in Nat /\ MaxPriceStaleness \in Nat /\ PriceStaleMaxSec \in Nat
  /\ InstructionTTL \in Nat /\ RfqWindowSec \in Nat /\ RfqTTLSec \in Nat
  /\ MAX_U64 \in Nat

VARIABLES
  rfqs, quotes, nextSeq, tracked, cache, teeKey, usedKeys, mined, tasks, signed, answers

enclaveVars ==
  <<rfqs, quotes, nextSeq, tracked, cache, teeKey, usedKeys, mined, tasks, signed, answers>>

deskVars == <<vars, enclaveVars>>

\* What the contracts and the feed may show the enclave.
ChainView ==
  [mid : Nat, bond : [Parties -> Nat], balances : [Parties -> TakerBalance]]

TEE == INSTANCE Enclave WITH
  RfqIds <- MatchIds, Escrow <- EscrowAddr, NoParty <- Nobody,
  BandBips <- BAND_BIPS, BondBips <- BOND_BIPS, MinBlockFxrpRaw <- MIN_BLOCK_FXRP,
  ChainStates <- ChainView, chainMid <- oracle.mid, chainBond <- freeBond,
  chainBalances <- balances

DeskInit ==
  /\ Init
  /\ teeKey \in Keys
  /\ TEE!EnclaveInit

EnclaveActs == TEE!EnclaveStep /\ UNCHANGED vars

\* A signature recovers to a key only if the TEE signed with it.
LockSigned ==
  \E s \in signed, value \in {0, FTSO_FEE} : lock(s.mi, s.key, value)

\* The owner wires the contracts and registers keys the node has shown.  That the
\* pause only ever stops lock() is the subject of DvPEscrow's own runs.
Operate ==
  \/ setEscrow(EscrowAddr) /\ Unescrowed
  \/ \E k \in usedKeys : setTeeSigner(k)

ContractsAct ==
  /\ LockSigned \/ TakerStep \/ MakerStep \/ ReleaseStep \/ RefundStep \/ Operate \/ WorldStep
  /\ UNCHANGED enclaveVars

DeskNext == EnclaveActs \/ ContractsAct

DeskSpec == DeskInit /\ [][DeskNext]_deskVars

-----------------------------------------------------------------------------
(***************************************************************************)
(* Properties.                                                             *)
(***************************************************************************)

\* From sealed message to bond: every trade on chain is one its taker sealed and
\* its maker quoted, at the maker's price and no less than the taker's limit,
\* whatever was replayed, restarted, re-signed or raced on the way.  It is the
\* only trade of its RFQ, and the maker's bond behind it is the agreed fraction
\* of the size the taker asked for.
TradesAgreed ==
  \A id \in MatchIds :
    matches[id].state # "None" =>
      \E s \in signed :
        /\ TEE!WithinTerms(s.mi)
        /\ s.mi.matchId = id
        /\ s.mi.taker = matches[id].taker /\ s.mi.maker = matches[id].maker
        /\ s.mi.amountFxrp = matches[id].amountFxrp
        /\ s.mi.takerXrplAddress = matches[id].takerXrplAddress
        /\ matches[id].bondAmount = BondFor(s.mi.amountFxrp)
        /\ matches[id].lockedAt <= s.mi.instructionExpiresAt

\* The request saw no more than what the chain has now of the parties.
SeesNoMore(t) ==
  /\ t.snap.mid = oracle.mid
  /\ t.snap.takerAvailable <= TEE!available(balances[rfqs[t.id].taker])
  /\ \A m \in Parties : t.snap.freeBond[m] <= freeBond[m]

\* What lock checks of an instruction, the signature, the pause, the fee and the
\* age of the price aside.
Lockable(mi) ==
  /\ mi.escrow = EscrowAddr /\ WellFormed(mi)
  /\ InBand(mi.priceUsd18, oracle.mid)
  /\ balances[mi.taker].armedUntil >= now
  /\ Available(mi.taker) >= mi.amountFxrp
  /\ freeBond[mi.maker] >= BondFor(mi.amountFxrp)

\* The enclave's prefilter and lock apply the same rules (match.go: inBand
\* "mirrors DvPEscrow.lock()'s band re-check exactly", BondBips is "mirrored
\* in-enclave"): a match found in time on a view that is not better than the
\* chain is one that lock accepts, unless its RFQ is already traded.
PrefilterImpliesLock ==
  [][\A k \in Tasks :
       LET t == tasks[k]
       IN  (/\ TEE!findMatch(k) /\ SeesNoMore(t) /\ now <= t.at + InstructionTTL
            /\ matches[t.id].state = "None")
             => Lockable(tasks'[k].outcome.mi)]_deskVars
=============================================================================
