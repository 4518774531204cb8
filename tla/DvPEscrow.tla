----------------------------- MODULE DvPEscrow ------------------------------
(***************************************************************************)
(* contracts/src/DvPEscrow.sol: delivery-versus-payment of FXRP against    *)
(* native XRP.  A taker arms FXRP; a match instruction signed by the TEE   *)
(* locks part of it together with 1% of it from the maker's bond; the      *)
(* maker pays XRP on the XRP Ledger under a fresh destination tag; a proof *)
(* of that payment releases the FXRP to the maker, and if none arrives in  *)
(* time anyone may refund the taker, who also gets the bond.               *)
(*                                                                         *)
(* Around the contract are the services it reads: the FTSO price feed, the *)
(* XRP Ledger and the FDC attestation of XRPL payments.                    *)
(***************************************************************************)
EXTENDS Integers, BondLedger

CONSTANTS
  Signers,            \* TEE identity addresses, one per enclave boot
  Malformed,          \* a signature of the wrong length or with a high S
  Escrows,            \* escrow addresses an instruction or proof may name
  XrplAddresses,      \* r-addresses takers are paid at
  EmptyXrplAddress,   \* the empty string
  Instructions,       \* the match instructions presented to lock()
  BIPS,               \* 10_000
  BAND_BIPS,
  BOND_BIPS,
  MAX_ORACLE_AGE,
  SETTLEMENT_WINDOW,
  ATTESTATION_BUDGET,
  REFUND_GRACE,
  MIN_BLOCK_FXRP,
  FTSO_FEE,           \* native fee of one price read
  MAX_U32,            \* type(uint32).max
  TxIds,              \* XRPL transaction ids
  Sources,            \* FDC source ids
  EXPECTED_SOURCE_ID,
  MAX_SKEW,           \* how far XRPL close times may be from block.timestamp
  InitialFxrp,        \* token balances of the parties before any deposit
  Treasuries,         \* addresses the owner may name as fee treasury
  Amounts,            \* bound: amounts deposited and withdrawn by takers
  BondAmounts,        \* bound: amounts deposited and withdrawn by makers
  ArmTimes,           \* bound: arming times asked for in a deposit
  InitialMid,         \* the price the feed shows at time 0
  Mids,               \* bound: prices the feed publishes later
  PaymentForms,       \* bound: the XRPL payments that are made
  MaxTime             \* bound on the clock

WholeWindow == SETTLEMENT_WINDOW

PAYMENT_WINDOW == SETTLEMENT_WINDOW - ATTESTATION_BUDGET

MatchInstruction ==
  [matchId : MatchIds, escrow : Escrows, taker : Parties, maker : Parties,
   amountFxrp : Nat, priceUsd18 : Nat,
   takerXrplAddress : XrplAddresses \cup {EmptyXrplAddress},
   instructionExpiresAt : Nat]

\* What the FDC response body says of one XRPL transaction, but for its time.
\* A failed one (status # 0) has its receiving address zeroed; of a partial payment
\* less is received than was intended.
PaymentForm ==
  [source : Sources, status : 0..2,
   receivingAddress : XrplAddresses \cup {EmptyXrplAddress},
   hasDestinationTag : BOOLEAN, destinationTag : Nat,
   receivedAmount : Int, intendedReceivedAmount : Int]

ASSUME EscrowAssumption ==
  /\ Signers # {} /\ Nobody \notin Signers /\ Malformed \notin Signers
  /\ EscrowAddr \in Escrows
  /\ EmptyXrplAddress \notin XrplAddresses
  /\ Instructions \subseteq MatchInstruction
  /\ BIPS \in Nat \ {0} /\ BAND_BIPS \in 0..BIPS /\ BOND_BIPS \in 0..BIPS
  /\ MAX_ORACLE_AGE \in Nat
  /\ SETTLEMENT_WINDOW \in Nat /\ ATTESTATION_BUDGET \in Nat
  /\ ATTESTATION_BUDGET < SETTLEMENT_WINDOW      \* else InvalidWindowConfig
  /\ REFUND_GRACE \in Nat /\ MIN_BLOCK_FXRP \in Nat /\ FTSO_FEE \in Nat
  /\ MAX_U32 \in Nat
  /\ EXPECTED_SOURCE_ID \in Sources
  /\ MAX_SKEW \in Nat /\ MaxTime \in Nat
  /\ InitialFxrp \in [Parties -> Nat]
  /\ Treasuries # {} /\ Nobody \notin Treasuries
  /\ Amounts \subseteq Nat /\ BondAmounts \subseteq Nat
  /\ ArmTimes \subseteq Nat /\ InitialMid \in Nat /\ Mids \subseteq Nat
  /\ PaymentForms \subseteq PaymentForm

VARIABLES
  now,                 \* block.timestamp
  balances,            \* taker => TakerBalance
  matches,             \* matchId => Match
  nextDestinationTag,
  usedTxId,            \* the transaction ids that have funded a release
  teeSigner,
  lockPaused,
  feeTreasury,
  oracle,              \* the FTSO feed: the mid and the time it was set
  payments,            \* the XRP Ledger: what each transaction id paid
  attested             \* <<transaction id, proof owner>> with an FDC proof

escrowVars == <<balances, matches, nextDestinationTag, usedTxId>>
adminVars == <<teeSigner, lockPaused, feeTreasury>>
worldVars == <<oracle, payments, attested>>
vars == <<fxrp, ledgerVars, now, escrowVars, adminVars, worldVars>>

-----------------------------------------------------------------------------
TakerBalance == [armed : Nat, committed : Nat, armedUntil : Nat]

MatchState == {"None", "Locked", "Released", "Refunded"}

Match ==
  [taker : Parties \cup {Nobody}, maker : Parties \cup {Nobody},
   destinationTag : Nat, lockedAt : Nat, state : MatchState,
   paymentDeadline : Nat, refundAfter : Nat, amountFxrp : Nat,
   xrpDrops : Nat, bondAmount : Nat,
   takerXrplAddress : XrplAddresses \cup {EmptyXrplAddress}]

NoMatch ==
  [taker |-> Nobody, maker |-> Nobody, destinationTag |-> 0, lockedAt |-> 0,
   state |-> "None", paymentDeadline |-> 0, refundAfter |-> 0,
   amountFxrp |-> 0, xrpDrops |-> 0, bondAmount |-> 0,
   takerXrplAddress |-> EmptyXrplAddress]

Payment ==
  [made : BOOLEAN, form : PaymentForm, blockTimestamp : Nat]

NoPayment ==
  [made |-> FALSE, blockTimestamp |-> 0,
   form |-> [source |-> EXPECTED_SOURCE_ID, status |-> 0,
             receivingAddress |-> EmptyXrplAddress, hasDestinationTag |-> FALSE,
             destinationTag |-> 0, receivedAmount |-> 0, intendedReceivedAmount |-> 0]]

TypeOK ==
  /\ LedgerTypeOK
  /\ now \in Nat
  /\ balances \in [Parties -> TakerBalance]
  /\ matches \in [MatchIds -> Match]
  /\ nextDestinationTag \in Nat
  /\ usedTxId \subseteq TxIds
  /\ teeSigner \in Signers
  /\ lockPaused \in BOOLEAN
  /\ feeTreasury \in Treasuries
  /\ oracle \in [mid : Nat, ts : Nat]
  /\ payments \in [TxIds -> Payment]
  /\ attested \subseteq {tx \in TxIds : payments[tx].made} \X Escrows

Init ==
  /\ LedgerInit
  /\ fxrp = [a \in Accounts |-> IF a \in Parties THEN InitialFxrp[a] ELSE 0]
  /\ now = 0
  /\ balances = [p \in Parties |-> [armed |-> 0, committed |-> 0, armedUntil |-> 0]]
  /\ matches = [id \in MatchIds |-> NoMatch]
  /\ nextDestinationTag = 1
  /\ usedTxId = {}
  /\ teeSigner \in Signers
  /\ lockPaused = FALSE
  /\ feeTreasury \in Treasuries
  /\ oracle = [mid |-> InitialMid, ts |-> 0]
  /\ payments = [tx \in TxIds |-> NoPayment]
  /\ attested = {}

-----------------------------------------------------------------------------
(***************************************************************************)
(* Taker funds.                                                            *)
(***************************************************************************)
Larger(a, b) == IF a > b THEN a ELSE b

deposit(t, amount, armedUntil) ==
  /\ balances[t].armed + amount <= MAX_U128
  /\ CanPay(t, amount)
  /\ balances' = [balances EXCEPT ![t] =
                    [armed |-> @.armed + amount,
                     committed |-> @.committed,
                     armedUntil |-> Larger(@.armedUntil, armedUntil)]]
  /\ fxrp' = Moved(fxrp, t, EscrowAddr, amount)
  /\ UNCHANGED <<ledgerVars, now, matches, nextDestinationTag, usedTxId,
                 adminVars, worldVars>>

AvailableIsArmed(t) == balances[t].armed

Available(t) == balances[t].armed - balances[t].committed

withdraw(t, amount) ==
  /\ now > balances[t].armedUntil
  /\ amount <= Available(t)
  /\ CanPay(EscrowAddr, amount)
  /\ balances' = [balances EXCEPT ![t].armed = @ - amount]
  /\ fxrp' = Moved(fxrp, EscrowAddr, t, amount)
  /\ UNCHANGED <<ledgerVars, now, matches, nextDestinationTag, usedTxId,
                 adminVars, worldVars>>

(***************************************************************************)
(* lock.  sig is what ecrecover returns for the signature presented:       *)
(* Nobody when recovery fails; Malformed stands for the two shapes that    *)
(* are refused before recovery.                                            *)
(***************************************************************************)
SignatureAccepted(sig) ==
  /\ sig # Malformed
  /\ sig # Nobody
  /\ sig = teeSigner

WellFormed(mi) ==
  /\ matches[mi.matchId].state = "None"
  /\ now <= mi.instructionExpiresAt
  /\ mi.taker # mi.maker
  /\ mi.amountFxrp >= MIN_BLOCK_FXRP
  /\ mi.takerXrplAddress # EmptyXrplAddress

OracleFresh == oracle.mid # 0 /\ oracle.ts <= now /\ now - oracle.ts <= MAX_ORACLE_AGE

InBandFromBelow(price, mid) == price * BIPS >= mid * (BIPS - BAND_BIPS)

InBand(price, mid) ==
  /\ price * BIPS >= mid * (BIPS - BAND_BIPS)
  /\ price * BIPS <= mid * (BIPS + BAND_BIPS)

Drops(mi) == (mi.amountFxrp * mi.priceUsd18) \div oracle.mid

BondFor(amount) == (amount * BOND_BIPS) \div BIPS

\* The record lock writes, its destination tag aside.
MatchWithTag(mi, tag) ==
  [taker |-> mi.taker, maker |-> mi.maker,
   destinationTag |-> tag, lockedAt |-> now, state |-> "Locked",
   paymentDeadline |-> now + PAYMENT_WINDOW,
   refundAfter |-> now + SETTLEMENT_WINDOW,
   amountFxrp |-> mi.amountFxrp, xrpDrops |-> Drops(mi),
   bondAmount |-> BondFor(mi.amountFxrp),
   takerXrplAddress |-> mi.takerXrplAddress]

NewMatchTimeTag(mi) == MatchWithTag(mi, now)

NewMatch(mi) == MatchWithTag(mi, nextDestinationTag)

lock(mi, sig, value) ==
  /\ ~lockPaused
  /\ mi.escrow = EscrowAddr
  /\ SignatureAccepted(sig)
  /\ WellFormed(mi)
  /\ value >= FTSO_FEE
  /\ OracleFresh
  /\ InBand(mi.priceUsd18, oracle.mid)
  /\ Drops(mi) <= MAX_U128
  /\ balances[mi.taker].armedUntil >= now
  /\ Available(mi.taker) >= mi.amountFxrp
  /\ balances[mi.taker].committed + mi.amountFxrp <= MAX_U128
  /\ nextDestinationTag < MAX_U32              \* checked nextDestinationTag++
  /\ balances' = [balances EXCEPT ![mi.taker].committed = @ + mi.amountFxrp]
  /\ lockBond(EscrowAddr, mi.matchId, mi.maker, BondFor(mi.amountFxrp))
  /\ matches' = [matches EXCEPT ![mi.matchId] = NewMatch(mi)]
  /\ nextDestinationTag' = nextDestinationTag + 1
  /\ UNCHANGED <<fxrp, now, usedTxId, adminVars, worldVars>>

(***************************************************************************)
(* release.  A proof is presented by its transaction id and the owner the  *)
(* attestation was requested for; the FDC verifier accepts exactly the     *)
(* attested pairs, and its response body is the payment on the ledger.     *)
(***************************************************************************)
PaysFor(p, m) ==
  /\ p.form.source = EXPECTED_SOURCE_ID
  /\ p.form.status = 0
  /\ p.form.receivingAddress = m.takerXrplAddress
  /\ p.form.hasDestinationTag
  /\ p.form.destinationTag = m.destinationTag
  /\ p.form.receivedAmount > 0
  /\ p.form.receivedAmount >= m.xrpDrops
  /\ p.blockTimestamp >= m.lockedAt
  /\ p.blockTimestamp <= m.paymentDeadline

ProofAcceptedUntagged(m, tx, proofOwner) ==
  /\ m.state = "Locked"
  /\ proofOwner = EscrowAddr
  /\ tx \notin usedTxId
  /\ <<tx, proofOwner>> \in attested
  /\ payments[tx].form.receivedAmount >= m.xrpDrops

ProofAccepted(m, tx, proofOwner) ==
  /\ m.state = "Locked"
  /\ proofOwner = EscrowAddr
  /\ tx \notin usedTxId
  /\ <<tx, proofOwner>> \in attested
  /\ PaysFor(payments[tx], m)

UncommitKeepsArmed(t, amount) ==
  /\ balances[t].committed >= amount
  /\ balances' = [balances EXCEPT ![t].committed = @ - amount]

\* The taker's principal leaves the escrow: checked subtractions.
Uncommit(t, amount) ==
  /\ balances[t].committed >= amount
  /\ balances[t].armed >= amount
  /\ balances' = [balances EXCEPT ![t] =
                    [armed |-> @.armed - amount,
                     committed |-> @.committed - amount,
                     armedUntil |-> @.armedUntil]]

release(id, tx, proofOwner) ==
  LET m == matches[id] IN
  /\ ProofAccepted(m, tx, proofOwner)
  /\ CanPay(EscrowAddr, m.amountFxrp)
  /\ matches' = [matches EXCEPT ![id].state = "Released"]
  /\ usedTxId' = usedTxId \cup {tx}
  /\ Uncommit(m.taker, m.amountFxrp)
  /\ releaseBond(EscrowAddr, id)
  /\ fxrp' = Moved(fxrp, EscrowAddr, m.maker, m.amountFxrp)
  /\ UNCHANGED <<now, nextDestinationTag, adminVars, worldVars>>

refund(id) ==
  LET m == matches[id] IN
  /\ m.state = "Locked"
  /\ now > m.refundAfter + REFUND_GRACE
  /\ CanPay(EscrowAddr, m.amountFxrp)
  /\ matches' = [matches EXCEPT ![id].state = "Refunded"]
  /\ Uncommit(m.taker, m.amountFxrp)
  /\ slashBond(EscrowAddr, id)
  /\ fxrp' = Moved(Moved(fxrp, LedgerAddr, m.taker, lockedBonds[id].amount),
                   EscrowAddr, m.taker, m.amountFxrp)
  /\ UNCHANGED <<now, nextDestinationTag, usedTxId, adminVars, worldVars>>

(***************************************************************************)
(* The owner.                                                              *)
(***************************************************************************)
setTeeSigner(newSigner) ==
  /\ newSigner # Nobody
  /\ teeSigner' = newSigner
  /\ UNCHANGED <<fxrp, ledgerVars, now, escrowVars, lockPaused, feeTreasury, worldVars>>

setFeeTreasury(t) ==
  /\ t # Nobody
  /\ feeTreasury' = t
  /\ UNCHANGED <<fxrp, ledgerVars, now, escrowVars, teeSigner, lockPaused, worldVars>>

setLockPaused(p) ==
  /\ lockPaused' = p
  /\ UNCHANGED <<fxrp, ledgerVars, now, escrowVars, teeSigner, feeTreasury, worldVars>>

(***************************************************************************)
(* The services the contract reads, all outside the repository.            *)
(***************************************************************************)
Tick ==
  /\ now < MaxTime
  /\ now' = now + 1
  /\ UNCHANGED <<fxrp, ledgerVars, escrowVars, adminVars, worldVars>>

OracleUpdate(mid) ==
  /\ oracle' = [mid |-> mid, ts |-> now]
  /\ UNCHANGED <<fxrp, ledgerVars, now, escrowVars, adminVars, payments, attested>>

XrplPay(tx, form, ts) ==
  /\ ~payments[tx].made
  /\ payments' = [payments EXCEPT ![tx] =
                    [made |-> TRUE, form |-> form, blockTimestamp |-> ts]]
  /\ UNCHANGED <<fxrp, ledgerVars, now, escrowVars, adminVars, oracle, attested>>

FdcAttest(tx, owner) ==
  /\ payments[tx].made
  /\ attested' = attested \cup {<<tx, owner>>}
  /\ UNCHANGED <<fxrp, ledgerVars, now, escrowVars, adminVars, oracle, payments>>

LedgerClose == {ts \in (now - MAX_SKEW)..(now + MAX_SKEW) : ts >= 0}

Unescrowed == UNCHANGED <<now, escrowVars, adminVars, worldVars>>

TakerStep ==
  \E t \in Parties, a \in Amounts :
    \/ \E u \in ArmTimes : deposit(t, a, u)
    \/ withdraw(t, a)

MakerStep ==
  /\ \E m \in Parties, a \in BondAmounts : depositBond(m, a) \/ withdrawBond(m, a)
  /\ Unescrowed

LockStep ==
  \E mi \in Instructions, sig \in Signers \cup {Nobody, Malformed},
     value \in {0, FTSO_FEE} : lock(mi, sig, value)

ReleaseStep == \E id \in MatchIds, tx \in TxIds, o \in Escrows : release(id, tx, o)

RefundStep == \E id \in MatchIds : refund(id)

OwnerStep ==
  \/ \E k \in Signers : setTeeSigner(k)
  \/ \E t \in Treasuries : setFeeTreasury(t)
  \/ \E p \in BOOLEAN : setLockPaused(p)
  \/ setEscrow(EscrowAddr) /\ Unescrowed

WorldStep ==
  \/ Tick
  \/ \E mid \in Mids : OracleUpdate(mid)
  \/ \E tx \in TxIds, form \in PaymentForms, ts \in LedgerClose : XrplPay(tx, form, ts)
  \/ \E tx \in TxIds, o \in Escrows : FdcAttest(tx, o)

Next ==
  \/ TakerStep
  \/ MakerStep
  \/ LockStep
  \/ ReleaseStep
  \/ RefundStep
  \/ OwnerStep
  \/ WorldStep

Spec == Init /\ [][Next]_vars

-----------------------------------------------------------------------------
(***************************************************************************)
(* Properties.                                                             *)
(***************************************************************************)
OpenMatches == {id \in MatchIds : matches[id].state = "Locked"}

OpenOf(t) == {id \in OpenMatches : matches[id].taker = t}

ReleasedMatches == {id \in MatchIds : matches[id].state = "Released"}

Armed == [p \in Parties |-> balances[p].armed]

AmountOf == [id \in MatchIds |-> matches[id].amountFxrp]

\* The committed counter of every taker, moved by lock, release and refund, is
\* exactly the FXRP behind that taker's open matches, and never exceeds what
\* the taker has armed: withdraw cannot reach funds an open match counts on.
CommittedIsOpen ==
  \A t \in Parties :
    /\ balances[t].committed = Total(AmountOf, OpenOf(t))
    /\ balances[t].committed <= balances[t].armed

\* The escrow holds exactly the FXRP its takers have armed: deposit, withdraw,
\* release and refund move the token and the counters by the same amounts.
EscrowSolvent == fxrp[EscrowAddr] = Total(Armed, Parties)

\* The bond ledger holds exactly the free bonds plus the bonds of open matches.
LedgerSolvent ==
  fxrp[LedgerAddr] = Total(freeBond, Parties) + Total(LockedAmount, ActiveBonds)

\* The two contracts agree: a bond is active exactly while its match is open,
\* it is the maker's, and it is the amount the match recorded.
BondBacksMatch ==
  \A id \in MatchIds :
    /\ lockedBonds[id].active <=> matches[id].state = "Locked"
    /\ matches[id].state = "Locked" =>
         /\ escrow = EscrowAddr
         /\ matches[id].taker \in Parties
         /\ matches[id].maker \in Parties
         /\ lockedBonds[id].maker = matches[id].maker
         /\ lockedBonds[id].amount = matches[id].bondAmount

\* Destination tags are never reused, so an XRPL payment can name one match.
TagsFresh ==
  \A i \in MatchIds : matches[i].state # "None" =>
    /\ matches[i].destinationTag < nextDestinationTag
    /\ \A j \in MatchIds \ {i} :
         matches[j].state # "None" =>
           matches[j].destinationTag # matches[i].destinationTag

\* Delivery versus payment: every release was paid for by an XRPL payment of its
\* own, to the taker, under the match's tag, in full and inside the window.
EveryReleasePaid ==
  \E f \in [ReleasedMatches -> usedTxId] :
    /\ \A i, j \in ReleasedMatches : f[i] = f[j] => i = j
    /\ \A i \in ReleasedMatches : PaysFor(payments[f[i]], matches[i])

\* The mapping of consumed transaction ids holds exactly payments that were made
\* and that funded a release: nothing else can mark a payment as used.
UsedFundsRelease ==
  \A tx \in usedTxId :
    /\ payments[tx].made
    /\ \E id \in ReleasedMatches : PaysFor(payments[tx], matches[id])

\* Nothing but the FDC stands between a paid open match and its release: no
\* other match has consumed the payment, and none of the checks release and
\* refund make on balances, counters and bond can fail.
SettlementUnblocked ==
  \A id \in OpenMatches :
    LET m == matches[id] IN
    /\ \A tx \in TxIds : payments[tx].made /\ PaysFor(payments[tx], m) => tx \notin usedTxId
    /\ CanPay(EscrowAddr, m.amountFxrp)
    /\ CanPay(LedgerAddr, lockedBonds[id].amount)
    /\ m.amountFxrp <= balances[m.taker].committed
    /\ m.amountFxrp <= balances[m.taker].armed
    /\ lockedBonds[id].active

\* The drops a maker owes are the FXRP amount within the oracle band, at most
\* one drop below it for the rounding of the division.
DropsWithinBand ==
  \A id \in MatchIds :
    LET m == matches[id] IN
    /\ m.xrpDrops * BIPS <= m.amountFxrp * (BIPS + BAND_BIPS)
    /\ m.state # "None" => (m.xrpDrops + 1) * BIPS > m.amountFxrp * (BIPS - BAND_BIPS)

\* A maker who paid inside the window has more than ATTESTATION_BUDGET plus
\* REFUND_GRACE from the payment to bring the proof before refund can slash.
HonestMakerHasTime ==
  [][\A id \in MatchIds, tx \in TxIds :
       /\ matches[id].state = "Locked"
       /\ matches'[id].state = "Refunded"
       /\ payments[tx].made
       /\ PaysFor(payments[tx], matches[id])
       => now > payments[tx].blockTimestamp + ATTESTATION_BUDGET + REFUND_GRACE]_vars

(***************************************************************************)
(* The refinement mapping to Settlement.  A party's claim is its own       *)
(* tokens, its uncommitted deposit and its free bond.                      *)
(***************************************************************************)
Claims == [p \in Parties |-> fxrp[p] + Available(p) + freeBond[p]]

Phase == [None |-> "none", Locked |-> "open",
          Released |-> "delivered", Refunded |-> "returned"]

Deals ==
  [id \in MatchIds |->
     [phase |-> Phase[matches[id].state],
      taker |-> matches[id].taker, maker |-> matches[id].maker,
      amount |-> matches[id].amountFxrp, bond |-> matches[id].bondAmount,
      payBy |-> matches[id].paymentDeadline]]

Funded ==
  [id \in MatchIds |->
     {tx \in TxIds : /\ matches[id].state # "None"
                     /\ payments[tx].made
                     /\ PaysFor(payments[tx], matches[id])}]

Promise == INSTANCE Settlement WITH
  Margin <- ATTESTATION_BUDGET + REFUND_GRACE,
  clock <- now, claims <- Claims, deals <- Deals, funded <- Funded, spent <- usedTxId

\* The two contracts implement Settlement: deposits, withdrawals, bonds, owner
\* and oracle steps change nobody's claim, and lock, release and refund are
\* exactly the opening, the delivery and the return of one deal.
ImplementsSettlement == Promise!SSpec

\* Time passes and somebody calls refund once it is open: refund needs no
\* permission and pays the taker, who is there to call it.
Fairness == WF_vars(Tick) /\ \A id \in MatchIds : WF_vars(refund(id))

FairSpec == Spec /\ Fairness

\* Every locked match settles, whatever the owner pauses and whoever withdraws:
\* the taker's principal is never stuck.
EveryMatchSettles ==
  \A id \in MatchIds : matches[id].state = "Locked" ~> matches[id].state # "Locked"

=============================================================================
