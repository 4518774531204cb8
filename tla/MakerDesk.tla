------------------------------ MODULE MakerDesk ------------------------------
(***************************************************************************)
(* web/src/app/api/maker, /taker/rfq/confirm and web/src/lib/demo/maker.ts: *)
(* the server between a visiting maker, the enclave and the escrow the     *)
(* enclave signs for.  It opens RFQs of its own as the taker, publishes    *)
(* those of visiting takers, asks the enclave for the match, verifies and  *)
(* relays the lock, and then pays from, or looks for a payment of, the     *)
(* maker.  As in DeskServer a request is one activation of a route and an  *)
(* action the code between two awaits.                                     *)
(*                                                                         *)
(* Of the enclave there is what a caller of RFQ_MATCH sees of it: the      *)
(* window, the makers with an acceptable quote, the outcome it has         *)
(* stored.  Module Enclave has the rest.  An rfqId is its match id.        *)
(***************************************************************************)
EXTENDS DvPEscrow, RunLock

CONSTANTS
  Requests,           \* bound: handlers in flight at the same time
  DeskTaker,          \* the desk's taker wallet
  VisitingTakers,
  Makers,
  XrplOf,             \* where each taker is paid
  TeeKeys,            \* keys the enclave has had, the present one included
  Prices,             \* what the makers quote
  NoTx,
  RECORD_TTL,
  RFQ_WINDOW,         \* WD_RFQ_WINDOW_SEC
  INSTRUCTION_TTL,    \* 300 s in matchCore
  ARMED_FOR,          \* MAKER_MODE_ARMED_SECONDS + 300
  MAX_WAIT,           \* never block past 5 minutes
  MAX_ATTEMPTS        \* 4

Takers == {DeskTaker} \cup VisitingTakers

ASSUME MakerDeskAssumption ==
  /\ DeskTaker \notin VisitingTakers /\ Takers \cap Makers = {}
  /\ Takers \cup Makers \subseteq Parties
  /\ XrplOf \in [Takers -> XrplAddresses]
  /\ TeeKeys \subseteq Signers /\ TeeKeys # {}
  /\ Prices \subseteq Nat
  /\ RunIds = MatchIds /\ NoTx \notin TxIds
  /\ RECORD_TTL \in Nat /\ RFQ_WINDOW \in Nat \ {0} /\ INSTRUCTION_TTL \in Nat
  /\ ARMED_FOR \in Nat /\ MAX_WAIT \in Nat /\ MAX_ATTEMPTS \in Nat \ {0}
  \* a block is worth a drop at any price in the band
  /\ MIN_BLOCK_FXRP * (BIPS - BAND_BIPS) >= BIPS
  \* what is sent by hand is sent on the ledger the scan reads
  /\ \A form \in PaymentForms : form.source = EXPECTED_SOURCE_ID

VARIABLES
  enclave,            \* rfqId => what the enclave knows of it
  rfqStore,           \* rfqId => RfqRecord
  matchStore,         \* matchId => MatchRecord
  currentMakerXrplAccount,
  requests

records == <<rfqStore, matchStore, currentMakerXrplAccount>>
serverVars == <<currentRun, records, requests>>
makerVars == <<vars, enclave, serverVars>>

-----------------------------------------------------------------------------
Instruction(id, taker, maker, price, expires) ==
  [matchId |-> id, escrow |-> EscrowAddr, taker |-> taker, maker |-> maker,
   amountFxrp |-> MIN_BLOCK_FXRP, priceUsd18 |-> price,
   takerXrplAddress |-> XrplOf[taker], instructionExpiresAt |-> expires]

NoInstruction ==
  [matchId |-> NoId, escrow |-> EscrowAddr, taker |-> Nobody, maker |-> Nobody,
   amountFxrp |-> 0, priceUsd18 |-> 0, takerXrplAddress |-> EmptyXrplAddress,
   instructionExpiresAt |-> 0]

Instructed == MatchInstruction \cup {NoInstruction}

EnclaveRfq ==
  [taker : Takers \cup {Nobody}, windowEndsAt : Nat, quoted : SUBSET Makers,
   outcome : {"absent", "open", "NO_MATCH", "MATCHED"}, match : Instructed,
   key : TeeKeys \cup {Nobody}]

NotSubmitted ==
  [taker |-> Nobody, windowEndsAt |-> 0, quoted |-> {}, outcome |-> "absent",
   match |-> NoInstruction, key |-> Nobody]

RfqRecord == [windowEndsAt : Nat, createdAt : Nat]

MatchRecord ==
  [xrplDestination : XrplAddresses, xrpDrops : Nat, destinationTag : Nat,
   paymentDeadline : Nat, xrplTx : TxIds \cup {NoTx}, createdAt : Nat]

NoRfqRecord == [windowEndsAt |-> 0, createdAt |-> 0]

NoMatchRecord ==
  [xrplDestination |-> EmptyXrplAddress, xrpDrops |-> 0, destinationTag |-> 0,
   paymentDeadline |-> 0, xrplTx |-> NoTx, createdAt |-> 0]

NoAccount == [createdAt |-> -1]

OpenSteps == {"fund", "submit", "ack"}

MatchSteps == {"trigger", "store", "verify", "lock", "record"}

Steps == OpenSteps \cup MatchSteps \cup {"pay", "paid", "scan", "conclude"}

Request ==
  [pc : Steps, id : MatchIds \cup {NoId}, until : Nat, attempts : 0..MAX_ATTEMPTS,
   match : Instructed, key : TeeKeys \cup {Nobody}, xrplTx : TxIds \cup {NoTx}]

Idle ==
  [pc |-> "idle", id |-> NoId, until |-> 0, attempts |-> 0, match |-> NoInstruction,
   key |-> Nobody, xrplTx |-> NoTx]

MakerTypeOK ==
  /\ TypeOK
  /\ RunLockTypeOK
  /\ enclave \in [MatchIds -> EnclaveRfq]
  /\ rfqStore \in [MatchIds -> RfqRecord]
  /\ matchStore \in [MatchIds -> MatchRecord \cup {NoMatchRecord}]
  /\ currentMakerXrplAccount \in [createdAt : Nat] \cup {NoAccount}
  /\ requests \in [Requests -> Request \cup {Idle}]

MakerInit ==
  /\ Init
  /\ RunLockInit
  /\ enclave = [id \in MatchIds |-> NotSubmitted]
  /\ rfqStore = [id \in MatchIds |-> NoRfqRecord]
  /\ matchStore = [id \in MatchIds |-> NoMatchRecord]
  /\ currentMakerXrplAccount = NoAccount
  /\ requests = [r \in Requests |-> Idle]

-----------------------------------------------------------------------------
OffChain == UNCHANGED vars

OnlyRequests == OffChain /\ UNCHANGED <<enclave, currentRun, records>>

Begin(r, pc, id) ==
  /\ requests[r] = Idle
  /\ requests' = [requests EXCEPT ![r] = [Idle EXCEPT !.pc = pc, !.id = id]]

Go(r, pc) == requests' = [requests EXCEPT ![r].pc = pc]

Done(r) == requests' = [requests EXCEPT ![r] = Idle]

\* An entry past its time limit is as good as deleted: no reader looks at it.
Live(rec) == now - rec.createdAt <= RECORD_TTL

RfqKnown(id) == rfqStore[id] # NoRfqRecord /\ Live(rfqStore[id])

MatchKnown(id) == matchStore[id] # NoMatchRecord /\ Live(matchStore[id])

putRfqRecord(id, windowEndsAt) ==
  rfqStore' = [rfqStore EXCEPT ![id] = [windowEndsAt |-> windowEndsAt, createdAt |-> now]]

(***************************************************************************)
(* POST /maker/open-rfq.  How the desk's wallet gets its tokens is in      *)
(* DeskServer; here it has them or the deposit fails.                      *)
(***************************************************************************)
openRfq(r) ==
  /\ tryAcquireRunLock(now)
  /\ Begin(r, "fund", NoId)
  /\ UNCHANGED <<enclave, records>>
  /\ OffChain

fundTakerDeposit(r) ==
  LET missing == IF Available(DeskTaker) >= MIN_BLOCK_FXRP THEN 0
                 ELSE MIN_BLOCK_FXRP - Available(DeskTaker)
      armedUntil == now + ARMED_FOR
  IN  /\ requests[r].pc = "fund"
      /\ IF missing = 0 /\ balances[DeskTaker].armedUntil >= armedUntil
         THEN OffChain
         ELSE deposit(DeskTaker, missing, armedUntil)
      /\ Go(r, "submit")
      /\ UNCHANGED <<enclave, currentRun, records>>

\* submitRfq mined and AddRFQ done: an id nobody has had.
Submitted(id, taker) ==
  /\ enclave[id].taker = Nobody
  /\ enclave' = [enclave EXCEPT ![id] =
       [NotSubmitted EXCEPT !.taker = taker, !.windowEndsAt = now + RFQ_WINDOW,
                            !.outcome = "open"]]

submitRfq(r) ==
  /\ requests[r].pc = "submit"
  /\ \E id \in MatchIds :
       /\ Submitted(id, DeskTaker)
       /\ requests' = [requests EXCEPT ![r].pc = "ack", ![r].id = id]
  /\ UNCHANGED <<currentRun, records>>
  /\ OffChain

ackRfq(r) ==
  /\ requests[r].pc = "ack"
  /\ putRfqRecord(requests[r].id, enclave[requests[r].id].windowEndsAt)
  /\ Done(r)
  /\ UNCHANGED <<enclave, currentRun, matchStore, currentMakerXrplAccount>>
  /\ OffChain

\* POST /taker/rfq/confirm reads the receipt of any sealed submission and the
\* enclave's ack, and may be posted again.
confirmTakerRfq(id) ==
  /\ enclave[id].taker # Nobody
  /\ putRfqRecord(id, enclave[id].windowEndsAt)
  /\ UNCHANGED <<enclave, currentRun, matchStore, currentMakerXrplAccount, requests>>
  /\ OffChain

(***************************************************************************)
(* POST /maker/match.                                                      *)
(***************************************************************************)
Smaller(a, b) == IF a < b THEN a ELSE b

startMatch(r, id) ==
  /\ requests[r] = Idle
  /\ requests' = [requests EXCEPT ![r] =
       [Idle EXCEPT !.pc = "trigger", !.id = id,
                    !.until = IF RfqKnown(id)
                              THEN Smaller(rfqStore[id].windowEndsAt, now + MAX_WAIT)
                              ELSE 0]]
  /\ OnlyRequests

\* What RFQ_MATCH can find: nothing acceptable, or one of the quotes it has read, signed
\* with the key of the day.
NoMatchFound == [match |-> NoInstruction, key |-> Nobody]

MatchFound(id, k, m, p) ==
  [match |-> Instruction(id, enclave[id].taker, m, p, now + INSTRUCTION_TTL), key |-> k]

Found(id) ==
  {NoMatchFound} \cup
  {MatchFound(id, k, m, p) : k \in TeeKeys, m \in enclave[id].quoted, p \in Prices}

WindowOpen(id) == enclave[id].outcome = "open" /\ now < enclave[id].windowEndsAt

Undecided(id) == enclave[id].outcome = "open" /\ now >= enclave[id].windowEndsAt

Stored(id, f) ==
  enclave' = [enclave EXCEPT ![id] =
    [@ EXCEPT !.outcome = IF f = NoMatchFound THEN "NO_MATCH" ELSE "MATCHED",
              !.match = f.match, !.key = f.key]]

TriesLeftAlways(q) == TRUE

TriesLeft(q) == q.attempts + 1 < MAX_ATTEMPTS

\* A request that goes on with what the enclave has found.
With(q, pc, f) == [q EXCEPT !.pc = pc, !.match = f.match, !.key = f.key]

\* NO_MATCH ends a request and keeps the run lock.
Answered(r, f) ==
  IF f = NoMatchFound THEN Done(r)
  ELSE requests' = [requests EXCEPT ![r] = With(@, "verify", f)]

\* WD_ERR_WINDOW_OPEN is retried, three times.  An outcome that is stored is answered; if
\* none is, one is found from the quotes of this moment, and stored when it is signed.
triggerMatch(r) ==
  LET q == requests[r]
      e == enclave[q.id]
  IN  /\ q.pc = "trigger"
      /\ now >= q.until
      /\ \/ /\ WindowOpen(q.id) /\ TriesLeft(q)
            /\ requests' = [requests EXCEPT ![r].attempts = @ + 1]
         \/ /\ e.outcome \in {"NO_MATCH", "MATCHED"}
            /\ Answered(r, [match |-> e.match, key |-> e.key])
         \/ /\ Undecided(q.id)
            /\ \E f \in Found(q.id) : requests' = [requests EXCEPT ![r] = With(@, "store", f)]
      /\ OnlyRequests

\* markMatched, over what another request may have stored since; then the answer.
storeMatch(r) ==
  LET q == requests[r]
      f == [match |-> q.match, key |-> q.key]
  IN  /\ q.pc = "store"
      /\ enclave[q.id].outcome # "absent"
      /\ Stored(q.id, f)
      /\ Answered(r, f)
      /\ UNCHANGED <<currentRun, records>>
      /\ OffChain

verifyMatchSignature(r) ==
  /\ requests[r].pc = "verify"
  /\ requests[r].key = teeSigner
  /\ Go(r, "lock")
  /\ OnlyRequests

sendLock(r) ==
  /\ requests[r].pc = "lock"
  /\ lock(requests[r].match, requests[r].key, FTSO_FEE)
  /\ Go(r, "record")
  /\ UNCHANGED <<enclave, currentRun, records>>

DropsAtMatch(id) == matches[id].amountFxrp

DropsOfEvent(id) == matches[id].xrpDrops

\* putMatchRecord, from the MatchLocked event.
recordMatch(r) ==
  LET id == requests[r].id
  IN  /\ requests[r].pc = "record"
      /\ matchStore' = [matchStore EXCEPT ![id] =
           [xrplDestination |-> matches[id].takerXrplAddress, xrpDrops |-> DropsOfEvent(id),
            destinationTag |-> matches[id].destinationTag,
            paymentDeadline |-> matches[id].paymentDeadline,
            xrplTx |-> NoTx, createdAt |-> now]]
      /\ Done(r)
      /\ UNCHANGED <<enclave, currentRun, rfqStore, currentMakerXrplAccount>>
      /\ OffChain

\* Whatever goes wrong in an open-rfq or a match ends the run: the run lock is
\* released, though a match may belong to a visitor's RFQ that never held it.
failRun(r) ==
  /\ requests[r].pc \in OpenSteps \cup MatchSteps
  /\ releaseRunLock
  /\ Done(r)
  /\ UNCHANGED <<enclave, records>>
  /\ OffChain

(***************************************************************************)
(* The XRPL leg.                                                           *)
(***************************************************************************)
xrplAccount ==
  /\ currentMakerXrplAccount' = [createdAt |-> now]
  /\ UNCHANGED <<enclave, currentRun, rfqStore, matchStore, requests>>
  /\ OffChain

payFromMakerAccount(r, id) ==
  /\ MatchKnown(id)
  /\ currentMakerXrplAccount # NoAccount /\ Live(currentMakerXrplAccount)
  /\ Begin(r, "pay", id)
  /\ OnlyRequests

payXrpl(r, tx) ==
  LET q == requests[r]
      rec == matchStore[q.id]
  IN  /\ q.pc = "pay"
      /\ XrplPay(tx, [source |-> EXPECTED_SOURCE_ID, status |-> 0,
                      receivingAddress |-> rec.xrplDestination, hasDestinationTag |-> TRUE,
                      destinationTag |-> rec.destinationTag,
                      receivedAmount |-> rec.xrpDrops,
                      intendedReceivedAmount |-> rec.xrpDrops], now)
      /\ requests' = [requests EXCEPT ![r].pc = "paid", ![r].xrplTx = tx]
      /\ UNCHANGED <<enclave, currentRun, records>>

recordMatchPayment(id, tx) == matchStore' = [matchStore EXCEPT ![id].xrplTx = tx]

payAnswers(r) ==
  /\ requests[r].pc = "paid"
  /\ recordMatchPayment(requests[r].id, requests[r].xrplTx)
  /\ Done(r)
  /\ UNCHANGED <<enclave, currentRun, rfqStore, currentMakerXrplAccount>>
  /\ OffChain

\* A payment sent by hand counts, if the amount it was sent with is what the record says;
\* what of it was delivered is not looked at.
checkMakerPaymentStatus(r, id) ==
  /\ MatchKnown(id)
  /\ matchStore[id].xrplTx = NoTx
  /\ Begin(r, "scan", id)
  /\ OnlyRequests

\* The mutant: any amount.
PaysRecordAnyAmount(p, rec) ==
  /\ p.form.status = 0
  /\ p.form.receivingAddress = rec.xrplDestination
  /\ p.form.hasDestinationTag /\ p.form.destinationTag = rec.destinationTag

PaysRecord(p, rec) ==
  /\ p.form.status = 0
  /\ p.form.receivingAddress = rec.xrplDestination
  /\ p.form.hasDestinationTag /\ p.form.destinationTag = rec.destinationTag
  /\ p.form.intendedReceivedAmount = rec.xrpDrops

scanFinds(r, tx) ==
  /\ requests[r].pc = "scan"
  /\ payments[tx].made /\ PaysRecord(payments[tx], matchStore[requests[r].id])
  /\ recordMatchPayment(requests[r].id, tx)
  /\ Done(r)
  /\ UNCHANGED <<enclave, currentRun, rfqStore, currentMakerXrplAccount>>
  /\ OffChain

\* A payment or a scan that comes to nothing.
failPaying(r) ==
  /\ requests[r].pc \in {"pay", "paid", "scan"}
  /\ Done(r)
  /\ OnlyRequests

settle(id) ==
  /\ MatchKnown(id)
  /\ matchStore[id].xrplTx # NoTx
  /\ FdcAttest(matchStore[id].xrplTx, EscrowAddr)
  /\ UNCHANGED <<enclave, serverVars>>

sendRelease(r, id, tx) ==
  /\ Begin(r, "conclude", id)
  /\ release(id, tx, EscrowAddr)
  /\ UNCHANGED <<enclave, currentRun, records>>

concludeRun(r) ==
  /\ requests[r].pc = "conclude"
  /\ releaseRunLock
  /\ Done(r)
  /\ UNCHANGED <<enclave, records>>
  /\ OffChain

\* A release that reverts frees the lock like one that succeeds.
failRelease ==
  /\ releaseRunLock
  /\ UNCHANGED <<enclave, records, requests>>
  /\ OffChain

restart ==
  /\ currentRun' = NoRun
  /\ rfqStore' = [id \in MatchIds |-> NoRfqRecord]
  /\ matchStore' = [id \in MatchIds |-> NoMatchRecord]
  /\ currentMakerXrplAccount' = NoAccount
  /\ requests' = [r \in Requests |-> Idle]
  /\ UNCHANGED <<enclave>>
  /\ OffChain

-----------------------------------------------------------------------------
(***************************************************************************)
(* Visitors, the enclave, everybody else.                                  *)
(***************************************************************************)
VisitorSubmits(t, id) == Submitted(id, t) /\ UNCHANGED serverVars /\ OffChain

\* POST /maker/quote, of a quote the enclave finds acceptable and before it has
\* decided, after which no quote matters.
submitQuote(m, id) ==
  /\ enclave[id].outcome = "open"
  /\ enclave' = [enclave EXCEPT ![id].quoted = @ \cup {m}]
  /\ UNCHANGED serverVars
  /\ OffChain

\* A restarted enclave has lost its RFQs; the ack it gave can still be read.
enclaveRestart ==
  /\ enclave' = [id \in MatchIds |->
       [enclave[id] EXCEPT !.outcome = "absent", !.quoted = {}, !.match = NoInstruction,
                           !.key = Nobody]]
  /\ UNCHANGED serverVars
  /\ OffChain

VisitorFunds ==
  /\ \/ \E t \in VisitingTakers, until \in ArmTimes : deposit(t, MIN_BLOCK_FXRP, until)
     \/ \E m \in Makers : depositBond(m, BondFor(MIN_BLOCK_FXRP)) /\ Unescrowed
  /\ UNCHANGED <<enclave, serverVars>>

\* RFQ_MATCH is for anybody to send, and one whose sender gave up is decided all the same.
othersMatch(id) ==
  /\ Undecided(id)
  /\ \E f \in Found(id) : Stored(id, f)
  /\ UNCHANGED serverVars
  /\ OffChain

ManualPayment(tx) ==
  /\ \E form \in PaymentForms : XrplPay(tx, form, now)
  /\ UNCHANGED <<enclave, serverVars>>

\* The mid stays as it is: what lock() computes differs from what was agreed as soon
\* as a quoted price does.  Nobody is refunded: no route here reads the state of a
\* match.
WorldMoves ==
  /\ \/ setEscrow(EscrowAddr) /\ Unescrowed
     \/ Tick
  /\ UNCHANGED <<enclave, serverVars>>

ServerStep ==
  \/ \E r \in Requests :
       \/ openRfq(r) \/ fundTakerDeposit(r) \/ submitRfq(r) \/ ackRfq(r)
       \/ triggerMatch(r) \/ storeMatch(r) \/ verifyMatchSignature(r) \/ sendLock(r)
       \/ recordMatch(r) \/ failRun(r) \/ payAnswers(r) \/ failPaying(r) \/ concludeRun(r)
       \/ \E id \in MatchIds :
            \/ startMatch(r, id) \/ payFromMakerAccount(r, id) \/ checkMakerPaymentStatus(r, id)
            \/ \E tx \in TxIds : sendRelease(r, id, tx)
       \/ \E tx \in TxIds : payXrpl(r, tx) \/ scanFinds(r, tx)
  \/ \E id \in MatchIds : confirmTakerRfq(id) \/ settle(id)
  \/ xrplAccount
  \/ failRelease
  \/ restart

OutsideStep ==
  \/ \E t \in VisitingTakers, id \in MatchIds : VisitorSubmits(t, id)
  \/ \E m \in Makers, id \in MatchIds : submitQuote(m, id)
  \/ enclaveRestart
  \/ \E id \in MatchIds : othersMatch(id)
  \/ VisitorFunds
  \/ \E tx \in TxIds : ManualPayment(tx)
  \/ WorldMoves

MakerNext == ServerStep \/ OutsideStep

MakerSpec == MakerInit /\ [][MakerNext]_makerVars

-----------------------------------------------------------------------------
(***************************************************************************)
(* Properties.                                                             *)
(***************************************************************************)

\* What the server tells a maker to pay is what the contract will ask for, although
\* the lock computes it from a price of its own, under whatever tag is next.
RecordIsOnChain ==
  \A id \in MatchIds :
    matchStore[id] # NoMatchRecord =>
      /\ matches[id].state # "None"
      /\ matchStore[id].xrplDestination = matches[id].takerXrplAddress
      /\ matchStore[id].xrpDrops = matches[id].xrpDrops
      /\ matchStore[id].destinationTag = matches[id].destinationTag
      /\ matchStore[id].paymentDeadline = matches[id].paymentDeadline

\* A payment as it would be, had it been delivered in full and just after the lock.
Delivered(p, m) ==
  [p EXCEPT !.form.receivedAmount = p.form.intendedReceivedAmount,
            !.blockTimestamp = m.lockedAt]

\* A payment the server reports as detected, sent by itself or found by the scan, has
\* everything release() will ask of it, its time and the part of it delivered aside.
DetectedPaymentCovers ==
  \A id \in MatchIds :
    LET tx == matchStore[id].xrplTx
    IN  tx # NoTx =>
          payments[tx].made /\ PaysFor(Delivered(payments[tx], matches[id]), matches[id])
=============================================================================
