--------------------------- MODULE MakerDeskProofs ---------------------------
(***************************************************************************)
(* MakerDesk, for any number of requests in flight, takers, makers, quotes *)
(* and restarts of the server and of the enclave.                          *)
(***************************************************************************)
EXTENDS MakerDesk, SettlementProofs

-----------------------------------------------------------------------------
(***************************************************************************)
(* The invariant.                                                          *)
(***************************************************************************)
\* What a locked match has that one could pay for.
Payable(m) ==
  m.state # "None" =>
    m.takerXrplAddress \in XrplAddresses /\ m.xrpDrops > 0 /\ m.lockedAt <= m.paymentDeadline

\* A payment that release will accept for m, once it is delivered in full and in time.
Pays(p, m) == p.made /\ PaysFor(Delivered(p, m), m)

\* A match record says what is on chain, and of a payment that it covers the match.
Truthful(rec, m, paid) ==
  rec # NoMatchRecord =>
    /\ m.state # "None"
    /\ rec.xrplDestination = m.takerXrplAddress
    /\ rec.xrpDrops = m.xrpDrops
    /\ rec.destinationTag = m.destinationTag
    /\ rec.paymentDeadline = m.paymentDeadline
    /\ rec.xrplTx # NoTx => Pays(paid[rec.xrplTx], m)

\* What was found for an RFQ is nothing, or an instruction for that RFQ;
SoundMatch(f, id) ==
  /\ f.key \in TeeKeys \cup {Nobody}
  /\ f = NoMatchFound \/ (f.match \in MatchInstruction /\ f.match.matchId = id)

\* so is what the enclave has stored for it, and its taker is known.
Sound(e, id) ==
  /\ e.outcome = "open" => e.taker \in Takers
  /\ e.outcome \in {"NO_MATCH", "MATCHED"} => SoundMatch([match |-> e.match, key |-> e.key], id)

\* What a request relies on, from the steps before.
Fits(q, ms, store, paid) ==
  /\ q.pc \in {"ack", "pay", "paid", "scan"} \cup MatchSteps => q.id \in MatchIds
  /\ q.pc = "store" => SoundMatch([match |-> q.match, key |-> q.key], q.id)
  /\ q.pc \in {"verify", "lock"} => q.match \in MatchInstruction /\ q.match.matchId = q.id
  /\ q.pc = "record" => ms[q.id].state # "None"
  /\ q.pc \in {"pay", "paid", "scan"} => store[q.id] # NoMatchRecord
  /\ q.pc = "paid" => q.xrplTx \in TxIds /\ Pays(paid[q.xrplTx], ms[q.id])

ServerTypeOK ==
  /\ RunLockTypeOK
  /\ rfqStore \in [MatchIds -> RfqRecord]
  /\ matchStore \in [MatchIds -> MatchRecord \cup {NoMatchRecord}]
  /\ currentMakerXrplAccount \in [createdAt : Nat] \cup {NoAccount}
  /\ requests \in [Requests -> Request \cup {Idle}]

EnclaveOK ==
  /\ enclave \in [MatchIds -> EnclaveRfq]
  /\ \A id \in MatchIds : Sound(enclave[id], id)

ChainOK ==
  /\ Inv
  /\ \A id \in MatchIds : Payable(matches[id])
  /\ \A tx \in TxIds : payments[tx].made => payments[tx].form.source = EXPECTED_SOURCE_ID

RequestsFit == \A r \in Requests : Fits(requests[r], matches, matchStore, payments)

RecordsTrue == \A id \in MatchIds : Truthful(matchStore[id], matches[id], payments)

DeskInv == ChainOK /\ ServerTypeOK /\ EnclaveOK /\ RequestsFit /\ RecordsTrue

\* It implies what the runs check.
LEMMA DeskInvImplies == DeskInv => MakerTypeOK /\ RecordIsOnChain /\ DetectedPaymentCovers
<1> SUFFICES ASSUME DeskInv PROVE MakerTypeOK /\ RecordIsOnChain /\ DetectedPaymentCovers
  OBVIOUS
<1>1. MakerTypeOK
  BY DEF DeskInv, ChainOK, Inv, ServerTypeOK, EnclaveOK, MakerTypeOK
<1>2. RecordIsOnChain
  BY DEF DeskInv, RecordsTrue, Truthful, RecordIsOnChain
<1>3. DetectedPaymentCovers
  <2> SUFFICES ASSUME NEW id \in MatchIds, matchStore[id].xrplTx # NoTx
               PROVE  Pays(payments[matchStore[id].xrplTx], matches[id])
    BY DEF DetectedPaymentCovers, Pays
  <2>1. matchStore[id] # NoMatchRecord
    BY DEF NoMatchRecord
  <2> QED
    BY <2>1 DEF DeskInv, RecordsTrue, Truthful
<1> QED
  BY <1>1, <1>2, <1>3

-----------------------------------------------------------------------------
(***************************************************************************)
(* Facts about types.                                                      *)
(***************************************************************************)
\* The desk trades between parties.
LEMMA Desk ==
  /\ \A t \in Takers : t \in Parties /\ XrplOf[t] \in XrplAddresses /\ t # Nobody
  /\ \A m \in Makers : m \in Parties
  /\ Nobody \notin Takers
  /\ MIN_BLOCK_FXRP \in Nat /\ BondFor(MIN_BLOCK_FXRP) \in Nat
  /\ NoId \notin MatchIds /\ NoTx \notin TxIds /\ NoInstruction \notin MatchInstruction
<1>1. NoInstruction.matchId = NoId
  BY DEF NoInstruction
<1> HIDE DEF NoInstruction
<1> QED
  BY <1>1, MakerDeskAssumption, RunLockAssumption, LedgerAssumption, EscrowAssumption, BondForNat,
     InstructionTypes DEF Takers

\* A request is one in progress or idle, and which of the two its pc tells.
LEMMA RequestTypes ==
  ASSUME ServerTypeOK, NEW r \in Requests
  PROVE  /\ requests[r] \in Request \cup {Idle}
         /\ requests[r].pc \in Steps => requests[r] \in Request
         /\ Idle.pc = "idle" /\ "idle" \notin Steps
<1>1. Idle.pc = "idle" /\ "idle" \notin Steps
  BY DEF Idle, Steps, OpenSteps, MatchSteps
<1> QED
  BY <1>1 DEF ServerTypeOK, Request

\* A handler that begins, to wait or not.
LEMMA BeginTypes ==
  ASSUME NEW pc \in Steps, NEW id \in MatchIds \cup {NoId}
  PROVE  LET q == [Idle EXCEPT !.pc = pc, !.id = id]
         IN  q \in Request /\ q.pc = pc /\ q.id = id
<1>1. 0 \in 0..MAX_ATTEMPTS /\ NoInstruction \in Instructed
  BY MakerDeskAssumption DEF Instructed
<1> QED
  BY <1>1 DEF Idle, Request

LEMMA WaitTypes ==
  ASSUME NEW pc \in Steps, NEW id \in MatchIds, NEW until \in Nat
  PROVE  LET q == [Idle EXCEPT !.pc = pc, !.id = id, !.until = until]
         IN  q \in Request /\ q.pc = pc /\ q.id = id
<1>1. 0 \in 0..MAX_ATTEMPTS /\ NoInstruction \in Instructed
  BY MakerDeskAssumption DEF Instructed
<1> QED
  BY <1>1 DEF Idle, Request

\* Idle requests rely on nothing.
LEMMA IdleFits ==
  ASSUME NEW ms, NEW store, NEW paid
  PROVE  Fits(Idle, ms, store, paid)
<1>1. Idle.pc = "idle"
  BY DEF Idle
<1> HIDE DEF Idle
<1> QED
  BY <1>1 DEF Fits, MatchSteps

-----------------------------------------------------------------------------
(***************************************************************************)
(* What no step but a restart undoes.                                      *)
(***************************************************************************)
Onward ==
  /\ \A id \in MatchIds : matches[id].state # "None" => SameTerms(matches[id], matches'[id])
  /\ \A tx \in TxIds : payments[tx].made => payments'[tx] = payments[tx]
  /\ \A id \in MatchIds : matchStore[id] # NoMatchRecord => matchStore'[id] # NoMatchRecord

\* A payment that covers a match covers it ever after.
LEMMA PaysStays ==
  ASSUME NEW p \in Payment, NEW m \in Match, NEW n \in Match, SameTerms(m, n), Pays(p, m)
  PROVE  Pays(p, n)
BY DEF SameTerms, Pays, PaysFor, Delivered, Payment, PaymentForm

\* A locked match stays payable.
LEMMA PayableStays ==
  ASSUME NEW m \in Match, NEW n \in Match, SameTerms(m, n), Payable(m), m.state # "None"
  PROVE  Payable(n)
<1>1. /\ n.takerXrplAddress = m.takerXrplAddress /\ n.xrpDrops = m.xrpDrops
      /\ n.lockedAt = m.lockedAt /\ n.paymentDeadline = m.paymentDeadline
  BY DEF SameTerms
<1>2. m.takerXrplAddress \in XrplAddresses /\ m.xrpDrops > 0 /\ m.lockedAt <= m.paymentDeadline
  BY DEF Payable
<1> QED
  BY <1>1, <1>2 DEF Payable

\* A match with a record is there.
LEMMA RecordedIsLocked ==
  ASSUME RecordsTrue, NEW id \in MatchIds, matchStore[id] # NoMatchRecord
  PROVE  matches[id].state # "None"
BY DEF RecordsTrue, Truthful

\* So a request that rests can still rely on what it did,
LEMMA FitsStays ==
  ASSUME ChainOK, ChainOK', RecordsTrue, Onward, NEW q, Fits(q, matches, matchStore, payments)
  PROVE  Fits(q, matches', matchStore', payments')
<1>1. /\ matches \in [MatchIds -> Match] /\ matches' \in [MatchIds -> Match]
      /\ payments \in [TxIds -> Payment]
  BY DEF ChainOK, Inv, TypeOK
<1>2. CASE q.pc = "paid"
  <2>1. q.id \in MatchIds /\ q.xrplTx \in TxIds /\ Pays(payments[q.xrplTx], matches[q.id])
        /\ matchStore[q.id] # NoMatchRecord
    BY <1>2 DEF Fits
  <2>2. payments'[q.xrplTx] = payments[q.xrplTx]
    BY <2>1 DEF Onward, Pays
  <2>3. SameTerms(matches[q.id], matches'[q.id]) /\ matchStore'[q.id] # NoMatchRecord
    BY <2>1, RecordedIsLocked DEF Onward
  <2>4. Pays(payments[q.xrplTx], matches'[q.id])
    BY <1>1, <2>1, <2>3, PaysStays
  <2> QED
    BY <1>2, <2>1, <2>2, <2>3, <2>4 DEF Fits, MatchSteps
<1>3. CASE q.pc # "paid"
  <2>1. q.pc = "record" => q.id \in MatchIds
    BY DEF Fits, MatchSteps
  <2>2. q.pc \in {"pay", "scan"} => q.id \in MatchIds
    BY DEF Fits
  <2> QED
    BY <1>3, <2>1, <2>2 DEF Fits, Onward, SameTerms
<1> QED
  BY <1>2, <1>3

\* and a record stays true.
LEMMA TruthfulStays ==
  ASSUME ChainOK, ChainOK', ServerTypeOK, RecordsTrue, Onward, NEW id \in MatchIds
  PROVE  Truthful(matchStore[id], matches'[id], payments')
<1> DEFINE rec == matchStore[id]
<1>1. /\ matches[id] \in Match /\ matches'[id] \in Match
      /\ payments \in [TxIds -> Payment]
      /\ rec # NoMatchRecord => rec.xrplTx \in TxIds \cup {NoTx}
  BY DEF ChainOK, Inv, TypeOK, ServerTypeOK, MatchRecord
<1>2. CASE rec # NoMatchRecord
  <2>1. Truthful(rec, matches[id], payments) /\ SameTerms(matches[id], matches'[id])
    BY <1>2, RecordedIsLocked DEF RecordsTrue, Onward
  <2>2. ASSUME rec.xrplTx # NoTx
        PROVE  Pays(payments'[rec.xrplTx], matches'[id])
    <3>1. rec.xrplTx \in TxIds /\ Pays(payments[rec.xrplTx], matches[id])
      BY <1>1, <1>2, <2>1, <2>2 DEF Truthful
    <3>2. payments'[rec.xrplTx] = payments[rec.xrplTx]
      BY <3>1 DEF Onward, Pays
    <3> QED
      BY <1>1, <2>1, <3>1, <3>2, PaysStays
  <2> QED
    BY <1>2, <2>1, <2>2 DEF Truthful, SameTerms
<1>3. CASE rec = NoMatchRecord
  BY <1>3 DEF Truthful
<1> QED
  BY <1>2, <1>3

-----------------------------------------------------------------------------
(***************************************************************************)
(* The contracts and the XRP Ledger under the server.                      *)
(***************************************************************************)
\* A lock writes a match that can be paid for: the drops of a block are at least one,
\* because the quotient is within one of the block's worth at the lowest price in the band.
LEMMA LockPayable ==
  ASSUME Inv, NEW mi \in MatchInstruction, NEW sig, NEW value, lock(mi, sig, value)
  PROVE  Payable(NewMatch(mi))
<1> DEFINE drops == Drops(mi)
<1>1. /\ InBand(mi.priceUsd18, oracle.mid) /\ oracle.mid \in Nat \ {0}
      /\ mi.amountFxrp \in Nat /\ mi.priceUsd18 \in Nat /\ mi.amountFxrp >= MIN_BLOCK_FXRP
      /\ mi.takerXrplAddress \in XrplAddresses /\ now \in Nat
  BY InstructionTypes DEF lock, WellFormed, OracleFresh, Inv, TypeOK
<1>2. PICK bips \in Nat \ {0}, low \in Nat, least \in Nat :
        /\ bips = BIPS /\ low = BIPS - BAND_BIPS /\ least = MIN_BLOCK_FXRP
        /\ least * low >= bips
  BY EscrowAssumption, MakerDeskAssumption
<1>3. drops \in Nat /\ (drops + 1) * bips > mi.amountFxrp * low
  BY <1>1, <1>2, ProductNat, QuotientNat, QuotientInBand DEF Drops
<1> HIDE DEF drops
<1>4. drops > 0
  <2>1. least * low <= mi.amountFxrp * low
    BY <1>1, <1>2, ProductGrows
  <2>2. mi.amountFxrp * low \in Nat /\ least * low \in Nat
    BY <1>1, <1>2, ProductNat
  <2>3. CASE drops = 0
    BY <1>2, <1>3, <2>1, <2>2, <2>3
  <2> QED
    BY <1>3, <2>3
<1>5. now <= now + PAYMENT_WINDOW
  BY <1>1, EscrowAssumption DEF PAYMENT_WINDOW
<1>6. /\ NewMatch(mi).takerXrplAddress = mi.takerXrplAddress /\ NewMatch(mi).xrpDrops = drops
      /\ NewMatch(mi).lockedAt = now /\ NewMatch(mi).paymentDeadline = now + PAYMENT_WINDOW
  BY DEF NewMatch, MatchWithTag, drops
<1> QED
  BY <1>1, <1>4, <1>5, <1>6 DEF Payable

\* What is paid on the ledger the scan reads.
LedgerPay ==
  \E tx \in TxIds, form \in PaymentForm :
    form.source = EXPECTED_SOURCE_ID /\ XrplPay(tx, form, now)

\* Every step of the desk is, for the contracts, one that AnyNext allows or none.
LEMMA OnChain ==
  ASSUME DeskInv, [MakerNext]_makerVars
  PROVE  \/ \E mi \in MatchInstruction, sig \in Signers : lock(mi, sig, FTSO_FEE)
         \/ ReleaseStep
         \/ LedgerPay
         \/ (AnyNext \/ UNCHANGED vars) /\ UNCHANGED <<matches, payments>>
<1>1. CASE \E r \in Requests : sendLock(r)
  <2>1. PICK r \in Requests : sendLock(r)
    BY <1>1
  <2>2. requests[r].pc = "lock" /\ lock(requests[r].match, requests[r].key, FTSO_FEE)
    BY <2>1 DEF sendLock
  <2>3. requests[r].match \in MatchInstruction
    BY <2>2 DEF DeskInv, RequestsFit, Fits
  <2>4. requests[r].key \in Signers
    BY <2>2 DEF lock, SignatureAccepted, DeskInv, ChainOK, Inv, TypeOK
  <2> QED
    BY <2>2, <2>3, <2>4
<1>2. CASE \E r \in Requests, id \in MatchIds, tx \in TxIds : sendRelease(r, id, tx)
  BY <1>2, EscrowAssumption DEF sendRelease, ReleaseStep
<1>3. CASE \E r \in Requests, tx \in TxIds : payXrpl(r, tx)
  <2>1. PICK r \in Requests, tx \in TxIds : payXrpl(r, tx)
    BY <1>3
  <2> DEFINE rec == matchStore[requests[r].id]
             form == [source |-> EXPECTED_SOURCE_ID, status |-> 0,
                      receivingAddress |-> rec.xrplDestination, hasDestinationTag |-> TRUE,
                      destinationTag |-> rec.destinationTag, receivedAmount |-> rec.xrpDrops,
                      intendedReceivedAmount |-> rec.xrpDrops]
  <2>2. XrplPay(tx, form, now)
    BY <2>1 DEF payXrpl
  <2>3. rec \in MatchRecord
    <3>1. requests[r].pc = "pay"
      BY <2>1 DEF payXrpl
    <3> QED
      BY <3>1 DEF DeskInv, RequestsFit, Fits, ServerTypeOK
  <2>4. /\ rec.xrplDestination \in XrplAddresses /\ rec.destinationTag \in Nat
        /\ rec.xrpDrops \in Nat
    BY <2>3 DEF MatchRecord
  <2> HIDE DEF rec
  <2>5. form \in PaymentForm /\ form.source = EXPECTED_SOURCE_ID
    BY <2>4, EscrowAssumption DEF PaymentForm
  <2> QED
    BY <2>2, <2>5 DEF LedgerPay
<1>4. CASE \E tx \in TxIds : ManualPayment(tx)
  BY <1>4, EscrowAssumption, MakerDeskAssumption DEF ManualPayment, LedgerPay
<1>5. CASE \E r \in Requests : fundTakerDeposit(r)
  <2>1. (\E a \in Nat, until \in Nat : deposit(DeskTaker, a, until)) \/ OffChain
    <3>1. /\ DeskTaker \in Parties /\ now + ARMED_FOR \in Nat
          /\ balances[DeskTaker].armed \in Nat /\ balances[DeskTaker].committed \in Nat
      BY Desk, MakerDeskAssumption DEF Takers, DeskInv, ChainOK, Inv, TypeOK, TakerBalance
    <3> QED
      BY <1>5, <3>1, Desk DEF fundTakerDeposit, Available
  <2> QED
    BY <2>1, Desk DEF Takers, deposit, AnyTaker, AnyNext, worldVars, OffChain, vars, escrowVars
<1>6. CASE VisitorFunds
  <2>1. CASE \E t \in VisitingTakers, until \in ArmTimes : deposit(t, MIN_BLOCK_FXRP, until)
    <3>1. ArmTimes \subseteq Nat /\ VisitingTakers \subseteq Parties
      BY EscrowAssumption, MakerDeskAssumption DEF Takers
    <3> QED
      BY <2>1, <3>1, Desk DEF deposit, AnyTaker, AnyNext, worldVars
  <2>2. CASE \E m \in Makers : depositBond(m, BondFor(MIN_BLOCK_FXRP)) /\ Unescrowed
    BY <2>2, Desk DEF AnyMaker, AnyNext, Unescrowed, escrowVars, worldVars
  <2> QED
    BY <1>6, <2>1, <2>2 DEF VisitorFunds
<1>7. CASE WorldMoves
  BY <1>7 DEF WorldMoves, OwnerStep, AnyWorld, AnyNext, Unescrowed, Tick, escrowVars, worldVars
<1>8. CASE \E id \in MatchIds : settle(id)
  <2>1. PICK id \in MatchIds : /\ matchStore[id].xrplTx # NoTx /\ matchStore[id] # NoMatchRecord
                               /\ FdcAttest(matchStore[id].xrplTx, EscrowAddr)
    BY <1>8 DEF settle, MatchKnown
  <2>2. matchStore[id].xrplTx \in TxIds
    BY <2>1 DEF DeskInv, ServerTypeOK, MatchRecord
  <2> QED
    BY <2>1, <2>2, EscrowAssumption DEF AnyWorld, AnyNext, FdcAttest, escrowVars
<1>9. CASE OffChain \/ UNCHANGED makerVars
  BY <1>9 DEF OffChain, makerVars, vars, escrowVars, worldVars
<1>10. \/ OffChain \/ UNCHANGED makerVars
       \/ \E r \in Requests : sendLock(r) \/ fundTakerDeposit(r)
       \/ \E r \in Requests, id \in MatchIds, tx \in TxIds : sendRelease(r, id, tx)
       \/ \E r \in Requests, tx \in TxIds : payXrpl(r, tx)
       \/ \E tx \in TxIds : ManualPayment(tx)
       \/ \E id \in MatchIds : settle(id)
       \/ VisitorFunds \/ WorldMoves
  BY DEF MakerNext, ServerStep, OutsideStep, openRfq, submitRfq, ackRfq, triggerMatch, storeMatch,
         othersMatch, verifyMatchSignature, OnlyRequests, recordMatch, failRun, payAnswers, failPaying,
         concludeRun, startMatch, payFromMakerAccount, checkMakerPaymentStatus, scanFinds,
         confirmTakerRfq, xrplAccount, failRelease, restart, VisitorSubmits, submitQuote,
         enclaveRestart
<1> QED
  BY <1>1, <1>2, <1>3, <1>4, <1>5, <1>6, <1>7, <1>8, <1>9, <1>10

\* So the contracts stay sound, terms and payments stay, and locked matches are payable.
LEMMA ChainStep ==
  ASSUME DeskInv, [MakerNext]_makerVars
  PROVE  /\ ChainOK'
         /\ \A id \in MatchIds : matches[id].state # "None" => SameTerms(matches[id], matches'[id])
         /\ \A tx \in TxIds : payments[tx].made => payments'[tx] = payments[tx]
<1>0. /\ Inv /\ \A id \in MatchIds : Payable(matches[id])
      /\ \A tx \in TxIds : payments[tx].made => payments[tx].form.source = EXPECTED_SOURCE_ID
      /\ payments \in [TxIds -> Payment] /\ now \in Nat
  BY DEF DeskInv, ChainOK, Inv, TypeOK
<1>1. CASE \E mi \in MatchInstruction, sig \in Signers : lock(mi, sig, FTSO_FEE)
  <2>1. PICK mi \in MatchInstruction, sig \in Signers : lock(mi, sig, FTSO_FEE)
    BY <1>1
  <2>2. Inv'
    BY <1>0, <2>1, AnyInv, EscrowAssumption DEF AnyLock, AnyNext
  <2>3. UNCHANGED payments
    BY <2>1 DEF lock, worldVars
  <2>4. /\ matches[mi.matchId].state = "None" /\ matches'[mi.matchId] = NewMatch(mi)
        /\ \A id \in MatchIds : id # mi.matchId => matches'[id] = matches[id]
    BY <1>0, <2>1, LockTerms, InstructionTypes
  <2>5. Payable(NewMatch(mi))
    BY <1>0, <2>1, LockPayable
  <2> QED
    BY <1>0, <2>2, <2>3, <2>4, <2>5 DEF ChainOK, SameTerms
<1>2. CASE ReleaseStep
  <2>1. Inv'
    BY <1>0, <1>2, AnyInv DEF AnyNext
  <2>2. UNCHANGED payments
    BY <1>2 DEF ReleaseStep, release, worldVars
  <2>3. \A id \in MatchIds : /\ matches[id].state = "None" => matches'[id] = matches[id]
                             /\ matches[id].state # "None" => SameTerms(matches[id], matches'[id])
    BY <1>0, <1>2, SettledTerms
  <2>4. ASSUME NEW id \in MatchIds
        PROVE  /\ Payable(matches'[id])
               /\ matches[id].state # "None" => SameTerms(matches[id], matches'[id])
    <3>1. CASE matches[id].state = "None"
      BY <1>0, <2>3, <3>1
    <3>2. CASE matches[id].state # "None"
      <4>1. SameTerms(matches[id], matches'[id])
        BY <2>3, <3>2
      <4>2. matches[id] \in Match /\ matches'[id] \in Match
        BY <1>0, <2>1 DEF Inv, TypeOK
      <4>3. Payable(matches'[id])
        BY <1>0, <3>2, <4>1, <4>2, PayableStays
      <4> QED
        BY <4>1, <4>3
    <3> QED
      BY <3>1, <3>2
  <2> QED
    BY <1>0, <2>1, <2>2, <2>4 DEF ChainOK
<1>3. CASE LedgerPay
  <2>1. PICK tx \in TxIds, form \in PaymentForm :
          form.source = EXPECTED_SOURCE_ID /\ XrplPay(tx, form, now)
    BY <1>3 DEF LedgerPay
  <2>2. Inv'
    BY <1>0, <2>1, AnyInv DEF AnyWorld, AnyNext
  <2>3. /\ ~payments[tx].made /\ UNCHANGED matches
        /\ payments' = [payments EXCEPT ![tx] = [made |-> TRUE, form |-> form, blockTimestamp |-> now]]
    BY <2>1 DEF XrplPay, escrowVars
  <2> QED
    BY <1>0, <2>1, <2>2, <2>3 DEF ChainOK, SameTerms
<1>4. CASE (AnyNext \/ UNCHANGED vars) /\ UNCHANGED <<matches, payments>>
  BY <1>0, <1>4, AnyInv DEF ChainOK, SameTerms
<1> QED
  BY <1>1, <1>2, <1>3, <1>4, OnChain
-----------------------------------------------------------------------------
(***************************************************************************)
(* The server: a step moves at most one request, and writes at most one    *)
(* record.                                                                 *)
(***************************************************************************)
\* Terms and payments stay.
ChainKept ==
  /\ \A id \in MatchIds : matches[id].state # "None" => SameTerms(matches[id], matches'[id])
  /\ \A tx \in TxIds : payments[tx].made => payments'[tx] = payments[tx]

\* A request that moves can rely on what it will need,
RequestMoves ==
  \/ UNCHANGED requests
  \/ \E r \in Requests, q \in Request \cup {Idle} :
       /\ requests' = [requests EXCEPT ![r] = q]
       /\ Fits(q, matches', matchStore', payments')

\* and a record that is written is true.
RecordWritten ==
  \/ UNCHANGED matchStore
  \/ \E id \in MatchIds, rec \in MatchRecord :
       /\ matchStore' = [matchStore EXCEPT ![id] = rec]
       /\ Truthful(rec, matches'[id], payments')

\* No record of a match is the one that stands for none.
LEMMA RecordIsOne == NoMatchRecord \notin MatchRecord
<1>1. NoMatchRecord.xrplDestination = EmptyXrplAddress
  BY DEF NoMatchRecord
<1>2. \A rec \in MatchRecord : rec.xrplDestination \in XrplAddresses
  BY DEF MatchRecord
<1> HIDE DEF NoMatchRecord
<1> QED
  BY <1>1, <1>2, EscrowAssumption

\* Such a step keeps what the requests and the records say.
LEMMA MovesKeep ==
  ASSUME DeskInv, ChainOK', ChainKept, RequestMoves, RecordWritten
  PROVE  /\ requests' \in [Requests -> Request \cup {Idle}] /\ RequestsFit'
         /\ matchStore' \in [MatchIds -> MatchRecord \cup {NoMatchRecord}] /\ RecordsTrue'
<1>0. /\ ChainOK /\ RecordsTrue /\ RequestsFit /\ ServerTypeOK
      /\ requests \in [Requests -> Request \cup {Idle}]
      /\ matchStore \in [MatchIds -> MatchRecord \cup {NoMatchRecord}]
  BY DEF DeskInv, ServerTypeOK
<1>1. Onward
  BY <1>0, RecordIsOne DEF RecordWritten, ChainKept, Onward
<1>2. \A id \in MatchIds : Truthful(matchStore[id], matches'[id], payments')
  BY <1>0, <1>1, TruthfulStays
<1>3. RecordsTrue' /\ matchStore' \in [MatchIds -> MatchRecord \cup {NoMatchRecord}]
  <2>1. CASE UNCHANGED matchStore
    BY <1>0, <1>2, <2>1 DEF RecordsTrue
  <2>2. CASE \E id \in MatchIds, rec \in MatchRecord :
               /\ matchStore' = [matchStore EXCEPT ![id] = rec]
               /\ Truthful(rec, matches'[id], payments')
    <3>1. PICK id \in MatchIds, rec \in MatchRecord :
            /\ matchStore' = [matchStore EXCEPT ![id] = rec]
            /\ Truthful(rec, matches'[id], payments')
      BY <2>2
    <3>2. ASSUME NEW j \in MatchIds PROVE Truthful(matchStore'[j], matches'[j], payments')
      <4>1. CASE j = id
        BY <1>0, <3>1, <4>1
      <4>2. CASE j # id
        <5>1. matchStore'[j] = matchStore[j]
          BY <1>0, <3>1, <4>2
        <5> QED
          BY <1>2, <5>1
      <4> QED
        BY <4>1, <4>2
    <3> QED
      BY <1>0, <3>1, <3>2 DEF RecordsTrue
  <2> QED
    BY <2>1, <2>2 DEF RecordWritten
<1>4. \A r \in Requests : Fits(requests[r], matches', matchStore', payments')
  BY <1>0, <1>1, FitsStays DEF RequestsFit
<1>5. RequestsFit' /\ requests' \in [Requests -> Request \cup {Idle}]
  <2>1. CASE UNCHANGED requests
    BY <1>0, <1>4, <2>1 DEF RequestsFit
  <2>2. CASE \E r \in Requests, q \in Request \cup {Idle} :
               /\ requests' = [requests EXCEPT ![r] = q]
               /\ Fits(q, matches', matchStore', payments')
    <3>1. PICK r \in Requests, q \in Request \cup {Idle} :
            /\ requests' = [requests EXCEPT ![r] = q]
            /\ Fits(q, matches', matchStore', payments')
      BY <2>2
    <3>2. ASSUME NEW s \in Requests
          PROVE  Fits(requests'[s], matches', matchStore', payments')
      <4>1. CASE s = r
        BY <1>0, <3>1, <4>1
      <4>2. CASE s # r
        <5>1. requests'[s] = requests[s]
          BY <1>0, <3>1, <4>2
        <5> QED
          BY <1>4, <5>1
      <4> QED
        BY <4>1, <4>2
    <3> QED
      BY <1>0, <3>1, <3>2 DEF RequestsFit
  <2> QED
    BY <2>1, <2>2 DEF RequestMoves
<1> QED
  BY <1>3, <1>5

\* A request that ends, or is at a step before it has an id or after it has settled, relies
\* on nothing.
LEMMA FreeFits ==
  ASSUME NEW q, q.pc \in {"idle", "fund", "submit", "conclude"}, NEW ms, NEW store, NEW paid
  PROVE  Fits(q, ms, store, paid)
BY DEF Fits, MatchSteps

LEMMA DoneMoves ==
  ASSUME NEW r \in Requests, Done(r)
  PROVE  RequestMoves
<1>1. requests' = [requests EXCEPT ![r] = Idle]
  BY DEF Done
<1>2. Idle \in Request \cup {Idle}
  OBVIOUS
<1>3. Fits(Idle, matches', matchStore', payments')
  BY IdleFits
<1> QED
  BY <1>1, <1>2, <1>3 DEF RequestMoves

\* A request that goes on keeps all but its pc.
LEMMA GoMoves ==
  ASSUME ServerTypeOK, NEW r \in Requests, requests[r].pc \in Steps, NEW pc \in Steps, Go(r, pc)
  PROVE  \E q \in Request :
           /\ requests' = [requests EXCEPT ![r] = q]
           /\ q.pc = pc /\ q.id = requests[r].id /\ q.match = requests[r].match
           /\ q.key = requests[r].key
<1> DEFINE q == [requests[r] EXCEPT !.pc = pc]
<1>1. requests[r] \in Request
  BY RequestTypes
<1>2. requests' = [requests EXCEPT ![r] = q]
  BY DEF Go, ServerTypeOK
<1>3. /\ q \in Request /\ q.pc = pc /\ q.id = requests[r].id /\ q.match = requests[r].match
      /\ q.key = requests[r].key
  BY <1>1 DEF Request
<1> HIDE DEF q
<1> QED
  BY <1>2, <1>3
\* The pc of a request in progress.
LEMMA PcSteps ==
  /\ OpenSteps \cup MatchSteps \subseteq Steps /\ {"pay", "paid", "scan", "conclude"} \subseteq Steps
  /\ OpenSteps = {"fund", "submit", "ack"} /\ MatchSteps = {"trigger", "store", "verify", "lock", "record"}
BY DEF Steps, OpenSteps, MatchSteps

\* A handler that starts; the match and the payment find what they are asked for.
LEMMA BeginMoves ==
  ASSUME DeskInv, NEW r \in Requests,
         \/ openRfq(r)
         \/ \E id \in MatchIds : startMatch(r, id) \/ payFromMakerAccount(r, id)
                                   \/ checkMakerPaymentStatus(r, id)
         \/ \E id \in MatchIds, tx \in TxIds : sendRelease(r, id, tx)
  PROVE  RequestMoves
<1>1. CASE openRfq(r)
  <2> DEFINE q == [Idle EXCEPT !.pc = "fund", !.id = NoId]
  <2>1. q \in Request /\ q.pc = "fund"
    BY BeginTypes, PcSteps
  <2>2. requests' = [requests EXCEPT ![r] = q]
    BY <1>1 DEF openRfq, Begin
  <2> HIDE DEF q
  <2>4. Fits(q, matches', matchStore', payments')
    BY <2>1, FreeFits
  <2> QED
    BY <2>1, <2>2, <2>4 DEF RequestMoves
<1>2. CASE \E id \in MatchIds, tx \in TxIds : sendRelease(r, id, tx)
  <2>1. PICK id \in MatchIds : Begin(r, "conclude", id)
    BY <1>2 DEF sendRelease
  <2> DEFINE q == [Idle EXCEPT !.pc = "conclude", !.id = id]
  <2>2. q \in Request /\ q.pc = "conclude"
    BY BeginTypes, PcSteps
  <2>3. requests' = [requests EXCEPT ![r] = q]
    BY <2>1 DEF Begin
  <2> HIDE DEF q
  <2>4. Fits(q, matches', matchStore', payments')
    BY <2>2, FreeFits
  <2> QED
    BY <2>2, <2>3, <2>4 DEF RequestMoves
<1>3. CASE \E id \in MatchIds : startMatch(r, id)
  <2>1. PICK id \in MatchIds : startMatch(r, id)
    BY <1>3
  <2>2. PICK until \in Nat :
          until = IF RfqKnown(id) THEN Smaller(rfqStore[id].windowEndsAt, now + MAX_WAIT) ELSE 0
    <3>1. rfqStore[id].windowEndsAt \in Nat /\ now + MAX_WAIT \in Nat
      BY MakerDeskAssumption DEF DeskInv, ServerTypeOK, RfqRecord, ChainOK, Inv, TypeOK
    <3> QED
      BY <3>1 DEF Smaller
  <2> DEFINE q == [Idle EXCEPT !.pc = "trigger", !.id = id, !.until = until]
  <2>3. q \in Request /\ q.pc = "trigger" /\ q.id = id
    <3>1. "trigger" \in Steps
      BY PcSteps
    <3>2. \A pc \in Steps, n \in Nat :
            LET p == [Idle EXCEPT !.pc = pc, !.id = id, !.until = n]
            IN  p \in Request /\ p.pc = pc /\ p.id = id
      BY WaitTypes
    <3> QED
      BY <3>1, <3>2
  <2>4. requests' = [requests EXCEPT ![r] = q]
    BY <2>1, <2>2 DEF startMatch
  <2> HIDE DEF q
  <2>5. Fits(q, matches', matchStore', payments')
    BY <2>3 DEF Fits, MatchSteps
  <2> QED
    BY <2>3, <2>4, <2>5 DEF RequestMoves
<1>4. CASE \E id \in MatchIds : payFromMakerAccount(r, id) \/ checkMakerPaymentStatus(r, id)
  <2>1. PICK id \in MatchIds, pc \in {"pay", "scan"} :
          MatchKnown(id) /\ Begin(r, pc, id) /\ OnlyRequests
    BY <1>4 DEF payFromMakerAccount, checkMakerPaymentStatus
  <2> DEFINE q == [Idle EXCEPT !.pc = pc, !.id = id]
  <2>2. pc \in Steps /\ id \in MatchIds \cup {NoId} /\ 0 \in Nat
    BY PcSteps
  <2>3. q \in Request /\ q.pc = pc /\ q.id = id
    BY <2>2, BeginTypes
  <2>4. requests' = [requests EXCEPT ![r] = q]
    BY <2>1 DEF Begin
  <2> HIDE DEF q
  <2>5. matchStore'[id] # NoMatchRecord
    BY <2>1 DEF MatchKnown, OnlyRequests, records
  <2>6. Fits(q, matches', matchStore', payments')
    BY <2>3, <2>5 DEF Fits, MatchSteps
  <2> QED
    BY <2>3, <2>4, <2>6 DEF RequestMoves
<1> QED
  BY <1>1, <1>2, <1>3, <1>4

\* Opening an RFQ.
LEMMA OpenMoves ==
  ASSUME DeskInv, NEW r \in Requests, fundTakerDeposit(r) \/ submitRfq(r) \/ ackRfq(r)
  PROVE  RequestMoves
<1>1. CASE fundTakerDeposit(r)
  <2>1. requests[r].pc = "fund" /\ Go(r, "submit")
    BY <1>1 DEF fundTakerDeposit
  <2>2. PICK q \in Request : requests' = [requests EXCEPT ![r] = q] /\ q.pc = "submit"
    BY <2>1, GoMoves, PcSteps DEF DeskInv
  <2>3. Fits(q, matches', matchStore', payments')
    BY <2>2, FreeFits
  <2> QED
    BY <2>2, <2>3 DEF RequestMoves
<1>2. CASE submitRfq(r)
  <2>1. PICK id \in MatchIds : requests' = [requests EXCEPT ![r].pc = "ack", ![r].id = id]
    BY <1>2 DEF submitRfq
  <2> DEFINE q == [requests[r] EXCEPT !.pc = "ack", !.id = id]
  <2>2. requests[r] \in Request
    BY <1>2, RequestTypes, PcSteps DEF submitRfq, DeskInv
  <2>3. q \in Request /\ q.pc = "ack" /\ q.id = id
    BY <2>2, PcSteps DEF Request
  <2>4. requests' = [requests EXCEPT ![r] = q]
    BY <2>1 DEF DeskInv, ServerTypeOK
  <2> HIDE DEF q
  <2>5. Fits(q, matches', matchStore', payments')
    BY <2>3 DEF Fits, MatchSteps
  <2> QED
    BY <2>3, <2>4, <2>5 DEF RequestMoves
<1>3. CASE ackRfq(r)
  BY <1>3, DoneMoves DEF ackRfq
<1> QED
  BY <1>1, <1>2, <1>3

\* What RFQ_MATCH finds is sound.
LEMMA FoundSound ==
  ASSUME DeskInv, NEW id \in MatchIds, Undecided(id), NEW f \in Found(id)
  PROVE  SoundMatch(f, id)
<1> DEFINE was == enclave[id]
<1>1. was \in EnclaveRfq /\ was.taker \in Takers /\ now \in Nat
  BY DEF DeskInv, EnclaveOK, ChainOK, Inv, TypeOK, Undecided, Sound
<1>2. CASE f = NoMatchFound
  BY <1>2 DEF SoundMatch, NoMatchFound
<1>3. ASSUME NEW k \in TeeKeys, NEW m \in was.quoted, NEW p \in Prices, f = MatchFound(id, k, m, p)
      PROVE  SoundMatch(f, id)
  <2> DEFINE mi == Instruction(id, was.taker, m, p, now + INSTRUCTION_TTL)
  <2>1. /\ was.taker \in Parties /\ XrplOf[was.taker] \in XrplAddresses
        /\ m \in Parties /\ p \in Nat /\ now + INSTRUCTION_TTL \in Nat
    BY <1>1, <1>3, Desk, MakerDeskAssumption DEF EnclaveRfq
  <2>2. mi \in MatchInstruction /\ mi.matchId = id
    BY <2>1, Desk, EscrowAssumption DEF Instruction, MatchInstruction
  <2> HIDE DEF mi
  <2>3. f.match = mi /\ f.key = k
    BY <1>3 DEF mi, MatchFound
  <2> QED
    BY <2>2, <2>3 DEF SoundMatch
<1> QED
  BY <1>2, <1>3 DEF Found

\* A sound find is of the type of what a request and the enclave keep.
LEMMA SoundTypes ==
  ASSUME NEW f, NEW id, SoundMatch(f, id)
  PROVE  /\ f.match \in Instructed /\ f.key \in TeeKeys \cup {Nobody}
         /\ f # NoMatchFound => f.match \in MatchInstruction /\ f.match.matchId = id
BY DEF SoundMatch, NoMatchFound, Instructed

\* A request goes on with it, to store it or to answer it.
LEMMA WithMoves ==
  ASSUME NEW was \in Request, was.id \in MatchIds, NEW f, SoundMatch(f, was.id),
         NEW pc \in {"store", "verify"}, pc = "verify" => f # NoMatchFound
  PROVE  /\ With(was, pc, f) \in Request
         /\ Fits(With(was, pc, f), matches', matchStore', payments')
<1> DEFINE q == With(was, pc, f)
<1>1. f.match \in Instructed /\ f.key \in TeeKeys \cup {Nobody}
  BY SoundTypes
<1>2. q \in Request /\ q.pc = pc /\ q.id = was.id /\ q.match = f.match /\ q.key = f.key
  BY <1>1, PcSteps DEF With, Request
<1> HIDE DEF q
<1>3. pc = "store" => SoundMatch([match |-> q.match, key |-> q.key], q.id)
  <2>1. f = NoMatchFound => [match |-> q.match, key |-> q.key] = NoMatchFound
    BY <1>2 DEF NoMatchFound
  <2> QED
    BY <1>2, <2>1 DEF SoundMatch
<1>4. pc = "verify" => q.match \in MatchInstruction /\ q.match.matchId = q.id
  BY <1>2, SoundTypes
<1>5. Fits(q, matches', matchStore', payments')
  BY <1>2, <1>3, <1>4 DEF Fits
<1> QED
  BY <1>2, <1>5 DEF q

LEMMA AnsweredMoves ==
  ASSUME ServerTypeOK, NEW r \in Requests, requests[r] \in Request, requests[r].id \in MatchIds,
         NEW f, SoundMatch(f, requests[r].id), Answered(r, f)
  PROVE  RequestMoves
<1>1. CASE f = NoMatchFound
  BY <1>1, DoneMoves DEF Answered
<1>2. CASE f # NoMatchFound
  <2>1. requests' = [requests EXCEPT ![r] = With(requests[r], "verify", f)]
    BY <1>2 DEF Answered
  <2> QED
    BY <1>2, <2>1, WithMoves DEF RequestMoves
<1> QED
  BY <1>1, <1>2

\* From the trigger of a match to the lock.
LEMMA MatchMoves ==
  ASSUME DeskInv, NEW r \in Requests,
         triggerMatch(r) \/ storeMatch(r) \/ verifyMatchSignature(r) \/ sendLock(r)
  PROVE  RequestMoves
<1> DEFINE was == requests[r]
<1>0. /\ was \in Request /\ was.pc \in MatchSteps
      /\ was.id \in MatchIds
      /\ requests \in [Requests -> Request \cup {Idle}]
  <2>1. was.pc \in MatchSteps
    BY PcSteps DEF triggerMatch, storeMatch, verifyMatchSignature, sendLock
  <2> QED
    BY <2>1, RequestTypes, PcSteps DEF DeskInv, RequestsFit, Fits, ServerTypeOK
<1>1. CASE triggerMatch(r)
  <2>1. CASE TriesLeft(was) /\ requests' = [requests EXCEPT ![r].attempts = @ + 1]
    <3> DEFINE q == [was EXCEPT !.attempts = @ + 1]
    <3>1. was.attempts + 1 \in 0..MAX_ATTEMPTS
      BY <1>0, <2>1, MakerDeskAssumption DEF Request, TriesLeft
    <3>2. q \in Request /\ q.pc = was.pc /\ q.id = was.id
      BY <1>0, <3>1 DEF Request
    <3>3. requests' = [requests EXCEPT ![r] = q]
      BY <1>0, <2>1
    <3>4. q.pc = "trigger"
      BY <1>1, <3>2 DEF triggerMatch
    <3> HIDE DEF q
    <3>5. Fits(q, matches', matchStore', payments')
      BY <1>0, <3>2, <3>4 DEF Fits
    <3> QED
      BY <3>2, <3>3, <3>5 DEF RequestMoves
  <2> DEFINE e == enclave[was.id]
             stored == [match |-> e.match, key |-> e.key]
  <2>2. CASE e.outcome \in {"NO_MATCH", "MATCHED"} /\ Answered(r, stored)
    <3>1. SoundMatch(stored, was.id)
      BY <1>0, <2>2 DEF DeskInv, EnclaveOK, Sound
    <3> HIDE DEF stored
    <3> QED
      BY <1>0, <2>2, <3>1, AnsweredMoves DEF DeskInv
  <2>3. ASSUME Undecided(was.id), NEW f \in Found(was.id),
               requests' = [requests EXCEPT ![r] = With(was, "store", f)]
        PROVE  RequestMoves
    <3>1. SoundMatch(f, was.id)
      BY <1>0, <2>3, FoundSound
    <3> QED
      BY <1>0, <2>3, <3>1, WithMoves DEF RequestMoves
  <2> QED
    BY <1>1, <2>1, <2>2, <2>3 DEF triggerMatch
<1>4. CASE storeMatch(r)
  <2> DEFINE f == [match |-> was.match, key |-> was.key]
  <2>1. was.pc = "store" /\ Answered(r, f)
    BY <1>4 DEF storeMatch
  <2>2. SoundMatch(f, was.id)
    BY <2>1 DEF DeskInv, RequestsFit, Fits
  <2> HIDE DEF f
  <2> QED
    BY <1>0, <2>1, <2>2, AnsweredMoves DEF DeskInv
<1>2. CASE verifyMatchSignature(r)
  <2>1. was.pc = "verify" /\ Go(r, "lock")
    BY <1>2 DEF verifyMatchSignature
  <2>2. was.match \in MatchInstruction /\ was.match.matchId = was.id
    BY <2>1 DEF DeskInv, RequestsFit, Fits
  <2>3. PICK q \in Request : /\ requests' = [requests EXCEPT ![r] = q]
                             /\ q.pc = "lock" /\ q.id = was.id /\ q.match = was.match
    BY <2>1, GoMoves, PcSteps DEF DeskInv
  <2>4. Fits(q, matches', matchStore', payments')
    BY <1>0, <2>2, <2>3 DEF Fits
  <2> QED
    BY <2>3, <2>4 DEF RequestMoves
<1>3. CASE sendLock(r)
  <2>1. was.pc = "lock" /\ lock(was.match, was.key, FTSO_FEE) /\ Go(r, "record")
    BY <1>3 DEF sendLock
  <2>2. was.match \in MatchInstruction /\ was.match.matchId = was.id
    BY <2>1 DEF DeskInv, RequestsFit, Fits
  <2>3. matches'[was.id] = NewMatch(was.match)
    BY <1>0, <2>1, <2>2, LockTerms DEF DeskInv, ChainOK
  <2>4. matches'[was.id].state # "None"
    BY <2>3 DEF NewMatch, MatchWithTag
  <2>5. PICK q \in Request : /\ requests' = [requests EXCEPT ![r] = q]
                             /\ q.pc = "record" /\ q.id = was.id
    BY <2>1, GoMoves, PcSteps DEF DeskInv
  <2>6. Fits(q, matches', matchStore', payments')
    BY <1>0, <2>4, <2>5 DEF Fits
  <2> QED
    BY <2>5, <2>6 DEF RequestMoves
<1> QED
  BY <1>1, <1>2, <1>3, <1>4

\* What a payment of a record has covers its match, whoever sends it.
LEMMA RecordPays ==
  ASSUME DeskInv, NEW id \in MatchIds, matchStore[id] # NoMatchRecord, NEW p \in Payment,
         p.made, p.form.source = EXPECTED_SOURCE_ID, PaysRecord(p, matchStore[id])
  PROVE  Pays(p, matches[id])
<1> DEFINE m == matches[id]
<1>1. /\ Truthful(matchStore[id], m, payments) /\ Payable(m) /\ m \in Match
  BY DEF DeskInv, RecordsTrue, ChainOK, Inv, TypeOK
<1>2. /\ p.form.receivingAddress = m.takerXrplAddress /\ p.form.destinationTag = m.destinationTag
      /\ p.form.intendedReceivedAmount = m.xrpDrops /\ p.form.status = 0 /\ p.form.hasDestinationTag
  BY <1>1 DEF Truthful, PaysRecord
<1>3. m.xrpDrops \in Nat /\ m.xrpDrops > 0 /\ m.lockedAt \in Nat /\ m.lockedAt <= m.paymentDeadline
  BY <1>1 DEF Truthful, Payable, Match
<1> DEFINE n == Delivered(p, m)
<1>4. /\ n.form.source = p.form.source /\ n.form.status = p.form.status
      /\ n.form.receivingAddress = p.form.receivingAddress
      /\ n.form.hasDestinationTag = p.form.hasDestinationTag
      /\ n.form.destinationTag = p.form.destinationTag
      /\ n.form.receivedAmount = p.form.intendedReceivedAmount
      /\ n.blockTimestamp = m.lockedAt
  BY DEF Delivered, Payment, PaymentForm
<1> HIDE DEF m, n
<1>5. PaysFor(n, m)
  BY <1>2, <1>3, <1>4 DEF PaysFor
<1> QED
  BY <1>5 DEF Pays, m, n

\* The payment, from the maker's account.
LEMMA PayMoves ==
  ASSUME DeskInv, NEW r \in Requests, NEW tx \in TxIds, payXrpl(r, tx)
  PROVE  RequestMoves
<1> DEFINE was == requests[r]
           rec == matchStore[was.id]
           form == [source |-> EXPECTED_SOURCE_ID, status |-> 0,
                    receivingAddress |-> rec.xrplDestination, hasDestinationTag |-> TRUE,
                    destinationTag |-> rec.destinationTag, receivedAmount |-> rec.xrpDrops,
                    intendedReceivedAmount |-> rec.xrpDrops]
           paid == [made |-> TRUE, form |-> form, blockTimestamp |-> now]
<1>1. /\ was.pc = "pay" /\ was.id \in MatchIds /\ rec # NoMatchRecord
      /\ was \in Request /\ rec \in MatchRecord
      /\ requests \in [Requests -> Request \cup {Idle}]
      /\ payments \in [TxIds -> Payment] /\ now \in Nat
  <2>1. was.pc = "pay"
    BY DEF payXrpl
  <2> QED
    BY <2>1, RequestTypes, PcSteps
       DEF DeskInv, RequestsFit, Fits, ServerTypeOK, ChainOK, Inv, TypeOK
<1>2. /\ payments' = [payments EXCEPT ![tx] = paid] /\ UNCHANGED <<matches, matchStore>>
      /\ requests' = [requests EXCEPT ![r].pc = "paid", ![r].xrplTx = tx]
  BY DEF payXrpl, XrplPay, escrowVars, records
<1>3. form \in PaymentForm
  BY <1>1, EscrowAssumption DEF MatchRecord, PaymentForm
<1>4. paid \in Payment /\ paid.made /\ paid.form.source = EXPECTED_SOURCE_ID
      /\ PaysRecord(paid, rec)
  BY <1>1, <1>3 DEF Payment, PaysRecord
<1> DEFINE q == [was EXCEPT !.pc = "paid", !.xrplTx = tx]
<1>5. requests' = [requests EXCEPT ![r] = q]
  BY <1>1, <1>2
<1>6. q \in Request /\ q.pc = "paid" /\ q.id = was.id /\ q.xrplTx = tx
  BY <1>1, PcSteps DEF Request
<1> HIDE DEF form, paid, q
<1>7. Pays(paid, matches[was.id])
  BY <1>1, <1>4, RecordPays
<1>8. payments'[tx] = paid
  BY <1>1, <1>2
<1>9. Fits(q, matches', matchStore', payments')
  BY <1>1, <1>2, <1>6, <1>7, <1>8 DEF Fits, MatchSteps
<1> QED
  BY <1>5, <1>6, <1>9 DEF RequestMoves
\* The record of a match, and of its payment.
LEMMA RecordSteps ==
  ASSUME DeskInv, NEW r \in Requests,
         recordMatch(r) \/ payAnswers(r) \/ \E tx \in TxIds : scanFinds(r, tx)
  PROVE  RecordWritten
<1> DEFINE id == requests[r].id
<1>0. /\ payments \in [TxIds -> Payment] /\ now \in Nat /\ UNCHANGED <<matches, payments>>
      /\ id \in MatchIds
      /\ matchStore \in [MatchIds -> MatchRecord \cup {NoMatchRecord}]
  <2>1. /\ requests[r].pc \in {"record", "paid", "scan"}
        /\ UNCHANGED <<matches, payments>>
    BY DEF recordMatch, payAnswers, scanFinds, OffChain, vars, escrowVars, worldVars
  <2>2. id \in MatchIds
    BY <2>1, PcSteps DEF DeskInv, RequestsFit, Fits
  <2> QED
    BY <2>1, <2>2 DEF DeskInv, ChainOK, Inv, TypeOK, ServerTypeOK
<1>1. CASE recordMatch(r)
  <2> DEFINE m == matches[id]
             rec == [xrplDestination |-> m.takerXrplAddress, xrpDrops |-> m.xrpDrops,
                     destinationTag |-> m.destinationTag, paymentDeadline |-> m.paymentDeadline,
                     xrplTx |-> NoTx, createdAt |-> now]
  <2>1. matchStore' = [matchStore EXCEPT ![id] = rec]
    BY <1>1 DEF recordMatch, DropsOfEvent
  <2>2. m \in Match /\ m.state # "None" /\ Payable(m)
    BY <1>0, <1>1 DEF recordMatch, DeskInv, RequestsFit, Fits, ChainOK, Inv, TypeOK
  <2>3. rec \in MatchRecord
    BY <1>0, <2>2 DEF Payable, Match, MatchRecord
  <2>4. Truthful(rec, m, payments')
    BY <2>2 DEF Truthful
  <2> HIDE DEF rec
  <2> QED
    BY <1>0, <2>1, <2>3, <2>4 DEF RecordWritten
<1>2. ASSUME NEW tx \in TxIds, recordMatchPayment(id, tx), matchStore[id] # NoMatchRecord,
             Pays(payments[tx], matches[id])
      PROVE  RecordWritten
  <2> DEFINE rec == [matchStore[id] EXCEPT !.xrplTx = tx]
  <2>1. matchStore[id] \in MatchRecord /\ Truthful(matchStore[id], matches[id], payments)
    BY <1>0, <1>2 DEF DeskInv, RecordsTrue
  <2>2. matchStore' = [matchStore EXCEPT ![id] = rec]
    BY <1>0, <1>2 DEF recordMatchPayment
  <2>3. /\ rec \in MatchRecord /\ rec.xrplTx = tx
        /\ rec.xrplDestination = matchStore[id].xrplDestination
        /\ rec.xrpDrops = matchStore[id].xrpDrops
        /\ rec.destinationTag = matchStore[id].destinationTag
        /\ rec.paymentDeadline = matchStore[id].paymentDeadline
    BY <2>1 DEF MatchRecord
  <2> HIDE DEF rec
  <2>4. Truthful(rec, matches[id], payments)
    BY <1>2, <2>1, <2>3 DEF Truthful
  <2> QED
    BY <1>0, <2>2, <2>3, <2>4 DEF RecordWritten
<1>3. CASE payAnswers(r)
  <2>1. /\ requests[r].xrplTx \in TxIds /\ matchStore[id] # NoMatchRecord
        /\ Pays(payments[requests[r].xrplTx], matches[id])
    BY <1>3 DEF payAnswers, DeskInv, RequestsFit, Fits
  <2> QED
    BY <1>2, <1>3, <2>1 DEF payAnswers
<1>4. ASSUME NEW tx \in TxIds, scanFinds(r, tx) PROVE RecordWritten
  <2>1. /\ matchStore[id] # NoMatchRecord /\ payments[tx] \in Payment
        /\ payments[tx].made /\ payments[tx].form.source = EXPECTED_SOURCE_ID
        /\ PaysRecord(payments[tx], matchStore[id])
    BY <1>0, <1>4 DEF scanFinds, DeskInv, RequestsFit, Fits, ChainOK
  <2>2. Pays(payments[tx], matches[id])
    BY <1>0, <2>1, RecordPays
  <2> QED
    BY <1>2, <1>4, <2>1, <2>2 DEF scanFinds
<1> QED
  BY <1>1, <1>3, <1>4

\* An RFQ with an outcome stored for it is one still.
LEMMA StoredTypes ==
  ASSUME NEW was \in EnclaveRfq, NEW f, f.match \in Instructed, f.key \in TeeKeys \cup {Nobody}
  PROVE  LET e == [was EXCEPT !.outcome = IF f = NoMatchFound THEN "NO_MATCH" ELSE "MATCHED",
                              !.match = f.match, !.key = f.key]
         IN  /\ e \in EnclaveRfq /\ e.outcome \in {"NO_MATCH", "MATCHED"}
             /\ e.match = f.match /\ e.key = f.key
BY DEF EnclaveRfq

\* What the enclave holds stays sound.
LEMMA EnclaveStep == DeskInv /\ [MakerNext]_makerVars => EnclaveOK'
<1> SUFFICES ASSUME DeskInv, [MakerNext]_makerVars PROVE EnclaveOK'
  OBVIOUS
<1>0. /\ enclave \in [MatchIds -> EnclaveRfq] /\ \A id \in MatchIds : Sound(enclave[id], id)
      /\ now \in Nat
  BY DEF DeskInv, EnclaveOK, ChainOK, Inv, TypeOK
<1>1. ASSUME NEW id \in MatchIds, NEW e \in EnclaveRfq, Sound(e, id),
             enclave' = [enclave EXCEPT ![id] = e]
      PROVE  EnclaveOK'
  <2>1. ASSUME NEW j \in MatchIds PROVE Sound(enclave'[j], j)
    BY <1>0, <1>1
  <2> QED
    BY <1>0, <1>1, <2>1 DEF EnclaveOK
<1>2. ASSUME NEW t \in Takers, NEW id \in MatchIds, Submitted(id, t) PROVE EnclaveOK'
  <2> DEFINE e == [NotSubmitted EXCEPT !.taker = t, !.windowEndsAt = now + RFQ_WINDOW,
                                       !.outcome = "open"]
  <2>1. now + RFQ_WINDOW \in Nat
    BY <1>0, MakerDeskAssumption
  <2>2. e \in EnclaveRfq /\ e.outcome = "open" /\ e.taker = t
    BY <2>1 DEF NotSubmitted, EnclaveRfq, Instructed
  <2>3. enclave' = [enclave EXCEPT ![id] = e]
    BY <1>2 DEF Submitted
  <2> HIDE DEF e
  <2>4. Sound(e, id)
    BY <2>2 DEF Sound
  <2> QED
    BY <1>1, <2>2, <2>3, <2>4
<1>3. ASSUME NEW id \in MatchIds, NEW f, SoundMatch(f, id), Stored(id, f) PROVE EnclaveOK'
  <2> DEFINE e == [enclave[id] EXCEPT !.outcome = IF f = NoMatchFound THEN "NO_MATCH" ELSE "MATCHED",
                                      !.match = f.match, !.key = f.key]
  <2>1. enclave' = [enclave EXCEPT ![id] = e]
    BY <1>0, <1>3 DEF Stored
  <2>2. /\ e \in EnclaveRfq /\ e.outcome \in {"NO_MATCH", "MATCHED"}
        /\ e.match = f.match /\ e.key = f.key
    <3>1. /\ enclave[id] \in EnclaveRfq
          /\ f.match \in Instructed /\ f.key \in TeeKeys \cup {Nobody}
      BY <1>0, <1>3, SoundTypes
    <3> QED
      BY <3>1, StoredTypes
  <2> HIDE DEF e
  <2>3. f = NoMatchFound => [match |-> e.match, key |-> e.key] = NoMatchFound
    BY <2>2 DEF NoMatchFound
  <2>4. Sound(e, id)
    BY <1>3, <2>2, <2>3 DEF Sound, SoundMatch
  <2> QED
    BY <1>1, <2>1, <2>2, <2>4
<1>10. CASE \E r \in Requests : storeMatch(r)
  <2>1. PICK r \in Requests : storeMatch(r)
    BY <1>10
  <2> DEFINE q == requests[r]
             f == [match |-> q.match, key |-> q.key]
  <2>2. q.pc = "store" /\ Stored(q.id, f)
    BY <2>1 DEF storeMatch
  <2>3. q.id \in MatchIds /\ SoundMatch(f, q.id)
    BY <2>2, PcSteps DEF DeskInv, RequestsFit, Fits
  <2> HIDE DEF f
  <2> QED
    BY <1>3, <2>2, <2>3
<1>11. CASE \E id \in MatchIds : othersMatch(id)
  <2>1. PICK id \in MatchIds : othersMatch(id)
    BY <1>11
  <2>2. PICK f \in Found(id) : Undecided(id) /\ Stored(id, f)
    BY <2>1 DEF othersMatch
  <2> QED
    BY <1>3, <2>2, FoundSound
<1>4. CASE \E m \in Makers, id \in MatchIds : submitQuote(m, id)
  <2>1. PICK m \in Makers, id \in MatchIds : submitQuote(m, id)
    BY <1>4
  <2> DEFINE was == enclave[id]
             e == [was EXCEPT !.quoted = @ \cup {m}]
  <2>2. enclave' = [enclave EXCEPT ![id] = e]
    BY <1>0, <2>1 DEF submitQuote
  <2>3. was \in EnclaveRfq /\ Sound(was, id)
    BY <1>0
  <2> HIDE DEF was
  <2>4. /\ e \in EnclaveRfq /\ e.outcome = was.outcome /\ e.taker = was.taker
        /\ e.match = was.match /\ e.key = was.key
    BY <2>3 DEF EnclaveRfq
  <2> HIDE DEF e
  <2>5. Sound(e, id)
    BY <2>3, <2>4 DEF Sound
  <2> QED
    BY <1>1, <2>2, <2>4, <2>5
<1>5. CASE enclaveRestart
  <2> DEFINE Lost(was) ==
        [was EXCEPT !.outcome = "absent", !.quoted = {}, !.match = NoInstruction, !.key = Nobody]
  <2>1. enclave' = [id \in MatchIds |-> Lost(enclave[id])]
    BY <1>5 DEF enclaveRestart
  <2>2. \A was \in EnclaveRfq : Lost(was) \in EnclaveRfq /\ Lost(was).outcome = "absent"
    BY DEF EnclaveRfq, Instructed
  <2> HIDE DEF Lost
  <2> QED
    BY <1>0, <2>1, <2>2 DEF EnclaveOK, Sound
<1>6. CASE \E r \in Requests : submitRfq(r)
  BY <1>2, <1>6 DEF submitRfq, Takers
<1>7. CASE \E t \in VisitingTakers, id \in MatchIds : VisitorSubmits(t, id)
  BY <1>2, <1>7 DEF VisitorSubmits, Takers
<1>8. CASE UNCHANGED enclave
  BY <1>0, <1>8 DEF EnclaveOK
<1>9. \/ UNCHANGED enclave
      \/ \E r \in Requests : storeMatch(r) \/ submitRfq(r)
      \/ \E id \in MatchIds : othersMatch(id)
      \/ \E m \in Makers, id \in MatchIds : submitQuote(m, id)
      \/ \E t \in VisitingTakers, id \in MatchIds : VisitorSubmits(t, id)
      \/ enclaveRestart
  BY DEF MakerNext, ServerStep, OutsideStep, makerVars, openRfq, fundTakerDeposit, ackRfq,
         triggerMatch, verifyMatchSignature, sendLock, OnlyRequests, recordMatch, failRun, payAnswers, failPaying,
         concludeRun, startMatch, payFromMakerAccount, checkMakerPaymentStatus, sendRelease,
         payXrpl, scanFinds, confirmTakerRfq, settle, xrplAccount, failRelease, restart,
         VisitorFunds, ManualPayment, WorldMoves
<1> QED
  BY <1>4, <1>5, <1>6, <1>7, <1>8, <1>9, <1>10, <1>11

\* The run lock, the records of RFQs and the maker's account keep their types.
LEMMA RestTypes ==
  ASSUME DeskInv, [MakerNext]_makerVars
  PROVE  /\ RunLockTypeOK'
         /\ rfqStore' \in [MatchIds -> RfqRecord]
         /\ currentMakerXrplAccount' \in [createdAt : Nat] \cup {NoAccount}
<1>0. /\ RunLockTypeOK /\ now \in Nat /\ rfqStore \in [MatchIds -> RfqRecord]
      /\ currentMakerXrplAccount \in [createdAt : Nat] \cup {NoAccount}
      /\ enclave \in [MatchIds -> EnclaveRfq]
  BY DEF DeskInv, ChainOK, ServerTypeOK, EnclaveOK, Inv, TypeOK
<1>1. RunLockTypeOK'
  <2>1. UNCHANGED currentRun \/ tryAcquireRunLock(now) \/ currentRun' = NoRun
    BY DEF MakerNext, ServerStep, OutsideStep, makerVars, serverVars, OnlyRequests, openRfq,
           fundTakerDeposit, submitRfq, ackRfq, triggerMatch, storeMatch, verifyMatchSignature, sendLock,
           recordMatch, failRun, payAnswers, failPaying, concludeRun, startMatch,
           payFromMakerAccount, checkMakerPaymentStatus, sendRelease, payXrpl, scanFinds,
           confirmTakerRfq, settle, xrplAccount, failRelease, restart, VisitorSubmits, submitQuote,
           enclaveRestart, othersMatch, VisitorFunds, ManualPayment, WorldMoves, releaseRunLock
  <2> QED
    BY <1>0, <2>1 DEF tryAcquireRunLock, RunLockTypeOK, RunLock
<1>2. rfqStore' \in [MatchIds -> RfqRecord]
  <2>1. ASSUME NEW id \in MatchIds, putRfqRecord(id, enclave[id].windowEndsAt)
        PROVE  rfqStore' \in [MatchIds -> RfqRecord]
    <3>1. [windowEndsAt |-> enclave[id].windowEndsAt, createdAt |-> now] \in RfqRecord
      BY <1>0 DEF EnclaveRfq, RfqRecord
    <3> QED
      BY <1>0, <2>1, <3>1 DEF putRfqRecord
  <2>2. CASE \E r \in Requests : ackRfq(r)
    <3>1. PICK r \in Requests : ackRfq(r)
      BY <2>2
    <3>2. requests[r].id \in MatchIds
      BY <3>1 DEF ackRfq, DeskInv, RequestsFit, Fits
    <3> QED
      BY <2>1, <3>1, <3>2 DEF ackRfq
  <2>3. CASE \E id \in MatchIds : confirmTakerRfq(id)
    BY <2>1, <2>3 DEF confirmTakerRfq
  <2>4. CASE restart
    BY <2>4 DEF restart, NoRfqRecord, RfqRecord
  <2>5. CASE UNCHANGED rfqStore
    BY <1>0, <2>5
  <2>6. \/ UNCHANGED rfqStore \/ restart
        \/ \E r \in Requests : ackRfq(r)
        \/ \E id \in MatchIds : confirmTakerRfq(id)
    BY DEF MakerNext, ServerStep, OutsideStep, makerVars, serverVars, records, OnlyRequests, openRfq,
           fundTakerDeposit, submitRfq, triggerMatch, storeMatch, verifyMatchSignature, sendLock,
           recordMatch, failRun, payAnswers, failPaying, concludeRun, startMatch,
           payFromMakerAccount, checkMakerPaymentStatus, sendRelease, payXrpl, scanFinds,
           settle, xrplAccount, failRelease, VisitorSubmits, submitQuote,
           enclaveRestart, othersMatch, VisitorFunds, ManualPayment, WorldMoves
  <2> QED
    BY <2>2, <2>3, <2>4, <2>5, <2>6
<1>3. currentMakerXrplAccount' \in [createdAt : Nat] \cup {NoAccount}
  <2>1. \/ UNCHANGED currentMakerXrplAccount
        \/ currentMakerXrplAccount' = [createdAt |-> now]
        \/ currentMakerXrplAccount' = NoAccount
    BY DEF MakerNext, ServerStep, OutsideStep, makerVars, serverVars, records, OnlyRequests, openRfq,
           fundTakerDeposit, submitRfq, ackRfq, triggerMatch, storeMatch, verifyMatchSignature, sendLock,
           recordMatch, failRun, payAnswers, failPaying, concludeRun, startMatch,
           payFromMakerAccount, checkMakerPaymentStatus, sendRelease, payXrpl, scanFinds,
           confirmTakerRfq, settle, xrplAccount, failRelease, restart, VisitorSubmits, submitQuote,
           enclaveRestart, othersMatch, VisitorFunds, ManualPayment, WorldMoves
  <2> QED
    BY <1>0, <2>1
<1> QED
  BY <1>1, <1>2, <1>3

\* Every step but a restart moves at most one request and writes at most one record.
LEMMA StepMoves ==
  ASSUME DeskInv, [MakerNext]_makerVars
  PROVE  restart \/ (RequestMoves /\ RecordWritten)
<1>1. CASE \E r \in Requests :
             \/ openRfq(r)
             \/ \E id \in MatchIds : startMatch(r, id) \/ payFromMakerAccount(r, id)
                                       \/ checkMakerPaymentStatus(r, id)
             \/ \E id \in MatchIds, tx \in TxIds : sendRelease(r, id, tx)
  <2>1. UNCHANGED matchStore
    BY <1>1 DEF openRfq, startMatch, payFromMakerAccount, checkMakerPaymentStatus, sendRelease,
       OnlyRequests, records
  <2> QED
    BY <1>1, <2>1, BeginMoves DEF RecordWritten
<1>2. CASE \E r \in Requests : fundTakerDeposit(r) \/ submitRfq(r) \/ ackRfq(r)
  BY <1>2, OpenMoves DEF RecordWritten, fundTakerDeposit, submitRfq, ackRfq, records
<1>3. CASE \E r \in Requests :
             triggerMatch(r) \/ storeMatch(r) \/ verifyMatchSignature(r) \/ sendLock(r)
  BY <1>3, MatchMoves DEF RecordWritten, triggerMatch, storeMatch, verifyMatchSignature, sendLock, OnlyRequests,
     records
<1>4. CASE \E r \in Requests, tx \in TxIds : payXrpl(r, tx)
  BY <1>4, PayMoves DEF RecordWritten, payXrpl, records
<1>5. CASE \E r \in Requests : recordMatch(r) \/ payAnswers(r) \/ \E tx \in TxIds : scanFinds(r, tx)
  BY <1>5, RecordSteps, DoneMoves DEF recordMatch, payAnswers, scanFinds
<1>6. CASE \E r \in Requests : failRun(r) \/ failPaying(r) \/ concludeRun(r)
  BY <1>6, DoneMoves DEF RecordWritten, failRun, failPaying, concludeRun, OnlyRequests, records
<1>7. CASE UNCHANGED <<matchStore, requests>>
  BY <1>7 DEF RequestMoves, RecordWritten
<1>8. \/ (\E id \in MatchIds : confirmTakerRfq(id) \/ settle(id)) \/ xrplAccount \/ failRelease
      \/ OutsideStep \/ UNCHANGED makerVars
      => UNCHANGED <<matchStore, requests>>
  BY DEF confirmTakerRfq, settle, xrplAccount, failRelease, OutsideStep, VisitorSubmits, submitQuote,
         enclaveRestart, othersMatch, VisitorFunds, ManualPayment, WorldMoves, makerVars, serverVars,
         records
<1> QED
  <2>1. CASE ServerStep
    <3>1. ASSUME NEW r \in Requests,
                 \/ openRfq(r) \/ fundTakerDeposit(r) \/ submitRfq(r) \/ ackRfq(r)
                 \/ triggerMatch(r) \/ storeMatch(r) \/ verifyMatchSignature(r) \/ sendLock(r)
                 \/ recordMatch(r)
                 \/ failRun(r) \/ payAnswers(r) \/ failPaying(r) \/ concludeRun(r)
          PROVE  restart \/ (RequestMoves /\ RecordWritten)
      BY <1>1, <1>2, <1>3, <1>5, <1>6, <3>1
    <3>2. ASSUME NEW r \in Requests, NEW id \in MatchIds,
                 \/ startMatch(r, id) \/ payFromMakerAccount(r, id)
                 \/ checkMakerPaymentStatus(r, id)
                 \/ \E tx \in TxIds : sendRelease(r, id, tx)
          PROVE  restart \/ (RequestMoves /\ RecordWritten)
      BY <1>1, <3>2
    <3>3. ASSUME NEW r \in Requests, NEW tx \in TxIds, payXrpl(r, tx) \/ scanFinds(r, tx)
          PROVE  restart \/ (RequestMoves /\ RecordWritten)
      BY <1>4, <1>5, <3>3
    <3>4. ASSUME (\E id \in MatchIds : confirmTakerRfq(id) \/ settle(id)) \/ xrplAccount \/ failRelease
          PROVE  restart \/ (RequestMoves /\ RecordWritten)
      BY <1>7, <1>8, <3>4
    <3> QED
      BY <2>1, <3>1, <3>2, <3>3, <3>4 DEF ServerStep
  <2>2. CASE OutsideStep \/ UNCHANGED makerVars
    BY <1>7, <1>8, <2>2
  <2> QED
    BY <2>1, <2>2 DEF MakerNext

-----------------------------------------------------------------------------
(***************************************************************************)
(* The theorems.                                                           *)
(***************************************************************************)
LEMMA DeskInvStep == DeskInv /\ [MakerNext]_makerVars => DeskInv'
<1> SUFFICES ASSUME DeskInv, [MakerNext]_makerVars PROVE DeskInv'
  OBVIOUS
<1>1. ChainOK' /\ ChainKept
  BY ChainStep DEF ChainKept
<1>2. EnclaveOK'
  BY EnclaveStep
<1>3. CASE restart
  <2>1. \A r \in Requests : requests'[r] = Idle
    BY <1>3 DEF restart
  <2>2. RequestsFit'
    BY <2>1, IdleFits DEF RequestsFit
  <2>3. matchStore' = [id \in MatchIds |-> NoMatchRecord] /\ requests' = [r \in Requests |-> Idle]
    BY <1>3 DEF restart
  <2>4. RecordsTrue'
    BY <2>3 DEF RecordsTrue, Truthful
  <2>5. ServerTypeOK'
    BY <2>3, RestTypes DEF ServerTypeOK
  <2> QED
    BY <1>1, <1>2, <2>2, <2>4, <2>5 DEF DeskInv
<1>4. CASE RequestMoves /\ RecordWritten
  BY <1>1, <1>2, <1>4, MovesKeep, RestTypes DEF DeskInv, ServerTypeOK
<1> QED
  BY <1>3, <1>4, StepMoves

LEMMA DeskInvInit == MakerInit => DeskInv
<1> SUFFICES ASSUME MakerInit PROVE DeskInv
  OBVIOUS
<1>1. ChainOK
  <2>1. Inv
    BY InitInv DEF MakerInit
  <2>2. \A id \in MatchIds : matches[id].state = "None"
    BY DEF MakerInit, Init, NoMatch
  <2>3. \A tx \in TxIds : ~payments[tx].made
    BY DEF MakerInit, Init, NoPayment
  <2> QED
    BY <2>1, <2>2, <2>3 DEF ChainOK, Payable
<1>2. ServerTypeOK
  BY DEF MakerInit, ServerTypeOK, RunLockInit, RunLockTypeOK, NoRfqRecord, RfqRecord
<1>3. EnclaveOK
  <2>1. NotSubmitted \in EnclaveRfq /\ NotSubmitted.outcome = "absent"
    BY DEF NotSubmitted, EnclaveRfq, Instructed
  <2> HIDE DEF NotSubmitted
  <2> QED
    BY <2>1 DEF MakerInit, EnclaveOK, Sound
<1>4. RequestsFit /\ RecordsTrue
  BY IdleFits DEF MakerInit, RequestsFit, RecordsTrue, Truthful
<1> QED
  BY <1>1, <1>2, <1>3, <1>4 DEF DeskInv

LEMMA DeskInvAlways == MakerSpec => []DeskInv
BY DeskInvInit, DeskInvStep, PTL DEF MakerSpec

\* The server, the enclave and the contracts under them stay in their types: no request works
\* on an RFQ, a match or a payment that is not there.
THEOREM MakerTypeCorrect == MakerSpec => []MakerTypeOK
BY DeskInvAlways, DeskInvImplies, PTL

\* What a maker is told to pay - where, how much, under which tag, until when - is what the
\* escrow holds of the match, whatever the price at the lock was and whoever locked in between.
THEOREM RecordsAreOnChain == MakerSpec => []RecordIsOnChain
BY DeskInvAlways, DeskInvImplies, PTL

\* A payment the server reports as made or found was sent to the right address, under the right
\* tag, with the amount the escrow asks for: delivered in full and in time, it frees the FXRP.
THEOREM DetectedPaymentsCover == MakerSpec => []DetectedPaymentCovers
BY DeskInvAlways, DeskInvImplies, PTL

-----------------------------------------------------------------------------
(***************************************************************************)
(* The promise of Settlement.                                              *)
(***************************************************************************)
LEMMA MakerStepIsAny ==
  ASSUME DeskInv, [MakerNext]_makerVars
  PROVE  AnyNext \/ UNCHANGED vars
<1>1. CASE \E mi \in MatchInstruction, sig \in Signers : lock(mi, sig, FTSO_FEE)
  BY <1>1, EscrowAssumption DEF AnyLock, AnyNext
<1>2. CASE LedgerPay
  BY <1>2 DEF LedgerPay, AnyWorld, AnyNext, DeskInv, ChainOK, Inv, TypeOK
<1> QED
  BY <1>1, <1>2, OnChain DEF AnyNext

LEMMA MakerPromise ==
  /\ MakerInit => PromiseInv /\ DeskInv /\ Promise!SInit
  /\ PromiseInv /\ DeskInv /\ [MakerNext]_makerVars
       => /\ PromiseInv' /\ DeskInv'
          /\ [Promise!SNext]_(Promise!settlementVars)
          /\ [NoHastyRefund]_vars
<1>1. MakerInit => PromiseInv /\ DeskInv /\ Promise!SInit
  BY DeskInvInit, PromiseInit DEF MakerInit
<1>2. PromiseInv /\ DeskInv /\ [MakerNext]_makerVars
        => /\ PromiseInv' /\ DeskInv'
           /\ [Promise!SNext]_(Promise!settlementVars)
           /\ [NoHastyRefund]_vars
  BY DeskInvStep, MakerStepIsAny, PromiseStep
<1> QED
  BY <1>1, <1>2

\* Whatever the maker routes do between their awaits, repeat, lose or start anew: a party's
\* claim changes only when a deal opens, is delivered against an XRPL payment of its own, or
\* is returned late.
THEOREM MakerDeskImplementsSettlement == MakerSpec => ImplementsSettlement
BY MakerPromise, PTL DEF MakerSpec, ImplementsSettlement, Promise!SSpec

\* No maker whose payment, by hand or by the server, was made in time is slashed before
\* ATTESTATION_BUDGET and REFUND_GRACE are over.
THEOREM MakerDeskHasTime == MakerSpec => HonestMakerHasTime
BY MakerPromise, PTL DEF MakerSpec, HonestMakerHasTime, NoHastyRefund
=============================================================================
