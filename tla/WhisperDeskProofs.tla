-------------------------- MODULE WhisperDeskProofs ---------------------------
(***************************************************************************)
(* Theorems about WhisperDesk: what the contracts hold of a trade is what  *)
(* its taker sealed and its maker quoted, and with the enclave in front of *)
(* them the contracts still keep the promise of Settlement.  The argument  *)
(* composes those about the enclave (EnclaveProofs) and about the          *)
(* contracts (DvPEscrowProofs, SettlementProofs); of the step between      *)
(* them, that a signature is one the sign port has made.                   *)
(***************************************************************************)
EXTENDS WhisperDesk, SettlementProofs

\* The enclave of the desk again, with what is proved about it.
Proved == INSTANCE EnclaveProofs WITH
  RfqIds <- MatchIds, Escrow <- EscrowAddr, NoParty <- Nobody,
  BandBips <- BAND_BIPS, BondBips <- BOND_BIPS, MinBlockFxrpRaw <- MIN_BLOCK_FXRP,
  ChainStates <- ChainView, chainMid <- oracle.mid, chainBond <- freeBond,
  chainBalances <- balances

-----------------------------------------------------------------------------
(***************************************************************************)
(* The steps of the desk are steps of its two halves.                      *)
(***************************************************************************)
\* What the contracts show the enclave is typed, as EnclaveProofs assumes.
LEMMA ViewTyped ==
  ASSUME Inv
  PROVE  [mid |-> oracle.mid, bond |-> freeBond, balances |-> balances] \in ChainView
BY DEF Inv, TypeOK, LedgerTypeOK, ChainView

\* The desk starts the enclave as the enclave starts on its own.
LEMMA DeskStarts ==
  ASSUME DeskInit
  PROVE  Inv /\ Proved!Inv
<1>1. Inv
  BY InitInv DEF DeskInit
<1>2. Proved!Init
  <2>1. \E c \in ChainView : Proved!ChainShows(c)
    <3> DEFINE c == [mid |-> oracle.mid, bond |-> freeBond, balances |-> balances]
    <3>1. c \in ChainView
      BY <1>1, ViewTyped
    <3>2. Proved!ChainShows(c)
      BY DEF Proved!ChainShows
    <3> QED
      BY <3>1, <3>2
  <2>2. now = 0 /\ teeKey \in Keys
    BY DEF DeskInit, Init
  <2>3. Proved!EnclaveInit
    BY DEF DeskInit, TEE!EnclaveInit, Proved!EnclaveInit, TEE!BookInit, Proved!BookInit,
         TEE!CacheInit, Proved!CacheInit, TEE!NoRfq, Proved!NoRfq, TEE!NoQuotes,
         Proved!NoQuotes, TEE!NoQuote, Proved!NoQuote, TEE!NO_MATCH, Proved!NO_MATCH,
         TEE!NothingTracked, Proved!NothingTracked, TEE!EmptyCache, Proved!EmptyCache,
         TEE!Idle, Proved!Idle, TEE!NoSnapshot, Proved!NoSnapshot
  <2> QED
    BY <2>1, <2>2, <2>3 DEF Proved!Init
<1> QED
  BY <1>1, <1>2, Proved!InitInv, EscrowAssumption, DeskAssumption DEF ChainView, TakerBalance

\* A step of the enclave, which moves neither the clock nor the chain.
LEMMA EnclaveMoves ==
  ASSUME EnclaveActs
  PROVE  Proved!Next
<1>1. Proved!EnclaveStep
  BY DEF EnclaveActs,
     TEE!EnclaveStep, Proved!EnclaveStep, TEE!rfqFromInstruction, Proved!rfqFromInstruction,
     TEE!rfqFromDirect, Proved!rfqFromDirect, TEE!handleRfqSubmit, Proved!handleRfqSubmit,
     TEE!AddRFQ, Proved!AddRFQ, TEE!NO_MATCH, Proved!NO_MATCH, TEE!NoQuotes, Proved!NoQuotes,
     TEE!NoQuote, Proved!NoQuote, TEE!NoRfq, Proved!NoRfq, TEE!TrackTaker, Proved!TrackTaker,
     TEE!TrackMaker, Proved!TrackMaker, TEE!handleQuoteSubmit, Proved!handleQuoteSubmit,
     TEE!UpsertQuote, Proved!UpsertQuote, TEE!bookVars, Proved!bookVars, TEE!cacheVars,
     Proved!cacheVars, TEE!nodeVars, Proved!nodeVars, TEE!MatchStep, Proved!MatchStep,
     TEE!startMatch, Proved!startMatch, TEE!Goto, Proved!Goto, TEE!Idle, Proved!Idle,
     TEE!NoSnapshot, Proved!NoSnapshot, TEE!Makers, Proved!Makers, TEE!takeSnapshot,
     Proved!takeSnapshot, TEE!Snapshot, Proved!Snapshot, TEE!answerFromCache,
     Proved!answerFromCache, TEE!Answer, Proved!Answer, TEE!refuse, Proved!refuse,
     TEE!Decidable, Proved!Decidable, TEE!PriceUsable, Proved!PriceUsable, TEE!findNoMatch,
     Proved!findNoMatch, TEE!FindsNobody, Proved!FindsNobody, TEE!EligibleQuotes,
     Proved!EligibleQuotes, TEE!Eligible, Proved!Eligible, TEE!inBand, Proved!inBand,
     TEE!requiredBond, Proved!requiredBond, TEE!RestingQuotes, Proved!RestingQuotes,
     TEE!findMatch, Proved!findMatch, TEE!Matches, Proved!Matches, TEE!IsWinner,
     Proved!IsWinner, TEE!Instruction, Proved!Instruction, TEE!MATCHED, Proved!MATCHED,
     TEE!signMatch, Proved!signMatch, TEE!NodeSigns, Proved!NodeSigns, TEE!signFails,
     Proved!signFails, TEE!signTimesOut, Proved!signTimesOut, TEE!markAndAnswer,
     Proved!markAndAnswer, TEE!markMatched, Proved!markMatched, TEE!refresh, Proved!refresh,
     TEE!refreshMid, Proved!refreshMid, TEE!refreshBond, Proved!refreshBond,
     TEE!refreshTaker, Proved!refreshTaker, TEE!clampUint64, Proved!clampUint64,
     TEE!available, Proved!available, TEE!collect, Proved!collect, TEE!GC, Proved!GC,
     TEE!restart, Proved!restart, TEE!NothingTracked, Proved!NothingTracked,
     TEE!EmptyCache, Proved!EmptyCache
<1>2. UNCHANGED <<now, oracle, freeBond, balances>>
  BY DEF EnclaveActs, vars, ledgerVars, escrowVars, worldVars
<1> QED
  BY <1>1, <1>2 DEF Proved!Next, Proved!chainVars

\* A step of the contracts is to the enclave a tick or a chain that moves.
LEMMA ContractsMove ==
  ASSUME Inv', UNCHANGED enclaveVars,
         \/ now' = now
         \/ Tick
  PROVE  Proved!Next
<1>1. UNCHANGED <<Proved!bookVars, Proved!cacheVars, Proved!nodeVars, mined, tasks, signed, answers>>
  BY DEF enclaveVars, Proved!bookVars, Proved!cacheVars, Proved!nodeVars
<1>2. CASE now' = now
  <2> DEFINE c == [mid |-> oracle'.mid, bond |-> freeBond', balances |-> balances']
  <2>1. c \in ChainView
    BY DEF Inv, TypeOK, LedgerTypeOK, ChainView
  <2>2. oracle'.mid = c.mid /\ freeBond' = c.bond /\ balances' = c.balances
    OBVIOUS
  <2>3. Proved!ChainMoves
    BY <1>1, <1>2, <2>1, <2>2 DEF Proved!ChainMoves
  <2> QED
    BY <2>3 DEF Proved!Next
<1>3. CASE Tick
  <2>1. now < MaxTime /\ now' = now + 1 /\ UNCHANGED <<oracle, freeBond, balances>>
    BY <1>3 DEF Tick, ledgerVars, escrowVars, worldVars
  <2>2. Proved!Tick
    BY <1>1, <2>1 DEF Proved!Tick, Proved!chainVars
  <2> QED
    BY <2>2 DEF Proved!Next
<1> QED
  BY <1>2, <1>3

\* What is signed is typed, and signed with a key the owner may register.
LEMMA SignedTypes ==
  ASSUME Proved!Inv, NEW s \in signed
  PROVE  /\ s.mi \in MatchInstruction /\ s.key \in Signers
         /\ TEE!WithinTerms(s.mi)
<1>1. s.mi \in Proved!MatchInstruction /\ s.key \in Keys
  BY DEF Proved!Inv, Proved!TypeOK
<1>2. s.mi \in MatchInstruction
  BY <1>1, EscrowAssumption DEF Proved!MatchInstruction, MatchInstruction
<1>3. TEE!WithinTerms(s.mi)
  BY DEF Proved!Inv, Proved!SignedWithinTerms, Proved!WithinTerms, TEE!WithinTerms
<1> QED
  BY <1>1, <1>2, <1>3, DeskAssumption

\* A step of the contracts beside the enclave is one their own theorems cover.
LEMMA ContractsAreAny ==
  ASSUME Inv, Proved!Inv, ContractsAct
  PROVE  /\ AnyNext
         /\ now' = now \/ Tick
<1>1. CASE LockSigned
  <2>1. PICK s \in signed, value \in {0, FTSO_FEE} : lock(s.mi, s.key, value)
    BY <1>1 DEF LockSigned
  <2>2. AnyLock
    BY <2>1, SignedTypes, EscrowAssumption DEF AnyLock
  <2> QED
    BY <2>1, <2>2 DEF AnyNext, lock
<1>2. CASE Operate
  <2>1. usedKeys \subseteq Signers
    BY DeskAssumption DEF Proved!Inv, Proved!TypeOK
  <2>2. OwnerStep
    BY <1>2, <2>1 DEF Operate, OwnerStep
  <2>3. now' = now
    BY <1>2 DEF Operate, Unescrowed, setTeeSigner
  <2> QED
    BY <2>2, <2>3 DEF AnyNext
<1>3. CASE TakerStep \/ MakerStep \/ ReleaseStep \/ RefundStep \/ WorldStep
  <2>1. AnyNext
    BY <1>3, NextIsAny DEF Next, Inv
  <2>2. now' = now \/ Tick
    BY <1>3 DEF TakerStep, deposit, withdraw, MakerStep, Unescrowed, ReleaseStep, release,
         RefundStep, refund, WorldStep, OracleUpdate, XrplPay, FdcAttest
  <2> QED
    BY <2>1, <2>2
<1> QED
  BY <1>1, <1>2, <1>3 DEF ContractsAct

\* Both halves keep their invariants side by side.
LEMMA HalvesStep ==
  ASSUME Inv, Proved!Inv, [DeskNext]_deskVars
  PROVE  Inv' /\ Proved!Inv'
<1>1. CASE EnclaveActs
  <2>1. Inv'
    BY <1>1, AnyInv DEF EnclaveActs
  <2>2. Proved!Inv'
    BY <1>1, EnclaveMoves, Proved!StepKeepsInv, EscrowAssumption, DeskAssumption
       DEF ChainView, TakerBalance
  <2> QED
    BY <2>1, <2>2
<1>2. CASE ContractsAct
  <2>1. Inv' /\ (now' = now \/ Tick)
    BY <1>2, ContractsAreAny, AnyInv
  <2>2. Proved!Next
    BY <1>2, <2>1, ContractsMove DEF ContractsAct
  <2> QED
    BY <2>1, <2>2, Proved!StepKeepsInv, EscrowAssumption, DeskAssumption
       DEF ChainView, TakerBalance
<1>3. CASE UNCHANGED deskVars
  <2>1. Inv'
    BY <1>3, AnyInv DEF deskVars
  <2>2. UNCHANGED Proved!vars
    BY <1>3 DEF deskVars, vars, enclaveVars, ledgerVars, escrowVars, worldVars, Proved!vars,
         Proved!chainVars, Proved!bookVars, Proved!cacheVars, Proved!nodeVars
  <2> QED
    BY <2>1, <2>2, Proved!StepKeepsInv, EscrowAssumption, DeskAssumption
       DEF ChainView, TakerBalance
<1> QED
  BY <1>1, <1>2, <1>3 DEF DeskNext

-----------------------------------------------------------------------------
(***************************************************************************)
(* From sealed message to bond.                                            *)
(***************************************************************************)
\* What TradesAgreed says of one match.
Agreed(id) ==
  \E s \in signed :
    /\ TEE!WithinTerms(s.mi)
    /\ s.mi.matchId = id
    /\ s.mi.taker = matches[id].taker /\ s.mi.maker = matches[id].maker
    /\ s.mi.amountFxrp = matches[id].amountFxrp
    /\ s.mi.takerXrplAddress = matches[id].takerXrplAddress
    /\ matches[id].bondAmount = BondFor(s.mi.amountFxrp)
    /\ matches[id].lockedAt <= s.mi.instructionExpiresAt

\* The sign port takes no signature back.
LEMMA SignaturesStay ==
  ASSUME [DeskNext]_deskVars
  PROVE  signed \subseteq signed'
<1>1. CASE EnclaveActs
  BY <1>1 DEF EnclaveActs, TEE!EnclaveStep, TEE!rfqFromInstruction, TEE!rfqFromDirect,
     TEE!handleQuoteSubmit, TEE!MatchStep, TEE!startMatch, TEE!takeSnapshot,
     TEE!answerFromCache, TEE!refuse, TEE!findNoMatch, TEE!findMatch, TEE!signMatch,
     TEE!NodeSigns, TEE!signFails, TEE!signTimesOut, TEE!markAndAnswer, TEE!refresh,
     TEE!collect, TEE!restart
<1>2. CASE ContractsAct \/ UNCHANGED deskVars
  BY <1>2 DEF ContractsAct, deskVars, enclaveVars
<1> QED
  BY <1>1, <1>2 DEF DeskNext

\* Only lock writes the terms of a match, and it writes those that were signed.
LEMMA AgreedStep ==
  ASSUME Inv, Proved!Inv, TradesAgreed, [DeskNext]_deskVars
  PROVE  TradesAgreed'
<1> SUFFICES ASSUME NEW id \in MatchIds, matches'[id].state # "None"
             PROVE  Agreed(id)'
  BY DEF TradesAgreed, Agreed
<1>0. /\ matches \in [MatchIds -> Match]
      /\ signed \subseteq signed'
  BY SignaturesStay DEF Inv, TypeOK
<1>1. CASE LockSigned
  <2>1. PICK s \in signed, value \in {0, FTSO_FEE} : lock(s.mi, s.key, value)
    BY <1>1 DEF LockSigned
  <2>2. /\ s.mi \in MatchInstruction /\ TEE!WithinTerms(s.mi)
        /\ s \in signed'
    BY <1>0, SignedTypes
  <2>3. CASE id = s.mi.matchId
    <3>1. matches'[id] = NewMatch(s.mi) /\ now <= s.mi.instructionExpiresAt
      BY <2>1, <2>2, <2>3, LockTerms DEF lock, WellFormed
    <3> QED
      BY <2>2, <2>3, <3>1 DEF Agreed, NewMatch, MatchWithTag
  <2>4. CASE id # s.mi.matchId
    <3>1. matches'[id] = matches[id]
      BY <2>1, <2>2, <2>4, LockTerms
    <3> QED
      BY <1>0, <3>1 DEF TradesAgreed, Agreed
  <2> QED
    BY <2>3, <2>4
<1>2. CASE ReleaseStep \/ RefundStep
  <2>1. PICK j \in MatchIds, state \in {"Released", "Refunded"} :
          /\ matches[j].state = "Locked"
          /\ matches' = [matches EXCEPT ![j].state = state]
    BY <1>2 DEF ReleaseStep, RefundStep, release, ProofAccepted, refund
  <2>2. /\ matches[id].state # "None"
        /\ matches'[id].taker = matches[id].taker
        /\ matches'[id].maker = matches[id].maker
        /\ matches'[id].amountFxrp = matches[id].amountFxrp
        /\ matches'[id].takerXrplAddress = matches[id].takerXrplAddress
        /\ matches'[id].bondAmount = matches[id].bondAmount
        /\ matches'[id].lockedAt = matches[id].lockedAt
    BY <1>0, <2>1 DEF Match
  <2> QED
    BY <1>0, <2>2 DEF TradesAgreed, Agreed
<1>3. CASE \/ EnclaveActs \/ TakerStep \/ MakerStep \/ Operate \/ WorldStep
           \/ UNCHANGED deskVars
  <2>1. matches' = matches
    BY <1>3 DEF EnclaveActs, vars, escrowVars, TakerStep, deposit, withdraw, MakerStep,
         Unescrowed, Operate, setTeeSigner, WorldStep, Tick, OracleUpdate, XrplPay, FdcAttest,
         deskVars
  <2> QED
    BY <1>0, <2>1 DEF TradesAgreed, Agreed
<1> QED
  BY <1>1, <1>2, <1>3 DEF DeskNext, ContractsAct

\* Every trade on chain is one its taker sealed and its maker quoted, for any number
\* of parties, RFQs, requests in flight, restarts and registered keys.
THEOREM TradesAreAgreed == DeskSpec => []TradesAgreed
<1>1. DeskInit => Inv /\ Proved!Inv /\ TradesAgreed
  <2> SUFFICES ASSUME DeskInit PROVE Inv /\ Proved!Inv /\ TradesAgreed
    OBVIOUS
  <2>1. \A id \in MatchIds : matches[id].state = "None"
    BY DEF DeskInit, Init, NoMatch
  <2> QED
    BY <2>1, DeskStarts DEF TradesAgreed
<1>2. Inv /\ Proved!Inv /\ TradesAgreed /\ [DeskNext]_deskVars
        => Inv' /\ Proved!Inv' /\ TradesAgreed'
  BY HalvesStep, AgreedStep
<1> QED
  BY <1>1, <1>2, PTL DEF DeskSpec

-----------------------------------------------------------------------------
(***************************************************************************)
(* The prefilter and lock.                                                 *)
(***************************************************************************)
\* What the enclave takes for available is an amount.
LEMMA ClampsAreTyped ==
  ASSUME NEW b \in TakerBalance
  PROVE  TEE!available(b) \in Int
<1>1. TEE!clampUint64(b.armed) \in Nat /\ TEE!clampUint64(b.committed) \in Nat
  BY DeskAssumption DEF TakerBalance, TEE!clampUint64
<1> QED
  BY <1>1 DEF TEE!available

\* What the enclave takes for available of a taker is there, and armed for now.
LEMMA AvailableIsThere ==
  ASSUME Inv, NEW p \in Parties, TEE!available(balances[p]) > 0
  PROVE  /\ balances[p].armedUntil >= now
         /\ Available(p) >= TEE!available(balances[p])
<1>1. Proved!BalancesAreUnsigned
  BY DEF Inv, TypeOK, TakerBalance, Proved!BalancesAreUnsigned
<1>2. Proved!PrefilterConservative
  BY <1>1, Proved!ConservativeStep, EscrowAssumption, DeskAssumption
     DEF ChainView, TakerBalance
<1>3. TEE!available(balances[p]) = Proved!available(balances[p])
  BY DEF TEE!available, Proved!available, TEE!clampUint64, Proved!clampUint64
<1>4. /\ now <= balances[p].armedUntil
      /\ Proved!available(balances[p]) <= balances[p].armed - balances[p].committed
  BY <1>2, <1>3 DEF Proved!PrefilterConservative
<1>5. /\ now \in Nat /\ balances[p].armedUntil \in Nat
      /\ balances[p].armed \in Nat /\ balances[p].committed \in Nat
      /\ TEE!available(balances[p]) \in Int
  <2>1. balances[p] \in TakerBalance /\ now \in Nat
    BY DEF Inv, TypeOK
  <2> QED
    BY <2>1, ClampsAreTyped DEF TakerBalance
<1> QED
  BY <1>3, <1>4, <1>5 DEF Available

\* A winner the prefilter finds on a view no better than the chain passes the checks of
\* lock.  That the least block is positive is needed of a taker without a deposit, whom
\* the enclave finds good for an RFQ of zero.
LEMMA MatchIsLockable ==
  ASSUME Inv, Proved!Inv, MIN_BLOCK_FXRP > 0, NEW k \in Tasks, TEE!findMatch(k),
         SeesNoMore(tasks[k]), now <= tasks[k].at + InstructionTTL,
         matches[tasks[k].id].state = "None"
  PROVE  Lockable(tasks'[k].outcome.mi)
<1> DEFINE t == tasks[k]
           rfq == rfqs[t.id]
<1>1. t \in Proved!Request /\ t.id \in MatchIds /\ rfq.open /\ tasks \in [Tasks -> Proved!Request]
  BY DEF Proved!Inv, Proved!TypeOK, Proved!TaskInv, Proved!SoundRequest, TEE!findMatch,
         TEE!Decidable
<1>2. PICK mi \in TEE!Matches(t.id, rfq, TEE!RestingQuotes(t.id), t.snap, t.at) :
        tasks' = [tasks EXCEPT ![k] = [t EXCEPT !.pc = "sign", !.outcome = TEE!MATCHED(mi)]]
  BY DEF TEE!findMatch, TEE!Goto
<1>3. tasks'[k].outcome.mi = mi
  BY <1>1, <1>2 DEF Proved!Request, TEE!MATCHED
<1>4. PICK w \in TEE!RestingQuotes(t.id) :
        TEE!Eligible(w, rfq, t.snap, t.at) /\ mi = TEE!Instruction(t.id, rfq, w, t.at)
  BY <1>2 DEF TEE!Matches, TEE!EligibleQuotes
<1>5. PICK m \in Parties : w = quotes[t.id][m] /\ quotes[t.id][m].resting
  BY <1>4 DEF TEE!RestingQuotes, TEE!Makers
<1>6. w.maker = m /\ w.price \in Nat
  <2>1. Proved!QuoteBacked(t.id, m)
    BY <1>1, <1>5 DEF Proved!Inv, Proved!BookInv
  <2> QED
    BY <1>5, <2>1, DeskAssumption DEF Proved!QuoteBacked
<1>7. /\ rfq.taker \in Parties /\ rfq.amount \in Nat /\ rfq.amount >= MIN_BLOCK_FXRP
      /\ rfq.xrplAddress # EmptyXrplAddress
  <2>1. Proved!RfqBacked(t.id)
    BY <1>1 DEF Proved!Inv, Proved!BookInv
  <2> QED
    BY <2>1, DeskAssumption DEF Proved!RfqBacked
<1>8. /\ mi.matchId = t.id /\ mi.escrow = EscrowAddr /\ mi.taker = rfq.taker /\ mi.maker = m
      /\ mi.amountFxrp = rfq.amount /\ mi.priceUsd18 = w.price
      /\ mi.takerXrplAddress = rfq.xrplAddress
      /\ mi.instructionExpiresAt = t.at + InstructionTTL
  BY <1>4, <1>6 DEF TEE!Instruction
<1>9. WellFormed(mi)
  BY <1>4, <1>6, <1>7, <1>8 DEF WellFormed, TEE!Eligible
<1>10. InBand(mi.priceUsd18, oracle.mid)
  BY <1>4, <1>8 DEF SeesNoMore, TEE!Eligible, TEE!inBand, InBand
<1>11. freeBond[mi.maker] >= BondFor(mi.amountFxrp)
  <2>1. /\ t.snap.freeBond[m] >= BondFor(rfq.amount)
        /\ t.snap.freeBond[m] <= freeBond[m]
    BY <1>4, <1>6 DEF SeesNoMore, TEE!Eligible, TEE!requiredBond, BondFor
  <2>2. t.snap.freeBond[m] \in Nat /\ freeBond[m] \in Nat /\ BondFor(rfq.amount) \in Nat
    BY <1>1, <1>7, BondForNat
       DEF Proved!Request, Proved!ChainSnapshot, Inv, TypeOK, LedgerTypeOK
  <2> QED
    BY <1>8, <2>1, <2>2
<1>12. balances[mi.taker].armedUntil >= now /\ Available(mi.taker) >= mi.amountFxrp
  <2>1. /\ t.snap.takerAvailable >= rfq.amount
        /\ t.snap.takerAvailable <= TEE!available(balances[rfq.taker])
    <3>1. t.snap.takerAvailable \in Nat
      BY <1>1 DEF Proved!Request, Proved!ChainSnapshot
    <3>2. ~(t.snap.takerAvailable < rfq.amount)
      BY DEF TEE!findMatch, TEE!FindsNobody
    <3> QED
      BY <1>7, <3>1, <3>2 DEF SeesNoMore
  <2>2. /\ t.snap.takerAvailable \in Nat /\ MIN_BLOCK_FXRP \in Nat
        /\ TEE!available(balances[rfq.taker]) \in Int /\ Available(rfq.taker) \in Int
    <3>1. balances[rfq.taker] \in TakerBalance
      BY <1>7 DEF Inv, TypeOK
    <3>2. TEE!available(balances[rfq.taker]) \in Int
      BY <3>1, ClampsAreTyped
    <3>3. Available(rfq.taker) \in Int
      BY <3>1 DEF TakerBalance, Available
    <3>4. t.snap.takerAvailable \in Nat
      BY <1>1 DEF Proved!Request, Proved!ChainSnapshot
    <3> QED
      BY <3>2, <3>3, <3>4, EscrowAssumption
  <2>3. TEE!available(balances[rfq.taker]) > 0
    BY <1>7, <2>1, <2>2
  <2>4. /\ balances[rfq.taker].armedUntil >= now
        /\ Available(rfq.taker) >= TEE!available(balances[rfq.taker])
    BY <1>7, <2>3, AvailableIsThere
  <2> QED
    BY <1>7, <1>8, <2>1, <2>2, <2>4
<1> QED
  BY <1>3, <1>8, <1>9, <1>10, <1>11, <1>12 DEF Lockable

\* With a positive least block, every match found in time on a view no better than the
\* chain is one lock accepts, unless its RFQ is traded already.
THEOREM PrefilterSuffices ==
  ASSUME MIN_BLOCK_FXRP > 0
  PROVE  DeskSpec => PrefilterImpliesLock
<1>1. DeskInit => Inv /\ Proved!Inv
  BY DeskStarts
<1>2. Inv /\ Proved!Inv /\ [DeskNext]_deskVars => Inv' /\ Proved!Inv'
  BY HalvesStep
<1>3. Inv /\ Proved!Inv =>
        [\A k \in Tasks :
           LET t == tasks[k]
           IN  (/\ TEE!findMatch(k) /\ SeesNoMore(t) /\ now <= t.at + InstructionTTL
                /\ matches[t.id].state = "None")
                 => Lockable(tasks'[k].outcome.mi)]_deskVars
  BY MatchIsLockable
<1> QED
  BY <1>1, <1>2, <1>3, PTL DEF DeskSpec, PrefilterImpliesLock

-----------------------------------------------------------------------------
(***************************************************************************)
(* The promise of Settlement.                                              *)
(***************************************************************************)
\* To the contracts, a step of the desk is one with some input, or none.
LEMMA DeskIsAny ==
  ASSUME Inv, Proved!Inv, [DeskNext]_deskVars
  PROVE  AnyNext \/ UNCHANGED vars
<1>1. CASE EnclaveActs \/ UNCHANGED deskVars
  BY <1>1 DEF EnclaveActs, deskVars
<1>2. CASE ContractsAct
  BY <1>2, ContractsAreAny
<1> QED
  BY <1>1, <1>2 DEF DeskNext

LEMMA DeskStep ==
  PromiseInv /\ Proved!Inv /\ [DeskNext]_deskVars
    => /\ PromiseInv' /\ Proved!Inv'
       /\ [Promise!SNext]_(Promise!settlementVars)
       /\ [NoHastyRefund]_vars
BY HalvesStep, DeskIsAny, PromiseStep DEF PromiseInv

LEMMA DeskStart == DeskInit => PromiseInv /\ Proved!Inv /\ Promise!SInit
BY DeskStarts, PromiseInit DEF DeskInit

\* Whatever the enclave signs, and whoever presents it to lock how often, in what order and
\* after how many restarts: a party's claim changes only when a deal opens, is delivered
\* against an XRPL payment of its own, or is returned late.
THEOREM DeskImplementsSettlement == DeskSpec => ImplementsSettlement
BY DeskStart, DeskStep, PTL DEF DeskSpec, ImplementsSettlement, Promise!SSpec

\* Beside the enclave too, a maker who paid in time has ATTESTATION_BUDGET and REFUND_GRACE
\* to prove it before a refund can slash the bond.
THEOREM DeskMakerHasTime == DeskSpec => HonestMakerHasTime
BY DeskStart, DeskStep, PTL DEF DeskSpec, HonestMakerHasTime, NoHastyRefund
===============================================================================
