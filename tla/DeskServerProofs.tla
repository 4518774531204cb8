-------------------------- MODULE DeskServerProofs ---------------------------
(***************************************************************************)
(* DeskServer, for any number of requests in flight, visitors and restarts *)
(* of the process, and any windows, prices and time limits.                *)
(***************************************************************************)
EXTENDS DeskServer, SettlementProofs

-----------------------------------------------------------------------------
(***************************************************************************)
(* The contracts under the server.  Every step is one of theirs with some  *)
(* input, a transfer of the owner's to one of the desk's wallets, or       *)
(* leaves them as they are.                                                *)
(***************************************************************************)
Transfer ==
  \E wallet \in {DeskTaker, DeskMaker}, amount \in Nat :
    /\ CanPay(DeskOwner, amount)
    /\ fxrp' = Moved(fxrp, DeskOwner, wallet, amount)
    /\ UNCHANGED <<ledgerVars, now, escrowVars, adminVars, worldVars>>

\* The desk's wallets are parties.
LEMMA DeskWallets ==
  /\ DeskOwner \in Parties /\ DeskTaker \in Parties /\ DeskMaker \in Parties
  /\ \A v \in Visitors : v \in Parties /\ v # DeskTaker
  /\ DeskOwner # DeskTaker /\ DeskOwner # DeskMaker
  /\ MIN_BLOCK_FXRP \in Nat /\ BondFor(MIN_BLOCK_FXRP) \in Nat
BY DeskServerAssumption, EscrowAssumption, BondForNat

\* Tokens moved between parties are none of the contracts' business.
LEMMA TransferInv == Inv /\ Transfer => Inv'
<1> SUFFICES ASSUME Inv, NEW wallet \in {DeskTaker, DeskMaker}, NEW amount \in Nat,
                    CanPay(DeskOwner, amount),
                    fxrp' = Moved(fxrp, DeskOwner, wallet, amount),
                    UNCHANGED <<ledgerVars, now, escrowVars, adminVars, worldVars>>
             PROVE  Inv'
  BY DEF Transfer
<1>0. DeskOwner \in Parties /\ wallet \in Parties /\ DeskOwner # wallet
  BY DeskWallets
<1>1. /\ fxrp' \in [Accounts -> Nat]
      /\ fxrp'[EscrowAddr] = fxrp[EscrowAddr] /\ fxrp'[LedgerAddr] = fxrp[LedgerAddr]
  BY <1>0, MovedType, AccountTypes DEF CanPay, Inv, TypeOK, LedgerTypeOK
<1>2. /\ UNCHANGED <<freeBond, lockedBonds, escrow, balances, matches>>
      /\ UNCHANGED <<nextDestinationTag, usedTxId, payments>>
  BY DEF ledgerVars, escrowVars, worldVars
<1>3. TypeOK'
  BY <1>1, <1>2 DEF Inv, TypeOK, LedgerTypeOK, adminVars, worldVars
<1>4. CommittedIsOpen' /\ EscrowSolvent' /\ LedgerSolvent' /\ BondBacksMatch'
  BY <1>1, <1>2
     DEF Inv, CommittedIsOpen, EscrowSolvent, LedgerSolvent, BondBacksMatch,
         OpenOf, OpenMatches, AmountOf, Armed, LockedAmount, ActiveBonds
<1> QED
  BY <1>2, <1>3, <1>4, MatchesUnchanged DEF Inv

-----------------------------------------------------------------------------
(***************************************************************************)
(* Types of the server.                                                    *)
(***************************************************************************)
ServerTypeOK ==
  /\ RunLockTypeOK
  /\ prepareStore \in [MatchIds -> PrepareRecord \cup {NoRecord}]
  /\ requests \in [Requests -> Request \cup {Idle}]
  /\ answers \subseteq Answer

\* From the signature on, a run has its match id.
IdsKnown ==
  \A r \in Requests :
    requests[r].pc \in {"lock", "answer", "refund"} => requests[r].matchId \in MatchIds

DeskTypes == Inv /\ ServerTypeOK /\ IdsKnown

\* A request is one in progress or idle, and which of the two its pc tells.
LEMMA RequestTypes ==
  ASSUME ServerTypeOK, NEW r \in Requests
  PROVE  /\ requests[r] \in Request \cup {Idle}
         /\ requests[r].pc \in Steps => requests[r] \in Request
         /\ requests[r] \in Request => requests[r].pc \in Steps
         /\ Idle.pc = "idle" /\ "idle" \notin Steps
<1>1. Idle.pc = "idle" /\ "idle" \notin Steps
  BY DEF Idle, Steps, RunSteps
<1> QED
  BY <1>1 DEF ServerTypeOK, Request

\* Whatever is put in its place, as long as it is a request.
LEMMA RequestsKept ==
  ASSUME ServerTypeOK, NEW r \in Requests, NEW q \in Request \cup {Idle},
         requests' = [requests EXCEPT ![r] = q]
  PROVE  /\ requests' \in [Requests -> Request \cup {Idle}]
         /\ requests'[r] = q
         /\ \A s \in Requests \ {r} : requests'[s] = requests[s]
BY DEF ServerTypeOK

\* What the server signs is an instruction the contract understands.
LEMMA SignedTypes ==
  ASSUME NEW visitor \in Visitors \cup {DeskTaker}, NEW id \in MatchIds,
         NEW price \in Nat, NEW expires \in Nat
  PROVE  /\ Signed(visitor, id, price, expires) \in MatchInstruction
         /\ Signed(visitor, id, price, expires).matchId = id
         /\ Signed(visitor, id, price, expires).amountFxrp = MIN_BLOCK_FXRP
         /\ Signed(visitor, id, price, expires).priceUsd18 = price
         /\ Signed(visitor, id, price, expires).takerXrplAddress
              = IF visitor = DeskTaker THEN DeskXrplAddress ELSE VisitorXrpl[visitor]
<1>1. XrplDestination([visitor |-> visitor])
        = IF visitor = DeskTaker THEN DeskXrplAddress ELSE VisitorXrpl[visitor]
  BY DEF XrplDestination, OneClick
<1>2. XrplDestination([visitor |-> visitor]) \in XrplAddresses
  BY <1>1, DeskServerAssumption
<1> QED
  BY <1>1, <1>2, DeskWallets, EscrowAssumption DEF Signed, MatchInstruction

-----------------------------------------------------------------------------
(***************************************************************************)
(* What the desk does on chain.                                            *)
(***************************************************************************)
\* A top-up moves what the owner was found to have.
LEMMA TopUpTransfers ==
  ASSUME DeskTypes, NEW r \in Requests, topUp(r)
  PROVE  Transfer
<1>1. requests[r] \in Request
  BY RequestTypes DEF DeskTypes, topUp, Steps, RunSteps
<1>2. requests[r].short \in Nat
  BY <1>1 DEF Request
<1>3. Wallet(requests[r]) \in {DeskTaker, DeskMaker}
  BY DEF Wallet
<1> QED
  BY <1>2, <1>3 DEF topUp, Transfer

\* A deposit of the desk's is a taker's or a maker's.
LEMMA DepositIsAny ==
  ASSUME DeskTypes, NEW r \in Requests, depositMissing(r)
  PROVE  AnyTaker \/ AnyMaker
<1>1. requests[r] \in Request
  BY RequestTypes DEF DeskTypes, depositMissing, Steps, RunSteps
<1>2. requests[r].amount \in Nat /\ requests[r].armedUntil \in Nat
  BY <1>1 DEF Request
<1> QED
  BY <1>2, DeskWallets DEF depositMissing, AnyTaker, AnyMaker

\* A lock of the desk's, or of a visitor's answer, is of a well-typed instruction.
LEMMA LockIsAny ==
  ASSUME NEW mi \in MatchInstruction, lock(mi, OwnerKey, FTSO_FEE)
  PROVE  AnyLock
BY DeskServerAssumption, EscrowAssumption DEF AnyLock

\* What a one-click run presents to lock.
LEMMA OneClickInstruction ==
  ASSUME DeskTypes, NEW r \in Requests, requests[r].pc = "lock"
  PROVE  LET mi == Signed(DeskTaker, requests[r].matchId, requests[r].mid, requests[r].expires)
         IN  /\ mi \in MatchInstruction /\ mi.matchId = requests[r].matchId
             /\ mi.amountFxrp = MIN_BLOCK_FXRP /\ mi.takerXrplAddress = DeskXrplAddress
<1>1. requests[r] \in Request /\ requests[r].matchId \in MatchIds
  BY RequestTypes DEF DeskTypes, IdsKnown, Steps, RunSteps
<1>2. requests[r].mid \in Nat /\ requests[r].expires \in Nat
  BY <1>1 DEF Request
<1>3. \A id \in MatchIds, price \in Nat, expires \in Nat :
        LET mi == Signed(DeskTaker, id, price, expires)
        IN  /\ mi \in MatchInstruction /\ mi.matchId = id
            /\ mi.amountFxrp = MIN_BLOCK_FXRP /\ mi.takerXrplAddress = DeskXrplAddress
  BY SignedTypes
<1> QED
  BY <1>1, <1>2, <1>3

\* What a visitor presents to lock.
LEMMA VisitorInstruction ==
  ASSUME DeskTypes, NEW a \in answers, a.visitor \in Visitors
  PROVE  LET mi == Signed(a.visitor, a.matchId, a.price, a.expires)
         IN  /\ mi \in MatchInstruction /\ mi.matchId = a.matchId
             /\ mi.amountFxrp = MIN_BLOCK_FXRP
             /\ mi.takerXrplAddress = VisitorXrpl[a.visitor]
<1>1. a.matchId \in MatchIds /\ a.price \in Nat /\ a.expires \in Nat
  BY DEF DeskTypes, ServerTypeOK, Answer
<1>2. a.visitor # DeskTaker
  BY DeskWallets
<1> QED
  BY <1>1, <1>2, SignedTypes

\* A payment of the server's is one the XRP Ledger knows.
LEMMA PayIsAny ==
  ASSUME DeskTypes, NEW r \in Requests, NEW tx \in TxIds, payXrpl(r, tx)
  PROVE  AnyWorld
<1> DEFINE q == requests[r]
           form == [source |-> EXPECTED_SOURCE_ID, status |-> 0,
                    receivingAddress |-> q.destination, hasDestinationTag |-> TRUE,
                    destinationTag |-> q.tag, receivedAmount |-> q.amount,
                    intendedReceivedAmount |-> q.amount]
<1>1. q \in Request
  BY RequestTypes DEF DeskTypes, payXrpl, Steps, RunSteps
<1>2. q.destination \in XrplAddresses \cup {EmptyXrplAddress} /\ q.tag \in Nat /\ q.amount \in Nat
  BY <1>1 DEF Request
<1>3. form \in PaymentForm
  BY <1>2, EscrowAssumption DEF PaymentForm
<1>4. XrplPay(tx, form, now) /\ now \in Nat
  BY DEF payXrpl, DeskTypes, Inv, TypeOK
<1> QED
  BY <1>3, <1>4 DEF AnyWorld

\* The steps that transact, and all others.
LEMMA OnChain ==
  ASSUME DeskTypes, DeskNext
  PROVE  AnyNext \/ Transfer \/ UNCHANGED vars
<1>1. CASE \E r \in Requests : topUp(r)
  BY <1>1, TopUpTransfers
<1>2. CASE \E r \in Requests : depositMissing(r)
  BY <1>2, DepositIsAny DEF AnyNext
<1>3. CASE \E r \in Requests : sendLock(r)
  BY <1>3, OneClickInstruction, LockIsAny DEF sendLock, AnyNext
<1>4. CASE \E r \in Requests, tx \in TxIds : payXrpl(r, tx)
  BY <1>4, PayIsAny DEF AnyNext
<1>5. CASE \E r \in Requests, id \in MatchIds, tx \in TxIds : sendRelease(r, id, tx)
  BY <1>5, EscrowAssumption DEF sendRelease, ReleaseStep, AnyNext
<1>6. CASE \E r \in Requests : sendRefund(r)
  BY <1>6 DEF sendRefund, RefundStep, DeskTypes, IdsKnown, AnyNext
<1>7. CASE VisitorDeposits
  <2>1. PICK a \in answers : a.visitor \in Visitors /\ deposit(a.visitor, MIN_BLOCK_FXRP, a.expires)
    BY <1>7 DEF VisitorDeposits
  <2>2. a.visitor \in Parties /\ a.expires \in Nat
    BY <2>1, DeskWallets DEF DeskTypes, ServerTypeOK, Answer
  <2> QED
    BY <2>1, <2>2, DeskWallets DEF AnyTaker, AnyNext
<1>8. CASE VisitorLocks
  BY <1>8, VisitorInstruction, LockIsAny DEF VisitorLocks, AnyNext
<1>9. CASE OutsideStep /\ ~VisitorDeposits /\ ~VisitorLocks
  BY <1>9, EscrowAssumption DEF OutsideStep, attest, OwnerStep, AnyWorld, AnyNext
<1>10. CASE \E r \in Requests :
              \/ \E v \in Visitors \cup {DeskTaker} : startRun(r, v)
              \/ readDeposit(r) \/ ensureFxrpBalance(r)
              \/ readLiveFtsoMid(r) \/ readNextTag(r) \/ signInstruction(r)
              \/ answerRun(r) \/ failRun(r)
              \/ \E body \in PostedBodies : demoPay(r, body)
              \/ \E id \in MatchIds : walletPay(r, id) \/ readDeadline(r, id)
              \/ concludeRun(r) \/ failSettling(r)
  BY <1>10 DEF OffChain, startRun, readDeposit, ensureFxrpBalance, readLiveFtsoMid, readNextTag,
       signInstruction, answerRun, failRun, demoPay, startPay, walletPay, readDeadline,
       concludeRun, failSettling
<1>11. CASE restart
  BY <1>11 DEF restart, OffChain
<1> QED
  BY <1>1, <1>2, <1>3, <1>4, <1>5, <1>6, <1>7, <1>8, <1>9, <1>10, <1>11
     DEF DeskNext, ServerStep, OutsideStep

-----------------------------------------------------------------------------
(***************************************************************************)
(* The server's own steps keep its types.                                  *)
(***************************************************************************)
\* One request goes on, and the others stay: they keep their types and their ids.
LEMMA RequestMoves ==
  ASSUME DeskTypes, NEW r \in Requests, NEW q \in Request \cup {Idle},
         requests' = [requests EXCEPT ![r] = q],
         q.pc \in {"lock", "answer", "refund"} => q.matchId \in MatchIds
  PROVE  requests' \in [Requests -> Request \cup {Idle}] /\ IdsKnown'
BY RequestsKept DEF DeskTypes, IdsKnown

\* A request that ends is idle again.
LEMMA DoneTypes ==
  ASSUME DeskTypes, NEW r \in Requests, Done(r)
  PROVE  requests' \in [Requests -> Request \cup {Idle}] /\ IdsKnown'
<1>1. requests' = [requests EXCEPT ![r] = Idle]
  BY DEF Done
<1>2. Idle \in Request \cup {Idle} /\ Idle.pc \notin {"lock", "answer", "refund"}
  BY DEF Idle
<1> QED
  BY <1>1, <1>2, RequestMoves

\* A request that goes on as it is has the same fields but for the pc.
LEMMA GoTypes ==
  ASSUME DeskTypes, NEW r \in Requests, requests[r] \in Request, NEW pc \in Steps, Go(r, pc),
         pc \in {"lock", "answer", "refund"} => requests[r].matchId \in MatchIds
  PROVE  requests' \in [Requests -> Request \cup {Idle}] /\ IdsKnown'
<1> DEFINE q == [requests[r] EXCEPT !.pc = pc]
<1>1. requests' = [requests EXCEPT ![r] = q]
  BY DEF Go, DeskTypes, ServerTypeOK
<1>2. q \in Request /\ q.pc = pc /\ q.matchId = requests[r].matchId
  BY DEF Request
<1> HIDE DEF q
<1> QED
  BY <1>1, <1>2, RequestMoves

\* What a new request starts with.
LEMMA NewRequests ==
  /\ \A v \in Visitors \cup {DeskTaker}, s \in {"taker", "bond"} :
       [Idle EXCEPT !.pc = "read", !.visitor = v, !.stage = s] \in Request
  /\ \A d \in XrplAddresses, t, n \in Nat :
       [Idle EXCEPT !.pc = "pay", !.destination = d, !.tag = t, !.amount = n] \in Request
  /\ \A id \in MatchIds, pc \in {"refund", "conclude"} :
       [Idle EXCEPT !.pc = pc, !.matchId = id] \in Request
BY DEF Idle, Request, Steps, RunSteps

\* A run that starts.
LEMMA StartTypes ==
  ASSUME DeskTypes, NEW r \in Requests, NEW v \in Visitors \cup {DeskTaker}, startRun(r, v)
  PROVE  ServerTypeOK' /\ IdsKnown'
<1> DEFINE q == [Idle EXCEPT !.pc = "read", !.visitor = v,
                             !.stage = IF v = DeskTaker THEN "taker" ELSE "bond"]
<1>1. q \in Request /\ q.pc = "read"
  BY NewRequests DEF Idle
<1>2. requests' = [requests EXCEPT ![r] = q]
  BY DEF startRun
<1> HIDE DEF q
<1>3. requests' \in [Requests -> Request \cup {Idle}] /\ IdsKnown'
  BY <1>1, <1>2, RequestMoves
<1>4. RunLockTypeOK'
  BY DEF startRun, tryAcquireRunLock, RunLockTypeOK, RunLock, DeskTypes, Inv, TypeOK
<1> QED
  BY <1>3, <1>4 DEF startRun, DeskTypes, ServerTypeOK

\* A payment that is asked for, of an answer or of a record.
LEMMA PayTypes ==
  ASSUME DeskTypes, NEW r \in Requests,
         NEW d \in XrplAddresses, NEW t \in Nat, NEW n \in Nat, startPay(r, d, t, n),
         prepareStore' = prepareStore
  PROVE  ServerTypeOK' /\ IdsKnown'
<1> DEFINE q == [Idle EXCEPT !.pc = "pay", !.destination = d, !.tag = t, !.amount = n]
<1>1. q \in Request /\ q.pc = "pay"
  BY NewRequests DEF Idle
<1>2. requests' = [requests EXCEPT ![r] = q]
  BY DEF startPay
<1> HIDE DEF q
<1>3. requests' \in [Requests -> Request \cup {Idle}] /\ IdsKnown'
  BY <1>1, <1>2, RequestMoves
<1> QED
  BY <1>3 DEF startPay, DeskTypes, ServerTypeOK, RunLockTypeOK

\* Either way to pay keeps the types; an expired record is forgotten.
LEMMA AskPayTypes ==
  ASSUME DeskTypes, NEW r \in Requests,
         (\E body \in PostedBodies : demoPay(r, body)) \/ (\E id \in MatchIds : walletPay(r, id))
  PROVE  ServerTypeOK' /\ IdsKnown'
<1>1. CASE \E body \in PostedBodies : demoPay(r, body)
  <2>1. PICK body \in PostedBodies : demoPay(r, body)
    BY <1>1
  <2>2. body.tag \in Nat /\ body.drops \in Nat /\ DeskXrplAddress \in XrplAddresses
    BY DeskServerAssumption DEF PostedBodies, DeskTypes, ServerTypeOK, Answer
  <2> QED
    BY <2>1, <2>2, PayTypes DEF demoPay
<1>2. CASE \E id \in MatchIds : walletPay(r, id)
  <2>1. PICK id \in MatchIds : walletPay(r, id)
    BY <1>2
  <2>2. prepareStore[id] \in PrepareRecord
    BY <2>1 DEF walletPay, DeskTypes, ServerTypeOK
  <2>3. CASE /\ startPay(r, prepareStore[id].destination, prepareStore[id].destinationTag,
                         prepareStore[id].xrpDrops)
             /\ prepareStore' = prepareStore
    BY <2>2, <2>3, PayTypes DEF PrepareRecord
  <2>4. CASE /\ prepareStore' = [prepareStore EXCEPT ![id] = NoRecord]
             /\ UNCHANGED <<currentRun, requests, answers>>
    BY <2>4 DEF DeskTypes, ServerTypeOK, IdsKnown, RunLockTypeOK
  <2> QED
    BY <2>1, <2>3, <2>4 DEF walletPay
<1> QED
  BY <1>1, <1>2

\* A release or refund that is sent, and the deadline read before a refund.
LEMMA SettleTypes ==
  ASSUME DeskTypes, NEW r \in Requests,
         \/ \E id \in MatchIds : readDeadline(r, id)
         \/ \E id \in MatchIds, tx \in TxIds : sendRelease(r, id, tx)
         \/ sendRefund(r)
  PROVE  ServerTypeOK' /\ IdsKnown'
<1>1. PICK id \in MatchIds, pc \in {"refund", "conclude"} :
        requests' = [requests EXCEPT ![r] = [Idle EXCEPT !.pc = pc, !.matchId = id]]
  BY DEF readDeadline, sendRelease, sendRefund, conclude, DeskTypes, IdsKnown
<1>2. [Idle EXCEPT !.pc = pc, !.matchId = id] \in Request
  BY NewRequests
<1>3. [Idle EXCEPT !.pc = pc, !.matchId = id].matchId = id
  BY DEF Idle
<1>4. requests' \in [Requests -> Request \cup {Idle}] /\ IdsKnown'
  BY <1>1, <1>2, <1>3, RequestMoves
<1> QED
  BY <1>4 DEF readDeadline, sendRelease, sendRefund, DeskTypes, ServerTypeOK, RunLockTypeOK

\* A request in a run has typed locals.
LEMMA RunTypes ==
  ASSUME DeskTypes, NEW r \in Requests, requests[r].pc \in RunSteps
  PROVE  /\ requests[r] \in Request
         /\ requests[r].visitor \in Visitors \cup {DeskTaker}
         /\ requests[r].amount \in Nat /\ requests[r].short \in Nat
         /\ requests[r].mid \in Nat /\ requests[r].tag \in Nat /\ requests[r].expires \in Nat
<1>1. requests[r] \in Request
  BY RequestTypes DEF DeskTypes, Steps
<1> QED
  BY <1>1 DEF Request

\* What is still needed is known to the unit.
LEMMA DepositTypes ==
  ASSUME DeskTypes, NEW r \in Requests, requests[r].pc \in RunSteps
  PROVE  Held(requests[r]) \in Int /\ Needed(requests[r]) \in Nat
<1>1. /\ balances[DeskTaker].armed \in Nat /\ balances[DeskTaker].committed \in Nat
      /\ freeBond[DeskMaker] \in Nat
  BY DeskWallets DEF DeskTypes, Inv, TypeOK, TakerBalance, LedgerTypeOK
<1> QED
  BY <1>1, DeskWallets DEF Held, Needed, Available

\* The deposits of a run.
LEMMA FundTypes ==
  ASSUME DeskTypes, NEW r \in Requests,
         readDeposit(r) \/ ensureFxrpBalance(r) \/ topUp(r) \/ depositMissing(r)
  PROVE  ServerTypeOK' /\ IdsKnown'
<1> DEFINE q == requests[r]
<1>1. q.pc \in RunSteps
  BY DEF readDeposit, ensureFxrpBalance, topUp, depositMissing, RunSteps
<1>2. q \in Request /\ now + ARMED_FOR \in Nat
  BY <1>1, RunTypes, DeskServerAssumption DEF DeskTypes, Inv, TypeOK
<1>3. UNCHANGED <<currentRun, prepareStore, answers>>
  BY DEF readDeposit, ensureFxrpBalance, topUp, depositMissing
<1>4. NextStage(q) \in Request /\ NextStage(q).pc \in {"read", "price"}
  BY <1>2 DEF NextStage, Request, Steps, RunSteps
<1>5. CASE readDeposit(r)
  <2>1. \A n \in Nat, u \in Nat :
          [q EXCEPT !.pc = "ensure", !.amount = n, !.armedUntil = u] \in Request
    BY <1>2 DEF Request, Steps, RunSteps
  <2>2. \A u \in Nat : [q EXCEPT !.pc = "deposit", !.armedUntil = u] \in Request
    BY <1>2 DEF Request, Steps, RunSteps
  <2>3. PICK n \in Nat : n = IF Held(q) >= Needed(q) THEN 0 ELSE Needed(q) - Held(q)
    BY <1>1, DepositTypes
  <2>4. PICK p \in Request : p.pc \in RunSteps \ {"lock", "answer"}
                              /\ requests' = [requests EXCEPT ![r] = p]
    <3> DEFINE u == now + ARMED_FOR
               ensure == [q EXCEPT !.pc = "ensure", !.amount = n, !.armedUntil = u]
               extended == [q EXCEPT !.pc = "deposit", !.armedUntil = u]
    <3>1. /\ ensure \in Request /\ ensure.pc = "ensure"
          /\ extended \in Request /\ extended.pc = "deposit"
      BY <1>2, <2>1, <2>2 DEF Request
    <3>2. \/ requests' = [requests EXCEPT ![r] = ensure]
          \/ requests' = [requests EXCEPT ![r] = extended]
          \/ requests' = [requests EXCEPT ![r] = NextStage(q)]
      BY <1>5, <2>3 DEF readDeposit
    <3> HIDE DEF ensure, extended
    <3> QED
      BY <1>4, <3>1, <3>2 DEF RunSteps
  <2>5. requests' \in [Requests -> Request \cup {Idle}] /\ IdsKnown'
    BY <2>4, RequestMoves DEF RunSteps
  <2> QED
    BY <1>3, <2>5 DEF DeskTypes, ServerTypeOK, RunLockTypeOK
<1>6. CASE ensureFxrpBalance(r)
  <2>1. fxrp[Wallet(q)] \in Nat
    BY DeskWallets, AccountTypes DEF Wallet, DeskTypes, Inv, TypeOK, LedgerTypeOK
  <2>2. CASE Go(r, "deposit")
    <3>1. requests' \in [Requests -> Request \cup {Idle}] /\ IdsKnown'
      BY <1>2, <2>2, GoTypes DEF Steps, RunSteps
    <3> QED
      BY <1>3, <3>1 DEF DeskTypes, ServerTypeOK, RunLockTypeOK
  <2>3. CASE ~Go(r, "deposit")
    <3> DEFINE n == q.amount - fxrp[Wallet(q)]
    <3>0. n \in Int /\ n > 0
      BY <1>2, <1>6, <2>1, <2>3 DEF ensureFxrpBalance, Request
    <3>1. requests' = [requests EXCEPT ![r] = [q EXCEPT !.pc = "topUp", !.short = n]]
      BY <1>6, <2>3 DEF ensureFxrpBalance
    <3>4. n \in Nat
      BY <3>0
    <3> HIDE DEF n
    <3>2. /\ [q EXCEPT !.pc = "topUp", !.short = n] \in Request
          /\ [q EXCEPT !.pc = "topUp", !.short = n].pc = "topUp"
      BY <1>2, <3>4 DEF Request, Steps, RunSteps
    <3>3. requests' \in [Requests -> Request \cup {Idle}] /\ IdsKnown'
      BY <3>1, <3>2, RequestMoves
    <3> QED
      BY <1>3, <3>3 DEF DeskTypes, ServerTypeOK, RunLockTypeOK
  <2> QED
    BY <2>2, <2>3
<1>7. CASE topUp(r)
  <2>1. requests' \in [Requests -> Request \cup {Idle}] /\ IdsKnown'
    BY <1>2, <1>7, GoTypes DEF topUp, Steps, RunSteps
  <2> QED
    BY <1>3, <2>1 DEF DeskTypes, ServerTypeOK, RunLockTypeOK
<1>8. CASE depositMissing(r)
  <2>1. requests' \in [Requests -> Request \cup {Idle}] /\ IdsKnown'
    BY <1>4, <1>8, RequestMoves DEF depositMissing
  <2> QED
    BY <1>3, <2>1 DEF DeskTypes, ServerTypeOK, RunLockTypeOK
<1> QED
  BY <1>5, <1>6, <1>7, <1>8

\* The price and the tag a run reads.
LEMMA ReadTypes ==
  ASSUME DeskTypes, NEW r \in Requests, readLiveFtsoMid(r) \/ readNextTag(r)
  PROVE  ServerTypeOK' /\ IdsKnown'
<1> DEFINE q == requests[r]
<1>1. q \in Request /\ oracle.mid \in Nat /\ nextDestinationTag \in Nat
  BY RunTypes DEF readLiveFtsoMid, readNextTag, RunSteps, DeskTypes, Inv, TypeOK
<1>2. /\ \A pc \in {"sign", "tag"} : [q EXCEPT !.pc = pc, !.mid = oracle.mid] \in Request
      /\ \A pc \in {"sign", "tag"} : [q EXCEPT !.pc = pc, !.mid = oracle.mid].pc = pc
      /\ [q EXCEPT !.pc = "sign", !.tag = nextDestinationTag] \in Request
      /\ [q EXCEPT !.pc = "sign", !.tag = nextDestinationTag].pc = "sign"
  BY <1>1 DEF Request, Steps, RunSteps
<1>3. PICK p \in Request : p.pc \in {"sign", "tag"} /\ requests' = [requests EXCEPT ![r] = p]
  BY <1>2 DEF readLiveFtsoMid, readNextTag
<1>4. requests' \in [Requests -> Request \cup {Idle}] /\ IdsKnown'
  BY <1>3, RequestMoves
<1> QED
  BY <1>4 DEF readLiveFtsoMid, readNextTag, DeskTypes, ServerTypeOK, RunLockTypeOK

\* The record of a prepared match is a record.
LEMMA RecordTypes ==
  ASSUME DeskTypes, NEW r \in Requests, requests[r].pc \in RunSteps
  PROVE  [destination |-> XrplDestination(requests[r]), xrpDrops |-> BufferedDrops,
          destinationTag |-> requests[r].tag, createdAt |-> now] \in PrepareRecord
<1>1. BufferedDrops \in Nat
  BY DeskServerAssumption, DeskWallets, ProductNat, QuotientNat DEF BufferedDrops
<1>2. XrplDestination(requests[r]) \in XrplAddresses
  BY RunTypes, DeskServerAssumption DEF XrplDestination, OneClick
<1> QED
  BY <1>1, <1>2, RunTypes DEF PrepareRecord, DeskTypes, Inv, TypeOK

\* The signature gives the run an id nobody has used, and a wallet run its record.
LEMMA SignEffect ==
  ASSUME DeskTypes, NEW r \in Requests, signInstruction(r)
  PROVE  \E id \in MatchIds \ UsedIds, q \in Request :
           /\ requests' = [requests EXCEPT ![r] = q]
           /\ q.matchId = id /\ q.visitor = requests[r].visitor
           /\ q.pc = IF OneClick(q) THEN "lock" ELSE "answer"
           /\ \/ OneClick(q) /\ prepareStore' = prepareStore
              \/ /\ ~OneClick(q)
                 /\ \E rec \in PrepareRecord :
                      /\ prepareStore' = [prepareStore EXCEPT ![id] = rec]
                      /\ rec.xrpDrops = BufferedDrops
                      /\ rec.destination = XrplDestination(q)
<1> DEFINE old == requests[r]
           expires == now + IF OneClick(old) THEN ONE_CLICK_DEADLINE ELSE WALLET_MODE_DEADLINE
           pc == IF OneClick(old) THEN "lock" ELSE "answer"
           new(id) == [old EXCEPT !.matchId = id, !.pc = pc, !.expires = expires]
           rec == [destination |-> XrplDestination(old), xrpDrops |-> BufferedDrops,
                   destinationTag |-> old.tag, createdAt |-> now]
<1>1. old.pc \in RunSteps /\ old \in Request
  BY RunTypes DEF signInstruction, RunSteps
<1>2. expires \in Nat
  BY DeskServerAssumption DEF DeskTypes, Inv, TypeOK
<1>3. PICK id \in MatchIds \ UsedIds :
        /\ requests' = [requests EXCEPT ![r] = new(id)]
        /\ prepareStore' = IF OneClick(old) THEN prepareStore
                           ELSE [prepareStore EXCEPT ![id] = rec]
  BY DEF signInstruction
<1>4. rec \in PrepareRecord
  BY <1>1, RecordTypes
<1>5. pc \in Steps
  BY DEF Steps, RunSteps
<1> HIDE DEF expires, pc
<1>6. /\ new(id) \in Request /\ new(id).matchId = id /\ new(id).visitor = old.visitor
      /\ new(id).pc = pc
  BY <1>1, <1>2, <1>5 DEF Request
<1>7. OneClick(new(id)) = OneClick(old) /\ XrplDestination(new(id)) = XrplDestination(old)
  BY <1>6 DEF OneClick, XrplDestination
<1>8. rec.xrpDrops = BufferedDrops /\ rec.destination = XrplDestination(old)
  OBVIOUS
<1> HIDE DEF new, rec
<1> QED
  BY <1>3, <1>4, <1>6, <1>7, <1>8 DEF pc

\* So the types stay.
LEMMA SignTypes ==
  ASSUME DeskTypes, NEW r \in Requests, signInstruction(r)
  PROVE  ServerTypeOK' /\ IdsKnown'
<1>1. PICK id \in MatchIds \ UsedIds, q \in Request :
        /\ requests' = [requests EXCEPT ![r] = q] /\ q.matchId = id
        /\ \/ prepareStore' = prepareStore
           \/ \E rec \in PrepareRecord : prepareStore' = [prepareStore EXCEPT ![id] = rec]
  BY SignEffect
<1>2. requests' \in [Requests -> Request \cup {Idle}] /\ IdsKnown'
  BY <1>1, RequestMoves
<1>3. prepareStore' \in [MatchIds -> PrepareRecord \cup {NoRecord}]
  BY <1>1 DEF DeskTypes, ServerTypeOK
<1> QED
  BY <1>2, <1>3 DEF signInstruction, DeskTypes, ServerTypeOK, RunLockTypeOK

\* A lock that is sent.
LEMMA SendLockTypes ==
  ASSUME DeskTypes, NEW r \in Requests, sendLock(r)
  PROVE  ServerTypeOK' /\ IdsKnown'
<1>1. requests[r] \in Request /\ requests[r].matchId \in MatchIds
  BY RunTypes DEF sendLock, RunSteps, DeskTypes, IdsKnown
<1>2. requests' \in [Requests -> Request \cup {Idle}] /\ IdsKnown'
  BY <1>1, GoTypes DEF sendLock, Steps, RunSteps
<1> QED
  BY <1>2 DEF sendLock, DeskTypes, ServerTypeOK, RunLockTypeOK

\* What is answered is an answer, and the run lock gets an id.
LEMMA AnswerTypes ==
  ASSUME DeskTypes, NEW r \in Requests, answerRun(r)
  PROVE  ServerTypeOK' /\ IdsKnown'
<1> DEFINE q == requests[r]
<1>1. q.pc = "answer" /\ q.pc \in RunSteps
  BY DEF answerRun, RunSteps
<1>2. /\ q.visitor \in Visitors \cup {DeskTaker} /\ q.matchId \in MatchIds
      /\ q.mid \in Nat /\ q.tag \in Nat /\ q.expires \in Nat
  BY <1>1, RunTypes DEF DeskTypes, IdsKnown
<1>3. matches[q.matchId].destinationTag \in Nat /\ matches[q.matchId].xrpDrops \in Nat
  BY <1>2 DEF DeskTypes, Inv, TypeOK, Match
<1>4. BufferedDrops \in Nat
  BY DeskServerAssumption, DeskWallets, ProductNat, QuotientNat DEF BufferedDrops
<1> HIDE DEF q
<1>5. AnswerOf(q) \in Answer
  BY <1>2, <1>3, <1>4 DEF AnswerOf, Answer
<1>6. answers' \subseteq Answer
  BY <1>5 DEF answerRun, q, DeskTypes, ServerTypeOK
<1>7. RunLockTypeOK'
  BY <1>2, DeskServerAssumption
     DEF answerRun, attachMatchId, q, RunLockTypeOK, RunLock, DeskTypes, ServerTypeOK
<1> QED
  BY <1>6, <1>7, DoneTypes DEF answerRun, DeskTypes, ServerTypeOK

\* Every other way a request ends.
LEMMA EndTypes ==
  ASSUME DeskTypes, NEW r \in Requests,
         \/ failRun(r) \/ concludeRun(r) \/ failSettling(r)
         \/ \E tx \in TxIds : payXrpl(r, tx)
  PROVE  ServerTypeOK' /\ IdsKnown'
<1>1. requests' \in [Requests -> Request \cup {Idle}] /\ IdsKnown'
  BY DoneTypes DEF failRun, concludeRun, failSettling, payXrpl
<1>2. currentRun' = NoRun \/ currentRun' = currentRun
  BY DEF failRun, concludeRun, failSettling, payXrpl, releaseRunLock
<1> QED
  BY <1>1, <1>2
     DEF failRun, concludeRun, failSettling, payXrpl, DeskTypes, ServerTypeOK, RunLockTypeOK

\* Nobody else writes what the server keeps, and a restart forgets it.
LEMMA OutsideTypes ==
  ASSUME DeskTypes, OutsideStep \/ restart \/ UNCHANGED deskVars
  PROVE  ServerTypeOK' /\ IdsKnown'
<1>1. CASE restart
  <2>1. /\ currentRun' = NoRun /\ prepareStore' = [id \in MatchIds |-> NoRecord]
        /\ requests' = [r \in Requests |-> Idle] /\ answers' = answers
    BY <1>1 DEF restart
  <2>2. Idle.pc = "idle"
    BY DEF Idle
  <2> HIDE DEF Idle
  <2> QED
    BY <2>1, <2>2 DEF DeskTypes, ServerTypeOK, RunLockTypeOK, IdsKnown
<1>2. CASE OutsideStep \/ UNCHANGED deskVars
  <2>1. UNCHANGED <<currentRun, prepareStore, requests, answers>>
    BY <1>2 DEF OutsideStep, VisitorDeposits, VisitorLocks, attest, serverVars, deskVars
  <2> QED
    BY <2>1 DEF DeskTypes, ServerTypeOK, RunLockTypeOK, IdsKnown
<1> QED
  BY <1>1, <1>2

-----------------------------------------------------------------------------
\* Every step keeps the contracts' invariant and the server's types.
LEMMA DeskTypesStep == DeskTypes /\ [DeskNext]_deskVars => DeskTypes'
<1> SUFFICES ASSUME DeskTypes, [DeskNext]_deskVars PROVE DeskTypes'
  OBVIOUS
<1>1. Inv'
  <2>1. CASE UNCHANGED deskVars
    BY <2>1, AnyInv DEF deskVars, DeskTypes
  <2>2. CASE DeskNext
    BY <2>2, OnChain, AnyInv, TransferInv DEF DeskTypes
  <2> QED
    BY <2>1, <2>2
<1>2. ServerTypeOK' /\ IdsKnown'
  <2>1. CASE ServerStep
    <3>1. PICK r \in Requests :
            \/ \E v \in Visitors \cup {DeskTaker} : startRun(r, v)
            \/ readDeposit(r) \/ ensureFxrpBalance(r) \/ topUp(r) \/ depositMissing(r)
            \/ readLiveFtsoMid(r) \/ readNextTag(r) \/ signInstruction(r) \/ sendLock(r)
            \/ answerRun(r) \/ failRun(r)
            \/ \E body \in PostedBodies : demoPay(r, body)
            \/ \E id \in MatchIds : walletPay(r, id) \/ readDeadline(r, id)
            \/ \E tx \in TxIds : payXrpl(r, tx)
            \/ \E id \in MatchIds, tx \in TxIds : sendRelease(r, id, tx)
            \/ sendRefund(r) \/ concludeRun(r) \/ failSettling(r)
      BY <2>1 DEF ServerStep
    <3> QED
      BY <3>1, StartTypes, FundTypes, ReadTypes, SignTypes, SendLockTypes, AnswerTypes,
         EndTypes, AskPayTypes, SettleTypes
  <2>2. CASE OutsideStep \/ restart \/ UNCHANGED deskVars
    BY <2>2, OutsideTypes
  <2> QED
    BY <2>1, <2>2 DEF DeskNext
<1> QED
  BY <1>1, <1>2 DEF DeskTypes

\* The server starts with nothing in flight.
LEMMA DeskTypesInit == DeskInit => DeskTypes
<1> SUFFICES ASSUME DeskInit PROVE DeskTypes
  OBVIOUS
<1>1. Inv
  BY InitInv DEF DeskInit
<1>2. /\ currentRun = NoRun /\ prepareStore = [id \in MatchIds |-> NoRecord]
      /\ requests = [r \in Requests |-> Idle] /\ answers = {}
  BY DEF DeskInit, ServerInit, RunLockInit
<1>3. Idle.pc = "idle"
  BY DEF Idle
<1> HIDE DEF Idle
<1> QED
  BY <1>1, <1>2, <1>3 DEF DeskTypes, ServerTypeOK, RunLockTypeOK, IdsKnown

\* They hold in every reachable state.
LEMMA DeskTypesAlways == DeskSpec => []DeskTypes
BY DeskTypesInit, DeskTypesStep, PTL DEF DeskSpec

\* Contracts and server keep their types, for any number of requests in flight at any
\* of their awaits: no counter or balance of the desk's wallets goes below zero.
THEOREM DeskTypeCorrect == DeskSpec => []DeskTypeOK
<1>1. DeskTypes => DeskTypeOK
  BY DEF DeskTypes, Inv, ServerTypeOK, DeskTypeOK
<1> QED
  BY <1>1, DeskTypesAlways, PTL

-----------------------------------------------------------------------------
(***************************************************************************)
(* The run lock.                                                           *)
(***************************************************************************)
InRun == {r \in Requests : requests[r].pc \in RunSteps}

\* Up to the signature, a run goes on inside its handler, and no other request moves.
LEMMA RunMoves ==
  ASSUME DeskTypes, NEW r \in Requests,
         \/ readDeposit(r) \/ ensureFxrpBalance(r) \/ topUp(r) \/ depositMissing(r)
         \/ readLiveFtsoMid(r) \/ readNextTag(r)
  PROVE  /\ requests[r].pc \in RunSteps
         /\ requests'[r].pc \in RunSteps \ {"lock", "answer"}
         /\ \A s \in Requests \ {r} : requests'[s] = requests[s]
<1> DEFINE q == requests[r]
           onward == RunSteps \ {"lock", "answer"}
<1>1. requests \in [Requests -> Request \cup {Idle}] /\ q.pc \in RunSteps /\ q \in Request
  BY RunTypes
     DEF readDeposit, ensureFxrpBalance, topUp, depositMissing, readLiveFtsoMid, readNextTag,
         RunSteps, DeskTypes, ServerTypeOK
<1>2. NextStage(q).pc \in onward
  BY <1>1 DEF NextStage, Request, RunSteps
<1>3. CASE readDeposit(r)
  BY <1>1, <1>2, <1>3 DEF readDeposit, Request, RunSteps
<1>4. CASE ensureFxrpBalance(r)
  <2>1. CASE requests' = [requests EXCEPT ![r].pc = "deposit"]
    BY <1>1, <2>1 DEF Request, RunSteps
  <2>2. CASE \E short :
               requests' = [requests EXCEPT ![r] = [q EXCEPT !.pc = "topUp", !.short = short]]
    BY <1>1, <2>2 DEF Request, RunSteps
  <2> QED
    BY <1>4, <2>1, <2>2 DEF ensureFxrpBalance, Go
<1>5. CASE topUp(r)
  BY <1>1, <1>5 DEF topUp, Go, Request, RunSteps
<1>6. CASE depositMissing(r)
  BY <1>1, <1>2, <1>6 DEF depositMissing
<1>7. CASE readLiveFtsoMid(r)
  <2>1. PICK pc \in {"sign", "tag"} :
          requests' = [requests EXCEPT ![r] = [q EXCEPT !.pc = pc, !.mid = oracle.mid]]
    BY <1>7 DEF readLiveFtsoMid
  <2> QED
    BY <1>1, <2>1 DEF Request, RunSteps
<1>8. CASE readNextTag(r)
  BY <1>1, <1>8 DEF readNextTag, Request, RunSteps
<1> HIDE DEF q, onward
<1> QED
  BY <1>3, <1>4, <1>5, <1>6, <1>7, <1>8

\* A run that sends its lock goes on to its answer.
LEMMA SendLockMoves ==
  ASSUME DeskTypes, NEW r \in Requests, sendLock(r)
  PROVE  /\ requests[r].pc = "lock"
         /\ requests'[r] = [requests[r] EXCEPT !.pc = "answer"]
         /\ requests'[r].pc = "answer"
         /\ requests'[r].matchId = requests[r].matchId
         /\ requests'[r].visitor = requests[r].visitor
         /\ \A s \in Requests \ {r} : requests'[s] = requests[s]
<1>1. requests[r].pc = "lock" /\ requests[r] \in Request
  BY RunTypes DEF sendLock, RunSteps
<1> QED
  BY <1>1 DEF sendLock, Go, Request, DeskTypes, ServerTypeOK

\* A request that goes on inside its run leaves the lock to it.
LEMMA RunGoesOn ==
  ASSUME DeskTypes, NEW r \in Requests,
         \/ readDeposit(r) \/ ensureFxrpBalance(r) \/ topUp(r) \/ depositMissing(r)
         \/ readLiveFtsoMid(r) \/ readNextTag(r) \/ signInstruction(r) \/ sendLock(r)
  PROVE  UNCHANGED currentRun /\ InRun' = InRun
<1>1. /\ requests[r].pc \in RunSteps /\ requests'[r].pc \in RunSteps
      /\ \A s \in Requests \ {r} : requests'[s] = requests[s]
  <2>1. CASE signInstruction(r)
    <3>1. PICK p \in Request :
            requests' = [requests EXCEPT ![r] = p] /\ p.pc = IF OneClick(p) THEN "lock" ELSE "answer"
      BY <2>1, SignEffect
    <3> QED
      BY <2>1, <3>1 DEF signInstruction, RunSteps, DeskTypes, ServerTypeOK
  <2>2. CASE sendLock(r)
    BY <2>2, SendLockMoves DEF RunSteps
  <2> QED
    BY <2>1, <2>2, RunMoves
<1>2. UNCHANGED currentRun
  BY DEF readDeposit, ensureFxrpBalance, topUp, depositMissing, readLiveFtsoMid, readNextTag,
         signInstruction, sendLock
<1> QED
  BY <1>1, <1>2 DEF InRun

\* A request outside a run stays outside, and no other request moves.
LEMMA OutMoves ==
  ASSUME DeskTypes, NEW r \in Requests,
         \/ \E body \in PostedBodies : demoPay(r, body)
         \/ \E id \in MatchIds : walletPay(r, id) \/ readDeadline(r, id)
         \/ \E tx \in TxIds : payXrpl(r, tx)
         \/ \E id \in MatchIds, tx \in TxIds : sendRelease(r, id, tx)
         \/ sendRefund(r) \/ failSettling(r)
  PROVE  /\ requests[r].pc \notin RunSteps /\ requests'[r].pc \notin RunSteps
         /\ \A s \in Requests \ {r} : requests'[s] = requests[s]
<1>1. Idle.pc = "idle" /\ "idle" \notin RunSteps /\ "pay" \notin RunSteps
      /\ "refund" \notin RunSteps /\ "conclude" \notin RunSteps
  BY DEF Idle, RunSteps
<1>2. requests \in [Requests -> Request \cup {Idle}]
  BY DEF DeskTypes, ServerTypeOK
<1>4. requests[r].pc \notin RunSteps
  BY <1>1 DEF demoPay, startPay, walletPay, readDeadline, payXrpl, sendRelease, sendRefund,
              failSettling, Steps
<1>5. /\ requests'[r].pc \notin RunSteps
      /\ \A s \in Requests \ {r} : requests'[s] = requests[s]
  <2>1. CASE (\E tx \in TxIds : payXrpl(r, tx)) \/ failSettling(r)
    BY <1>1, <1>2, <2>1 DEF payXrpl, failSettling, Done
  <2>2. CASE requests' = requests
    BY <1>4, <2>2
  <2>3. CASE \E q : requests' = [requests EXCEPT ![r] = q] /\ q.pc \in {"pay", "refund", "conclude"}
    BY <1>1, <1>2, <2>3
  <2>4. \A pc \in {"refund", "conclude"}, id \in MatchIds :
          [Idle EXCEPT !.pc = pc, !.matchId = id].pc \in {"pay", "refund", "conclude"}
    BY DEF Idle
  <2>6. CASE (\E body \in PostedBodies : demoPay(r, body)) \/ (\E id \in MatchIds : walletPay(r, id))
    <3>1. (\E d, t, n : startPay(r, d, t, n)) \/ requests' = requests
      BY <2>6 DEF demoPay, walletPay
    <3>2. CASE \E d, t, n : startPay(r, d, t, n)
      <4>1. PICK d, t, n : startPay(r, d, t, n)
        BY <3>2
      <4> DEFINE q == [Idle EXCEPT !.pc = "pay", !.destination = d, !.tag = t, !.amount = n]
      <4>2. q.pc = "pay"
        BY DEF Idle
      <4>3. requests' = [requests EXCEPT ![r] = q]
        BY <4>1 DEF startPay
      <4> HIDE DEF q
      <4> QED
        BY <2>3, <4>2, <4>3
    <3> QED
      BY <2>2, <3>1, <3>2
  <2>7. CASE \/ \E id \in MatchIds : readDeadline(r, id)
             \/ \E id \in MatchIds, tx \in TxIds : sendRelease(r, id, tx)
             \/ sendRefund(r)
    BY <2>3, <2>4, <2>7 DEF readDeadline, sendRelease, sendRefund, conclude, DeskTypes, IdsKnown
  <2> QED
    BY <2>1, <2>6, <2>7
<1> QED
  BY <1>4, <1>5

\* It leaves the lock alone, unless it concludes.
LEMMA OthersStayOut ==
  ASSUME DeskTypes, NEW r \in Requests,
         \/ \E body \in PostedBodies : demoPay(r, body)
         \/ \E id \in MatchIds : walletPay(r, id) \/ readDeadline(r, id)
         \/ \E tx \in TxIds : payXrpl(r, tx)
         \/ \E id \in MatchIds, tx \in TxIds : sendRelease(r, id, tx)
         \/ sendRefund(r) \/ failSettling(r)
  PROVE  UNCHANGED currentRun /\ InRun' = InRun
<1>1. UNCHANGED currentRun
  BY DEF demoPay, startPay, walletPay, readDeadline, payXrpl, sendRelease, sendRefund, failSettling
<1> QED
  BY <1>1, OutMoves DEF InRun

\* A lock no match is attached to belongs to a run still in its handler.
LEMMA OrphanStep ==
  DeskTypes /\ LockNotOrphaned /\ [DeskNext]_deskVars => LockNotOrphaned'
<1> SUFFICES ASSUME DeskTypes, LockNotOrphaned, [DeskNext]_deskVars PROVE LockNotOrphaned'
  OBVIOUS
<1>1. CASE UNCHANGED currentRun /\ InRun' = InRun
  BY <1>1 DEF LockNotOrphaned, InRun
<1>2. CASE currentRun' = NoRun
  BY <1>2 DEF LockNotOrphaned
<1>3. CASE \E r \in Requests, v \in Visitors \cup {DeskTaker} : startRun(r, v)
  <2>1. PICK r \in Requests, v \in Visitors \cup {DeskTaker} : startRun(r, v)
    BY <1>3
  <2>2. requests'[r].pc = "read"
    BY <2>1 DEF startRun, Idle, DeskTypes, ServerTypeOK
  <2> QED
    BY <2>2 DEF LockNotOrphaned, RunSteps
<1>4. CASE \E r \in Requests : answerRun(r)
  <2>1. PICK r \in Requests : answerRun(r)
    BY <1>4
  <2>2. requests[r].matchId # NoId
    BY <2>1, RunLockAssumption, DeskServerAssumption DEF answerRun, DeskTypes, IdsKnown
  <2>3. currentRun # NoRun => currentRun'.matchId # NoId
    BY <2>1, <2>2 DEF answerRun, attachMatchId, DeskTypes, ServerTypeOK, RunLockTypeOK, RunLock
  <2>4. currentRun = NoRun => currentRun' = NoRun
    BY <2>1 DEF answerRun, attachMatchId
  <2> QED
    BY <2>3, <2>4 DEF LockNotOrphaned
<1>5. CASE \E r \in Requests : failRun(r) \/ concludeRun(r)
  BY <1>2, <1>5 DEF failRun, concludeRun, releaseRunLock
<1>6. CASE restart
  BY <1>2, <1>6 DEF restart
<1>7. CASE OutsideStep \/ UNCHANGED deskVars
  <2>1. UNCHANGED <<currentRun, requests>>
    BY <1>7 DEF OutsideStep, VisitorDeposits, VisitorLocks, attest, serverVars, deskVars
  <2> QED
    BY <1>1, <2>1 DEF InRun
<1>8. CASE \E r \in Requests :
             \/ readDeposit(r) \/ ensureFxrpBalance(r) \/ topUp(r) \/ depositMissing(r)
             \/ readLiveFtsoMid(r) \/ readNextTag(r) \/ signInstruction(r) \/ sendLock(r)
  BY <1>1, <1>8, RunGoesOn
<1>9. CASE \E r \in Requests :
             \/ \E body \in PostedBodies : demoPay(r, body)
             \/ \E id \in MatchIds : walletPay(r, id) \/ readDeadline(r, id)
             \/ \E tx \in TxIds : payXrpl(r, tx)
             \/ \E id \in MatchIds, tx \in TxIds : sendRelease(r, id, tx)
             \/ sendRefund(r) \/ failSettling(r)
  BY <1>1, <1>9, OthersStayOut
<1> QED
  BY <1>3, <1>4, <1>5, <1>6, <1>7, <1>8, <1>9 DEF DeskNext, ServerStep

\* Whatever fails, restarts or overtakes, a lock no match is attached to belongs to a run
\* still in its handler, which either attaches one or releases it.
THEOREM LockIsNotOrphaned == DeskSpec => []LockNotOrphaned
<1>1. DeskInit => LockNotOrphaned
  BY DEF DeskInit, ServerInit, RunLockInit, LockNotOrphaned
<1> QED
  BY <1>1, OrphanStep, DeskTypesAlways, PTL DEF DeskSpec

-----------------------------------------------------------------------------
(***************************************************************************)
(* Which steps write a match.                                              *)
(***************************************************************************)
\* The locks of this system: a one-click run's own, and a visitor's of what they were
\* answered.
DeskLock(mi) ==
  /\ lock(mi, OwnerKey, FTSO_FEE)
  /\ mi.amountFxrp = MIN_BLOCK_FXRP
  /\ \/ /\ \E r \in Requests : requests[r].pc = "lock" /\ sendLock(r)
                               /\ mi.matchId = requests[r].matchId
        /\ mi.takerXrplAddress = DeskXrplAddress
     \/ /\ \E a \in answers : /\ a.visitor \in Visitors /\ mi.matchId = a.matchId
                              /\ mi.takerXrplAddress = VisitorXrpl[a.visitor]
        /\ UNCHANGED serverVars

\* Every step is one of those locks, settles a match, or leaves the matches.
LEMMA MatchSteps ==
  ASSUME DeskTypes, [DeskNext]_deskVars
  PROVE  \/ \E mi \in MatchInstruction : DeskLock(mi)
         \/ ReleaseStep \/ RefundStep
         \/ matches' = matches
<1>1. CASE \E r \in Requests : sendLock(r)
  <2>1. PICK r \in Requests : sendLock(r)
    BY <1>1
  <2>2. requests[r].pc = "lock"
    BY <2>1 DEF sendLock
  <2> DEFINE mi == Signed(DeskTaker, requests[r].matchId, requests[r].mid, requests[r].expires)
  <2>3. /\ mi \in MatchInstruction /\ mi.matchId = requests[r].matchId
        /\ mi.amountFxrp = MIN_BLOCK_FXRP /\ mi.takerXrplAddress = DeskXrplAddress
    BY <2>2, OneClickInstruction
  <2>4. lock(mi, OwnerKey, FTSO_FEE)
    BY <2>1 DEF sendLock
  <2> HIDE DEF mi
  <2> QED
    BY <2>1, <2>2, <2>3, <2>4 DEF DeskLock
<1>2. CASE VisitorLocks
  <2>1. PICK a \in answers :
          /\ a.visitor \in Visitors /\ UNCHANGED serverVars
          /\ lock(Signed(a.visitor, a.matchId, a.price, a.expires), OwnerKey, FTSO_FEE)
    BY <1>2 DEF VisitorLocks
  <2> DEFINE mi == Signed(a.visitor, a.matchId, a.price, a.expires)
  <2>2. /\ mi \in MatchInstruction /\ mi.matchId = a.matchId
        /\ mi.amountFxrp = MIN_BLOCK_FXRP /\ mi.takerXrplAddress = VisitorXrpl[a.visitor]
    BY <2>1, VisitorInstruction
  <2> HIDE DEF mi
  <2> QED
    BY <2>1, <2>2 DEF DeskLock, mi
<1>3. CASE \E r \in Requests :
             \/ \E id \in MatchIds, tx \in TxIds : sendRelease(r, id, tx)
             \/ sendRefund(r)
  BY <1>3, EscrowAssumption
     DEF sendRelease, sendRefund, ReleaseStep, RefundStep, DeskTypes, IdsKnown
<1>4. CASE \E r \in Requests :
             \/ \E v \in Visitors \cup {DeskTaker} : startRun(r, v)
             \/ readDeposit(r) \/ ensureFxrpBalance(r) \/ topUp(r) \/ depositMissing(r)
             \/ readLiveFtsoMid(r) \/ readNextTag(r) \/ signInstruction(r)
             \/ answerRun(r) \/ failRun(r)
             \/ \E body \in PostedBodies : demoPay(r, body)
             \/ \E id \in MatchIds : walletPay(r, id) \/ readDeadline(r, id)
             \/ \E tx \in TxIds : payXrpl(r, tx)
             \/ concludeRun(r) \/ failSettling(r)
  <2>1. CASE OffChain
    BY <2>1 DEF OffChain, vars, escrowVars
  <2>2. CASE \E r \in Requests : topUp(r) \/ \E tx \in TxIds : payXrpl(r, tx)
    BY <2>2 DEF topUp, payXrpl, XrplPay, escrowVars
  <2>3. CASE \E r \in Requests : depositMissing(r)
    BY <2>3 DEF depositMissing, deposit, Unescrowed, escrowVars
  <2> QED
    BY <1>4, <2>1, <2>2, <2>3
       DEF startRun, readDeposit, ensureFxrpBalance, readLiveFtsoMid, readNextTag, signInstruction,
           answerRun, failRun, demoPay, startPay, walletPay, readDeadline, concludeRun, failSettling
<1>5. CASE OutsideStep /\ ~VisitorLocks
  BY <1>5 DEF OutsideStep, VisitorDeposits, deposit, attest, FdcAttest, setEscrow, Unescrowed,
       Tick, OracleUpdate, escrowVars
<1>6. CASE restart \/ UNCHANGED deskVars
  BY <1>6 DEF restart, OffChain, deskVars, vars, escrowVars
<1> QED
  BY <1>1, <1>2, <1>3, <1>4, <1>5, <1>6 DEF DeskNext, ServerStep

\* Once a match is there, it stays there, with the terms it was locked with.
LEMMA TermsStay ==
  ASSUME DeskTypes, [DeskNext]_deskVars, NEW id \in MatchIds, matches[id].state # "None"
  PROVE  SameTerms(matches[id], matches'[id])
<1>1. CASE \E mi \in MatchInstruction : DeskLock(mi)
  BY <1>1, LockTerms DEF DeskLock, SameTerms, DeskTypes
<1>2. CASE ReleaseStep \/ RefundStep
  BY <1>2, SettledTerms DEF DeskTypes
<1>3. CASE matches' = matches
  BY <1>3 DEF SameTerms
<1> QED
  BY <1>1, <1>2, <1>3, MatchSteps

-----------------------------------------------------------------------------
(***************************************************************************)
(* What a one-click visitor is answered.                                   *)
(***************************************************************************)
\* A one-click run that has locked and not yet answered has its match on chain.
LockedBeforeAnswer ==
  \A r \in Requests :
    requests[r].pc = "answer" /\ OneClick(requests[r]) =>
      /\ matches[requests[r].matchId].state # "None"
      /\ matches[requests[r].matchId].takerXrplAddress = DeskXrplAddress

\* A request comes to its lock or its answer only by the signature, or by the lock.
LEMMA Arrivals ==
  ASSUME DeskTypes, [DeskNext]_deskVars, NEW r \in Requests,
         requests'[r].pc \in {"lock", "answer"}
  PROVE  requests'[r] = requests[r] \/ signInstruction(r) \/ sendLock(r)
<1>0. requests \in [Requests -> Request \cup {Idle}] /\ Idle.pc = "idle"
  BY DEF DeskTypes, ServerTypeOK, Idle
<1>1. CASE OutsideStep \/ UNCHANGED deskVars
  BY <1>1 DEF OutsideStep, VisitorDeposits, VisitorLocks, attest, serverVars, deskVars
<1>2. CASE restart
  BY <1>0, <1>2 DEF restart
<1>3. ASSUME NEW s \in Requests,
             \/ readDeposit(s) \/ ensureFxrpBalance(s) \/ topUp(s) \/ depositMissing(s)
             \/ readLiveFtsoMid(s) \/ readNextTag(s)
      PROVE  requests'[r] = requests[r]
  BY <1>3, RunMoves
<1>4. ASSUME NEW s \in Requests,
             \/ \E body \in PostedBodies : demoPay(s, body)
             \/ \E id \in MatchIds : walletPay(s, id) \/ readDeadline(s, id)
             \/ \E tx \in TxIds : payXrpl(s, tx)
             \/ \E id \in MatchIds, tx \in TxIds : sendRelease(s, id, tx)
             \/ sendRefund(s) \/ failSettling(s)
      PROVE  requests'[r] = requests[r]
  BY <1>4, OutMoves DEF RunSteps
<1>5. ASSUME NEW s \in Requests, answerRun(s) \/ failRun(s) \/ concludeRun(s)
      PROVE  requests'[r] = requests[r]
  BY <1>0, <1>5 DEF answerRun, failRun, concludeRun, Done
<1>6. ASSUME NEW s \in Requests, NEW v \in Visitors \cup {DeskTaker}, startRun(s, v)
      PROVE  requests'[r] = requests[r]
  <2>1. requests'[s].pc = "read"
    BY <1>0, <1>6 DEF startRun, Idle
  <2> QED
    BY <1>0, <1>6, <2>1 DEF startRun
<1>7. ASSUME NEW s \in Requests, signInstruction(s) \/ sendLock(s)
      PROVE  requests'[r] = requests[r] \/ signInstruction(r) \/ sendLock(r)
  <2>1. CASE s = r
    BY <1>7, <2>1
  <2>2. CASE s # r
    <3>1. \A t \in Requests \ {s} : requests'[t] = requests[t]
      BY <1>0, <1>7, SendLockMoves DEF signInstruction
    <3> QED
      BY <2>2, <3>1
  <2> QED
    BY <2>1, <2>2
<1> QED
  BY <1>1, <1>2, <1>3, <1>4, <1>5, <1>6, <1>7 DEF DeskNext, ServerStep

\* A one-click run that has locked keeps its match.
LEMMA LockedStep ==
  DeskTypes /\ LockedBeforeAnswer /\ [DeskNext]_deskVars => LockedBeforeAnswer'
<1> SUFFICES ASSUME DeskTypes, LockedBeforeAnswer, [DeskNext]_deskVars, NEW r \in Requests,
                    requests'[r].pc = "answer", OneClick(requests'[r])
             PROVE  /\ matches'[requests'[r].matchId].state # "None"
                    /\ matches'[requests'[r].matchId].takerXrplAddress = DeskXrplAddress
  BY DEF LockedBeforeAnswer, OneClick
<1>1. CASE requests'[r] = requests[r]
  <2> DEFINE id == requests[r].matchId
  <2>1. id \in MatchIds
    BY <1>1 DEF DeskTypes, IdsKnown
  <2>2. matches[id].state # "None" /\ matches[id].takerXrplAddress = DeskXrplAddress
    BY <1>1 DEF LockedBeforeAnswer, OneClick
  <2>3. SameTerms(matches[id], matches'[id])
    BY <2>1, <2>2, TermsStay
  <2> QED
    BY <1>1, <2>2, <2>3 DEF SameTerms
<1>2. CASE signInstruction(r)
  <2>1. PICK p \in Request :
          requests' = [requests EXCEPT ![r] = p] /\ p.pc = IF OneClick(p) THEN "lock" ELSE "answer"
    BY <1>2, SignEffect
  <2> QED
    BY <2>1 DEF DeskTypes, ServerTypeOK, OneClick
<1>3. CASE sendLock(r)
  <2> DEFINE mi == Signed(DeskTaker, requests[r].matchId, requests[r].mid, requests[r].expires)
  <2>1. requests[r].pc = "lock" /\ requests'[r].matchId = requests[r].matchId
    BY <1>3, SendLockMoves
  <2>2. /\ mi \in MatchInstruction /\ mi.matchId = requests[r].matchId
        /\ mi.takerXrplAddress = DeskXrplAddress
    BY <2>1, OneClickInstruction
  <2>3. lock(mi, OwnerKey, FTSO_FEE)
    BY <1>3 DEF sendLock
  <2> HIDE DEF mi
  <2>4. mi.matchId \in MatchIds /\ matches'[mi.matchId] = NewMatch(mi)
    BY <2>2, <2>3, LockTerms, InstructionTypes DEF DeskTypes
  <2> QED
    BY <2>1, <2>2, <2>4 DEF NewMatch, MatchWithTag
<1> QED
  BY <1>1, <1>2, <1>3, Arrivals

\* Only answerRun answers.
LEMMA NewAnswers ==
  ASSUME [DeskNext]_deskVars, NEW a \in answers'
  PROVE  a \in answers \/ \E r \in Requests : answerRun(r) /\ a = AnswerOf(requests[r])
BY DEF DeskNext, ServerStep, startRun, readDeposit, ensureFxrpBalance, topUp, depositMissing,
       readLiveFtsoMid, readNextTag, signInstruction, sendLock, answerRun, failRun, demoPay,
       startPay, walletPay, readDeadline, payXrpl, sendRelease, sendRefund, concludeRun,
       failSettling, restart, OutsideStep, VisitorDeposits, VisitorLocks, attest,
       serverVars, deskVars

\* What has been answered is what is on chain, and stays so.
LEMMA AnswersStep ==
  DeskTypes /\ LockedBeforeAnswer /\ AnswersMatchChain /\ [DeskNext]_deskVars
    => AnswersMatchChain'
<1> SUFFICES ASSUME DeskTypes, LockedBeforeAnswer, AnswersMatchChain, [DeskNext]_deskVars,
                    NEW a \in answers', a.visitor = DeskTaker
             PROVE  /\ matches'[a.matchId].state # "None"
                    /\ a.tag = matches'[a.matchId].destinationTag
                    /\ a.drops = matches'[a.matchId].xrpDrops
                    /\ matches'[a.matchId].takerXrplAddress = DeskXrplAddress
  BY DEF AnswersMatchChain
<1>1. CASE a \in answers
  <2>1. a.matchId \in MatchIds /\ matches[a.matchId].state # "None"
    BY <1>1 DEF AnswersMatchChain, DeskTypes, ServerTypeOK, Answer
  <2>2. SameTerms(matches[a.matchId], matches'[a.matchId])
    BY <2>1, TermsStay
  <2> QED
    BY <1>1, <2>2 DEF AnswersMatchChain, SameTerms
<1>2. CASE \E r \in Requests : answerRun(r) /\ a = AnswerOf(requests[r])
  <2>1. PICK r \in Requests : answerRun(r) /\ a = AnswerOf(requests[r])
    BY <1>2
  <2>2. /\ a.visitor = requests[r].visitor /\ a.matchId = requests[r].matchId
        /\ OneClick(requests[r]) =>
             /\ a.tag = matches[a.matchId].destinationTag
             /\ a.drops = matches[a.matchId].xrpDrops
    BY <2>1 DEF AnswerOf
  <2>3. requests[r].pc = "answer" /\ matches' = matches
    BY <2>1 DEF answerRun, OffChain, vars, escrowVars
  <2>4. OneClick(requests[r])
    BY <2>2 DEF OneClick
  <2> QED
    BY <2>2, <2>3, <2>4 DEF LockedBeforeAnswer
<1> QED
  BY <1>1, <1>2, NewAnswers

\* What a one-click visitor was answered is what the contract holds, however many runs
\* have locked in between and whatever has settled since.
THEOREM AnswersHold == DeskSpec => []AnswersMatchChain
<1>1. DeskInit => LockedBeforeAnswer /\ AnswersMatchChain
  <2> SUFFICES ASSUME DeskInit PROVE LockedBeforeAnswer /\ AnswersMatchChain
    OBVIOUS
  <2>1. answers = {} /\ \A r \in Requests : requests[r].pc = "idle"
    BY DEF DeskInit, ServerInit, Idle
  <2> QED
    BY <2>1 DEF LockedBeforeAnswer, AnswersMatchChain
<1> QED
  BY <1>1, LockedStep, AnswersStep, DeskTypesAlways, PTL DEF DeskSpec

-----------------------------------------------------------------------------
(***************************************************************************)
(* What the wallet mode pays.  A record is written for an id nobody has    *)
(* used, so no one-click run locks under it, and whoever was answered that *)
(* id is the visitor it was written for.                                   *)
(***************************************************************************)
IsFor(rec, visitor) == rec # NoRecord => rec.destination = VisitorXrpl[visitor]

RecordInv ==
  /\ \A r \in Requests :
       requests[r].pc = "lock" => prepareStore[requests[r].matchId] = NoRecord
  /\ \A r \in Requests :
       requests[r].pc = "answer" /\ ~OneClick(requests[r]) =>
         IsFor(prepareStore[requests[r].matchId], requests[r].visitor)
  /\ \A a \in answers : a.visitor # DeskTaker => IsFor(prepareStore[a.matchId], a.visitor)
  /\ \A id \in MatchIds : prepareStore[id] # NoRecord => prepareStore[id].xrpDrops = BufferedDrops

\* A record stays, is forgotten, or is written by the signature of a wallet run.
LEMMA StoreSteps ==
  ASSUME DeskTypes, [DeskNext]_deskVars, NEW id \in MatchIds
  PROVE  \/ prepareStore'[id] = prepareStore[id]
         \/ prepareStore'[id] = NoRecord
         \/ /\ id \notin UsedIds
            /\ matches' = matches
            /\ prepareStore'[id].xrpDrops = BufferedDrops
            /\ \E r \in Requests :
                 /\ signInstruction(r)
                 /\ requests'[r].matchId = id
                 /\ prepareStore'[id].destination = VisitorXrpl[requests'[r].visitor]
<1>0. prepareStore \in [MatchIds -> PrepareRecord \cup {NoRecord}]
      /\ requests \in [Requests -> Request \cup {Idle}]
  BY DEF DeskTypes, ServerTypeOK
<1>1. CASE \E r \in Requests : signInstruction(r)
  <2>1. PICK r \in Requests : signInstruction(r)
    BY <1>1
  <2>2. PICK new \in MatchIds \ UsedIds, q \in Request :
           /\ requests' = [requests EXCEPT ![r] = q]
           /\ q.matchId = new
           /\ \/ prepareStore' = prepareStore
              \/ /\ ~OneClick(q)
                 /\ \E rec \in PrepareRecord :
                      /\ prepareStore' = [prepareStore EXCEPT ![new] = rec]
                      /\ rec.xrpDrops = BufferedDrops
                      /\ rec.destination = XrplDestination(q)
    BY <2>1, SignEffect
  <2>3. matches' = matches /\ requests'[r] = q
    BY <1>0, <2>1, <2>2 DEF signInstruction, OffChain, vars, escrowVars
  <2>4. CASE prepareStore' = prepareStore
    BY <2>4
  <2>5. CASE /\ ~OneClick(q)
             /\ \E rec \in PrepareRecord :
                  /\ prepareStore' = [prepareStore EXCEPT ![new] = rec]
                  /\ rec.xrpDrops = BufferedDrops
                  /\ rec.destination = XrplDestination(q)
    <3>1. id # new => prepareStore'[id] = prepareStore[id]
      BY <1>0, <2>5
    <3>2. /\ prepareStore'[new].xrpDrops = BufferedDrops
          /\ prepareStore'[new].destination = VisitorXrpl[q.visitor]
      BY <1>0, <2>5 DEF XrplDestination
    <3> QED
      BY <2>1, <2>2, <2>3, <3>1, <3>2
  <2> QED
    BY <2>2, <2>4, <2>5
<1>2. CASE \E r \in Requests, j \in MatchIds : walletPay(r, j)
  BY <1>0, <1>2 DEF walletPay
<1>3. CASE restart
  BY <1>3 DEF restart
<1>4. CASE prepareStore' = prepareStore
  BY <1>4
<1> QED
  BY <1>1, <1>2, <1>3, <1>4
     DEF DeskNext, ServerStep, startRun, readDeposit, ensureFxrpBalance, topUp, depositMissing,
         readLiveFtsoMid, readNextTag, sendLock, answerRun, failRun, demoPay,
         readDeadline, payXrpl, sendRelease, sendRefund, concludeRun,
         failSettling, OutsideStep, VisitorDeposits, VisitorLocks, attest,
         serverVars, deskVars

\* The record of an id in use is not written again.
LEMMA StoreKeeps ==
  ASSUME DeskTypes, [DeskNext]_deskVars, NEW id \in MatchIds, id \in UsedIds
  PROVE  prepareStore'[id] = prepareStore[id] \/ prepareStore'[id] = NoRecord
BY StoreSteps

\* An id that is being signed for had no record.
LEMMA FreshIds ==
  ASSUME NEW id \in MatchIds, id \notin UsedIds
  PROVE  prepareStore[id] = NoRecord /\ matches[id].state = "None"
BY DEF UsedIds

\* A run about to lock has no record under its id.
LEMMA NoRecordAtLock ==
  ASSUME DeskTypes, RecordInv, [DeskNext]_deskVars, NEW r \in Requests,
         requests'[r].pc = "lock"
  PROVE  prepareStore'[requests'[r].matchId] = NoRecord
<1>1. CASE requests'[r] = requests[r]
  <2> DEFINE id == requests[r].matchId
  <2>1. id \in MatchIds /\ id \in UsedIds
    BY <1>1 DEF DeskTypes, IdsKnown, UsedIds
  <2>2. prepareStore[id] = NoRecord
    BY <1>1 DEF RecordInv
  <2> QED
    BY <1>1, <2>1, <2>2, StoreKeeps
<1>2. CASE signInstruction(r)
  <2>1. PICK id \in MatchIds \ UsedIds, q \in Request :
          /\ requests' = [requests EXCEPT ![r] = q] /\ q.matchId = id
          /\ q.pc = IF OneClick(q) THEN "lock" ELSE "answer"
          /\ OneClick(q) => prepareStore' = prepareStore
    BY <1>2, SignEffect
  <2>2. requests'[r] = q
    BY <2>1 DEF DeskTypes, ServerTypeOK
  <2> QED
    BY <2>1, <2>2, FreshIds
<1>3. CASE sendLock(r)
  BY <1>3, SendLockMoves
<1> QED
  BY <1>1, <1>2, <1>3, Arrivals

\* A wallet run about to answer has the record of its visitor.
LEMMA CoversAtAnswer ==
  ASSUME DeskTypes, RecordInv, [DeskNext]_deskVars, NEW r \in Requests,
         requests'[r].pc = "answer", ~OneClick(requests'[r])
  PROVE  IsFor(prepareStore'[requests'[r].matchId], requests'[r].visitor)
<1>1. CASE requests'[r] = requests[r]
  <2> DEFINE id == requests[r].matchId
  <2>1. id \in MatchIds /\ id \in UsedIds
    BY <1>1 DEF DeskTypes, IdsKnown, UsedIds
  <2>2. IsFor(prepareStore[id], requests[r].visitor)
    BY <1>1 DEF RecordInv, OneClick
  <2> QED
    BY <1>1, <2>1, <2>2, StoreKeeps DEF IsFor
<1>2. CASE signInstruction(r)
  <2>1. PICK id \in MatchIds \ UsedIds, q \in Request :
          /\ requests' = [requests EXCEPT ![r] = q] /\ q.matchId = id
          /\ q.pc = IF OneClick(q) THEN "lock" ELSE "answer"
          /\ ~OneClick(q) =>
               \E rec \in PrepareRecord :
                 /\ prepareStore' = [prepareStore EXCEPT ![id] = rec]
                 /\ rec.destination = XrplDestination(q)
    BY <1>2, SignEffect
  <2>2. requests'[r] = q /\ prepareStore \in [MatchIds -> PrepareRecord \cup {NoRecord}]
    BY <2>1 DEF DeskTypes, ServerTypeOK
  <2>3. ~OneClick(q)
    BY <2>2 DEF OneClick
  <2>4. prepareStore'[id].destination = VisitorXrpl[q.visitor]
    BY <2>1, <2>2, <2>3 DEF XrplDestination
  <2> QED
    BY <2>1, <2>2, <2>4 DEF IsFor
<1>3. CASE sendLock(r)
  <2>1. requests[r].pc = "lock" /\ requests'[r].matchId = requests[r].matchId
    BY <1>3, SendLockMoves
  <2>2. prepareStore'[requests'[r].matchId] = NoRecord
    BY <1>3, <2>1 DEF RecordInv, sendLock
  <2> QED
    BY <2>2 DEF IsFor
<1> QED
  BY <1>1, <1>2, <1>3, Arrivals

\* A visitor has been answered the id of a record of theirs.
LEMMA CoversAnswers ==
  ASSUME DeskTypes, RecordInv, [DeskNext]_deskVars, NEW a \in answers', a.visitor # DeskTaker
  PROVE  IsFor(prepareStore'[a.matchId], a.visitor)
<1>1. CASE a \in answers
  <2>1. a.matchId \in MatchIds /\ a.matchId \in UsedIds
    BY <1>1 DEF DeskTypes, ServerTypeOK, Answer, UsedIds
  <2>2. IsFor(prepareStore[a.matchId], a.visitor)
    BY <1>1 DEF RecordInv
  <2> QED
    BY <2>1, <2>2, StoreKeeps DEF IsFor
<1>2. CASE \E r \in Requests : answerRun(r) /\ a = AnswerOf(requests[r])
  <2>1. PICK r \in Requests : answerRun(r) /\ a = AnswerOf(requests[r])
    BY <1>2
  <2>2. a.visitor = requests[r].visitor /\ a.matchId = requests[r].matchId
    BY <2>1 DEF AnswerOf
  <2>3. requests[r].pc = "answer" /\ prepareStore' = prepareStore /\ ~OneClick(requests[r])
    BY <2>1, <2>2 DEF answerRun, OneClick
  <2> QED
    BY <2>2, <2>3 DEF RecordInv, IsFor
<1> QED
  BY <1>1, <1>2, NewAnswers

LEMMA RecordStep == DeskTypes /\ RecordInv /\ [DeskNext]_deskVars => RecordInv'
<1> SUFFICES ASSUME DeskTypes, RecordInv, [DeskNext]_deskVars PROVE RecordInv'
  OBVIOUS
<1>1. \A r \in Requests :
        requests'[r].pc = "lock" => prepareStore'[requests'[r].matchId] = NoRecord
  BY NoRecordAtLock
<1>2. \A r \in Requests :
        requests'[r].pc = "answer" /\ ~OneClick(requests'[r]) =>
          IsFor(prepareStore'[requests'[r].matchId], requests'[r].visitor)
  BY CoversAtAnswer
<1>3. \A a \in answers' : a.visitor # DeskTaker => IsFor(prepareStore'[a.matchId], a.visitor)
  BY CoversAnswers
<1>4. \A id \in MatchIds :
        prepareStore'[id] # NoRecord => prepareStore'[id].xrpDrops = BufferedDrops
  BY StoreSteps DEF RecordInv
<1> QED
  BY <1>1, <1>2, <1>3, <1>4 DEF RecordInv, OneClick, IsFor, BufferedDrops

\* A lock inside the band asks for no more than the buffer covers: the drops are at most
\* amount * (BIPS + BAND_BIPS) / BIPS, and the buffer is at least that.
LEMMA LockCovered ==
  ASSUME DeskTypes, NEW mi \in MatchInstruction, lock(mi, OwnerKey, FTSO_FEE),
         mi.amountFxrp = MIN_BLOCK_FXRP
  PROVE  NewMatch(mi).xrpDrops <= BufferedDrops
<1> DEFINE drops == Drops(mi)
           least == MIN_BLOCK_FXRP
<1>1. /\ InBand(mi.priceUsd18, oracle.mid) /\ oracle.mid \in Nat \ {0}
      /\ mi.amountFxrp = least /\ least \in Nat /\ mi.priceUsd18 \in Nat
  BY InstructionTypes, DeskWallets DEF lock, OracleFresh, DeskTypes, Inv, TypeOK
<1>2. drops \in Nat /\ NewMatch(mi).xrpDrops = drops
  BY <1>1, ProductNat, QuotientNat DEF Drops, NewMatch, MatchWithTag
<1>3. drops * BIPS <= least * (BIPS + BAND_BIPS)
  BY <1>1, QuotientInBand DEF Drops
<1>4. PICK bips \in Nat \ {0}, high \in Nat, num \in Nat, den \in Nat \ {0} :
        /\ bips = BIPS /\ high = BIPS + BAND_BIPS
        /\ num = XRPL_PAY_BUFFER_NUM /\ den = XRPL_PAY_BUFFER_DEN
        /\ den * high <= num * bips
  BY EscrowAssumption, DeskServerAssumption
<1> HIDE DEF drops, least
<1>5. /\ drops * bips \in Nat /\ least * high \in Nat /\ den * high \in Nat /\ num * bips \in Nat
      /\ drops * den \in Nat /\ least * num \in Nat
  BY <1>1, <1>2, <1>4, ProductNat
<1>6. (drops * bips) * den <= (least * high) * den
  BY <1>3, <1>4, <1>5, ProductGrows
<1>7. (den * high) * least <= (num * bips) * least
  BY <1>1, <1>4, <1>5, ProductGrows
<1>8. (drops * bips) * den = (drops * den) * bips
  BY <1>2, <1>4, ProductReorders
<1>9. (least * high) * den = (den * high) * least
  <2>1. (least * high) * den = (least * den) * high /\ (den * high) * least = (den * least) * high
    BY <1>1, <1>4, ProductReorders
  <2>2. least * den = den * least
    BY <1>1, <1>4
  <2> QED
    BY <2>1, <2>2
<1>10. (num * bips) * least = (least * num) * bips
  <2>1. (num * bips) * least = (num * least) * bips
    BY <1>1, <1>4, ProductReorders
  <2>2. num * least = least * num
    BY <1>1, <1>4
  <2> QED
    BY <2>1, <2>2
<1>11. drops * den <= least * num
  <2>1. (drops * den) * bips \in Nat /\ (least * num) * bips \in Nat
        /\ (least * high) * den \in Nat
    BY <1>4, <1>5, ProductNat
  <2>2. (drops * den) * bips <= (least * num) * bips
    BY <1>6, <1>7, <1>8, <1>9, <1>10, <2>1
  <2> QED
    BY <1>4, <1>5, <2>2, ProductCancels
<1>12. drops <= (least * num) \div den
  <2> DEFINE quotient == (least * num) \div den
  <2>1. quotient \in Nat /\ least * num < (quotient + 1) * den
    BY <1>4, <1>5, QuotientNat, QuotientBounds
  <2> HIDE DEF quotient
  <2>2. quotient + 1 \in Nat /\ (quotient + 1) * den \in Nat
    BY <1>4, <2>1, ProductNat
  <2>3. drops * den < (quotient + 1) * den
    BY <1>5, <1>11, <2>1, <2>2
  <2>4. drops < quotient + 1
    BY <1>2, <1>4, <2>2, <2>3, ProductCancels
  <2>5. drops <= quotient
    BY <1>2, <2>1, <2>4
  <2> QED
    BY <2>5 DEF quotient
<1> QED
  BY <1>2, <1>4, <1>12 DEF BufferedDrops, least

\* What a record pays for covers its match, whoever locked that.
LEMMA CoverStep ==
  DeskTypes /\ RecordInv /\ PayCoversMatch /\ [DeskNext]_deskVars => PayCoversMatch'
<1> SUFFICES ASSUME DeskTypes, RecordInv, PayCoversMatch, [DeskNext]_deskVars,
                    NEW id \in MatchIds,
                    prepareStore'[id] # NoRecord, matches'[id].state # "None"
             PROVE  /\ prepareStore'[id].xrpDrops >= matches'[id].xrpDrops
                    /\ prepareStore'[id].destination = matches'[id].takerXrplAddress
  BY DEF PayCoversMatch
<1>1. prepareStore'[id] = prepareStore[id]
  BY StoreSteps, FreshIds
<1>2. CASE matches[id].state # "None"
  <2>1. SameTerms(matches[id], matches'[id])
    BY <1>2, TermsStay
  <2> QED
    BY <1>1, <1>2, <2>1 DEF SameTerms, PayCoversMatch
<1>3. CASE matches[id].state = "None"
  <2>1. PICK mi \in MatchInstruction : DeskLock(mi)
    BY <1>3, MatchSteps, SettledTerms DEF DeskTypes
  <2>2. /\ mi.matchId = id /\ matches'[id] = NewMatch(mi)
        /\ NewMatch(mi).takerXrplAddress = mi.takerXrplAddress
    BY <1>3, <2>1, LockTerms, InstructionTypes DEF DeskTypes, DeskLock, NewMatch, MatchWithTag
  <2>3. PICK a \in answers : /\ a.visitor \in Visitors /\ id = a.matchId
                             /\ mi.takerXrplAddress = VisitorXrpl[a.visitor]
    BY <1>1, <2>1, <2>2 DEF DeskLock, RecordInv
  <2>4. prepareStore[id].destination = VisitorXrpl[a.visitor]
    BY <1>1, <2>3, DeskWallets DEF RecordInv, IsFor
  <2>5. NewMatch(mi).xrpDrops <= BufferedDrops
    BY <2>1, LockCovered DEF DeskLock
  <2>6. prepareStore[id].xrpDrops = BufferedDrops
    BY <1>1 DEF RecordInv
  <2>7. NewMatch(mi).xrpDrops \in Nat /\ BufferedDrops \in Nat
    <3>1. prepareStore[id].xrpDrops \in Nat
      BY <1>1 DEF DeskTypes, ServerTypeOK, PrepareRecord
    <3>2. matches'[id].xrpDrops \in Nat
      BY DeskTypesStep DEF DeskTypes, Inv, TypeOK, Match
    <3> QED
      BY <2>2, <2>6, <3>1, <3>2
  <2> QED
    BY <1>1, <2>2, <2>3, <2>4, <2>5, <2>6, <2>7
<1> QED
  BY <1>2, <1>3

\* What the wallet mode will pay covers what the lock turned out to ask for, at the
\* address it asks for, however the price has moved between the signature and the lock:
\* the buffer need only be as wide as the band.
THEOREM PaymentsCover == DeskSpec => []PayCoversMatch
<1>1. DeskInit => RecordInv /\ PayCoversMatch
  <2> SUFFICES ASSUME DeskInit PROVE RecordInv /\ PayCoversMatch
    OBVIOUS
  <2>1. /\ answers = {} /\ \A r \in Requests : requests[r].pc = "idle"
        /\ \A id \in MatchIds : prepareStore[id] = NoRecord
    BY DEF DeskInit, ServerInit, Idle
  <2> QED
    BY <2>1 DEF RecordInv, PayCoversMatch
<1> QED
  BY <1>1, RecordStep, CoverStep, DeskTypesAlways, PTL DEF DeskSpec

-----------------------------------------------------------------------------
(***************************************************************************)
(* The promise of Settlement.                                              *)
(***************************************************************************)
\* The owner gives one of the desk's wallets part of what is the owner's.
Gift ==
  \E wallet \in {DeskTaker, DeskMaker}, amount \in 0..Claims[DeskOwner] :
    /\ Claims' = [Claims EXCEPT ![DeskOwner] = @ - amount, ![wallet] = @ + amount]
    /\ UNCHANGED <<now, Deals, Funded, usedTxId>>

\* Settlement, by parties of which one gives to two others.
SettlementWithGifts ==
  Promise!SInit /\ [][Promise!SNext \/ Gift]_(Promise!settlementVars)

LEMMA TransferIsGift == Inv /\ Transfer => Gift
<1> SUFFICES ASSUME Inv, Inv', NEW wallet \in {DeskTaker, DeskMaker}, NEW amount \in Nat,
                    CanPay(DeskOwner, amount),
                    fxrp' = Moved(fxrp, DeskOwner, wallet, amount),
                    UNCHANGED <<ledgerVars, now, escrowVars, adminVars, worldVars>>
             PROVE  Gift
  BY TransferInv DEF Transfer
<1>1. /\ DeskOwner \in Parties /\ wallet \in Parties /\ DeskOwner # wallet
      /\ amount \in Nat /\ amount <= fxrp[DeskOwner]
  BY DeskWallets DEF CanPay
<1>2. UNCHANGED <<now, freeBond, balances, matches, payments, usedTxId>>
  BY DEF ledgerVars, escrowVars, worldVars
<1>3. /\ fxrp'[DeskOwner] = fxrp[DeskOwner] - amount /\ fxrp'[wallet] = fxrp[wallet] + amount
      /\ \A p \in Parties \ {DeskOwner, wallet} : fxrp'[p] = fxrp[p]
  BY <1>1, MovedType, AccountTypes DEF Inv, TypeOK, LedgerTypeOK
<1>4. amount \in 0..Claims[DeskOwner]
  BY <1>1, ClaimTypes
<1>5. Claims' = [Claims EXCEPT ![DeskOwner] = @ - amount, ![wallet] = @ + amount]
  <2>1. /\ Claims'[DeskOwner] = Claims[DeskOwner] - amount
        /\ Claims'[wallet] = Claims[wallet] + amount
        /\ \A p \in Parties \ {DeskOwner, wallet} : Claims'[p] = Claims[p]
    <3>1. \A p \in Parties : /\ fxrp[p] \in Nat /\ freeBond[p] \in Nat
                             /\ balances[p].armed \in Nat /\ balances[p].committed \in Nat
      BY ClaimTypes
    <3> QED
      BY <1>1, <1>2, <1>3, <3>1, ClaimsAre
  <2>2. Claims \in [Parties -> Nat] /\ Claims' \in [Parties -> Nat]
    BY ClaimsAre
  <2> QED
    BY <1>1, <2>1, <2>2
<1>6. UNCHANGED <<Deals, Funded>>
  BY <1>2, DealsSame
<1> QED
  BY <1>2, <1>4, <1>5, <1>6 DEF Gift

\* A transfer leaves every match, and so its times, as they are.
LEMMA ServerPromise ==
  PromiseInv /\ DeskTypes /\ [DeskNext]_deskVars
    => /\ PromiseInv' /\ DeskTypes'
       /\ [Promise!SNext \/ Gift]_(Promise!settlementVars)
       /\ [NoHastyRefund]_vars
<1> SUFFICES ASSUME PromiseInv, DeskTypes, [DeskNext]_deskVars
             PROVE  /\ PromiseInv'
                    /\ Promise!SNext \/ Gift \/ UNCHANGED Promise!settlementVars
                    /\ [NoHastyRefund]_vars
  BY DeskTypesStep
<1>1. AnyNext \/ Transfer \/ UNCHANGED vars
  BY OnChain DEF deskVars
<1>2. CASE Transfer
  <2>1. UNCHANGED matches
    BY <1>2 DEF Transfer, escrowVars
  <2>2. PromiseInv' /\ NoHastyRefund
    BY <1>2, <2>1, TransferInv DEF PromiseInv, DeadlinesApart, NoHastyRefund
  <2> QED
    BY <1>2, <2>2, TransferIsGift DEF PromiseInv
<1> QED
  BY <1>1, <1>2, PromiseStep

\* Whatever the one-click and wallet routes do between their awaits, give up on, repeat or
\* lose at a restart: a visitor's claim changes only when a deal of theirs opens, is delivered
\* against an XRPL payment of its own, or is returned late; and the desk's wallets gain
\* otherwise only what the owner gives them.
THEOREM ServerKeepsSettlement == DeskSpec => SettlementWithGifts
<1>1. DeskInit => PromiseInv /\ DeskTypes /\ Promise!SInit
  BY DeskTypesInit, PromiseInit DEF DeskInit
<1> QED
  BY <1>1, ServerPromise, PTL DEF DeskSpec, SettlementWithGifts

\* The desk's own maker, too, has ATTESTATION_BUDGET and REFUND_GRACE to prove a payment made
\* in time, whichever of the settling routes runs first.
THEOREM ServerMakerHasTime == DeskSpec => HonestMakerHasTime
<1>1. DeskInit => PromiseInv /\ DeskTypes
  BY DeskTypesInit, PromiseInit DEF DeskInit
<1> QED
  BY <1>1, ServerPromise, PTL DEF DeskSpec, HonestMakerHasTime, NoHastyRefund
=============================================================================
