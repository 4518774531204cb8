----------------------------- MODULE DeskServer ------------------------------
(***************************************************************************)
(* web/src/app/api/demo and /wallet with web/src/lib/demo: the server that *)
(* runs a trade for a visitor.  In the one-click mode it plays taker and   *)
(* maker with its own keys; in the wallet mode the visitor is the taker    *)
(* and the server is the maker, prepares and signs the instruction, and    *)
(* later pays the XRP.  It keeps its records in memory.                    *)
(*                                                                         *)
(* A request is one activation of a route handler.  Every await of a       *)
(* handler is a point where other requests run and where it may fail, so   *)
(* each action below is the code between two awaits.  Transactions are     *)
(* those of DvPEscrow.                                                     *)
(***************************************************************************)
EXTENDS DvPEscrow, RunLock

CONSTANTS
  Requests,           \* bound: handlers in flight at the same time
  DeskOwner,          \* owner key: signs instructions, holds the FXRP reserve
  OwnerKey,           \* what its signatures recover to
  DeskTaker,          \* the taker wallet of the one-click mode
  DeskMaker,          \* the maker wallet of both modes
  Visitors,           \* wallets of visitors
  DeskXrplAddress,    \* env.xrplTakerAddress
  VisitorXrpl,        \* the XRPL address each visitor asks to be paid at
  PREPARE_RECORD_TTL,
  WALLET_MODE_DEADLINE,   \* of a wallet instruction
  ONE_CLICK_DEADLINE,     \* of a one-click instruction
  ARMED_FOR,              \* how long fundTakerDeposit arms a deposit for
  XRPL_PAY_BUFFER_NUM, XRPL_PAY_BUFFER_DEN,
  MAX_XRP_DROPS,          \* of POST /demo/pay
  PayBodies               \* bound: what is posted there that no answer said

ASSUME DeskServerAssumption ==
  /\ {DeskOwner, DeskTaker, DeskMaker} \cup Visitors \subseteq Parties
  /\ DeskTaker # DeskMaker /\ DeskOwner \notin {DeskTaker, DeskMaker}
  /\ {DeskTaker, DeskMaker, DeskOwner} \cap Visitors = {}
  /\ OwnerKey \in Signers
  /\ DeskXrplAddress \in XrplAddresses /\ VisitorXrpl \in [Visitors -> XrplAddresses]
  /\ RunIds = MatchIds
  /\ PREPARE_RECORD_TTL \in Nat /\ WALLET_MODE_DEADLINE \in Nat
  /\ ONE_CLICK_DEADLINE \in Nat /\ ARMED_FOR \in Nat
  /\ XRPL_PAY_BUFFER_NUM \in Nat /\ XRPL_PAY_BUFFER_DEN \in Nat \ {0}
  /\ MAX_XRP_DROPS \in Nat /\ PayBodies \subseteq [tag : Nat, drops : Nat]
  \* the buffer is wider than the band
  /\ XRPL_PAY_BUFFER_NUM * BIPS >= XRPL_PAY_BUFFER_DEN * (BIPS + BAND_BIPS)

VARIABLES
  prepareStore,   \* matchId => PrepareRecord
  requests,       \* the handlers in flight, with their locals
  answers         \* what the visitors have been told

serverVars == <<currentRun, prepareStore, requests, answers>>
deskVars == <<vars, serverVars>>

-----------------------------------------------------------------------------
PrepareRecord ==
  [destination : XrplAddresses, xrpDrops : Nat, destinationTag : Nat, createdAt : Nat]

NoRecord ==
  [destination |-> EmptyXrplAddress, xrpDrops |-> 0, destinationTag |-> 0, createdAt |-> 0]

\* Where a handler is.  The first line is one-click and wallet runs, which hold
\* the lock or believe they do; the second is the routes that settle a run.
RunSteps == {"read", "ensure", "topUp", "deposit", "price", "tag", "sign", "lock", "answer"}

Steps == RunSteps \cup {"pay", "refund", "conclude"}

Request ==
  [pc : Steps, visitor : Visitors \cup {DeskTaker},
   stage : {"taker", "bond"}, amount : Nat, short : Nat, armedUntil : Nat, mid : Nat,
   tag : Nat, matchId : MatchIds \cup {NoId}, expires : Nat,
   destination : XrplAddresses \cup {EmptyXrplAddress}]

Idle ==
  [pc |-> "idle", visitor |-> DeskTaker, stage |-> "taker",
   amount |-> 0, short |-> 0, armedUntil |-> 0, mid |-> 0, tag |-> 0, matchId |-> NoId,
   expires |-> 0, destination |-> EmptyXrplAddress]

\* What /demo/lock and /wallet/prepare answer.
Answer ==
  [visitor : Visitors \cup {DeskTaker}, matchId : MatchIds, tag : Nat, drops : Nat,
   price : Nat, expires : Nat]

DeskTypeOK ==
  /\ TypeOK
  /\ RunLockTypeOK
  /\ prepareStore \in [MatchIds -> PrepareRecord \cup {NoRecord}]
  /\ requests \in [Requests -> Request \cup {Idle}]
  /\ answers \subseteq Answer

ServerInit ==
  /\ RunLockInit
  /\ prepareStore = [id \in MatchIds |-> NoRecord]
  /\ requests = [r \in Requests |-> Idle]
  /\ answers = {}

DeskInit == Init /\ ServerInit

-----------------------------------------------------------------------------
OffChain == UNCHANGED vars

Go(r, pc) == requests' = [requests EXCEPT ![r].pc = pc]

Done(r) == requests' = [requests EXCEPT ![r] = Idle]

OneClick(q) == q.visitor = DeskTaker

UsedIds == {id \in MatchIds : matches[id].state # "None" \/ prepareStore[id] # NoRecord}
           \cup {requests[r].matchId : r \in Requests} \cup {a.matchId : a \in answers}

(***************************************************************************)
(* POST /demo/lock and POST /wallet/prepare.  A one-click run funds its    *)
(* taker and its maker; a wallet run only its maker.                       *)
(***************************************************************************)
startRun(r, visitor) ==
  /\ requests[r] = Idle
  /\ tryAcquireRunLock(now)
  /\ requests' = [requests EXCEPT ![r] =
       [Idle EXCEPT !.pc = "read", !.visitor = visitor,
                    !.stage = IF visitor = DeskTaker THEN "taker" ELSE "bond"]]
  /\ UNCHANGED <<prepareStore, answers>>
  /\ OffChain

Wallet(q) == IF q.stage = "taker" THEN DeskTaker ELSE DeskMaker

Held(q) == IF q.stage = "taker" THEN Available(DeskTaker) ELSE freeBond[DeskMaker]

Needed(q) == IF q.stage = "taker" THEN MIN_BLOCK_FXRP ELSE BondFor(MIN_BLOCK_FXRP)

\* The rest of the run after the deposit of this stage.
NextStage(q) ==
  [q EXCEPT !.pc = IF q.stage = "taker" THEN "read" ELSE "price",
            !.stage = "bond", !.amount = 0, !.short = 0, !.armedUntil = 0]

\* setupClients first insists that our key is the escrow's signer; then
\* fundTakerDeposit and fundMakerBond read what the wallet still has deposited.
readDeposit(r) ==
  LET q == requests[r]
      missing == IF Held(q) >= Needed(q) THEN 0 ELSE Needed(q) - Held(q)
      extend == q.stage = "taker" /\ balances[DeskTaker].armedUntil < now + ARMED_FOR
  IN  /\ q.pc = "read"
      /\ teeSigner = OwnerKey
      /\ requests' = [requests EXCEPT ![r] =
           IF missing > 0
           THEN [q EXCEPT !.pc = "ensure", !.amount = missing, !.armedUntil = now + ARMED_FOR]
           ELSE IF extend THEN [q EXCEPT !.pc = "deposit", !.armedUntil = now + ARMED_FOR]
           ELSE NextStage(q)]
      /\ UNCHANGED <<currentRun, prepareStore, answers>>
      /\ OffChain

ensureFxrpBalanceUnchecked(r) ==
  LET q == requests[r]
      short == q.amount - fxrp[Wallet(q)]
  IN  /\ q.pc = "ensure"
      /\ CanPay(DeskOwner, short)
      /\ requests' = [requests EXCEPT ![r] = [q EXCEPT !.pc = "topUp", !.short = short]]
      /\ UNCHANGED <<currentRun, prepareStore, answers>>
      /\ OffChain

\* ensureFxrpBalance: is the wallet short, and can the reserve cover it?
ensureFxrpBalance(r) ==
  LET q == requests[r]
      short == q.amount - fxrp[Wallet(q)]
  IN  /\ q.pc = "ensure"
      /\ \/ short <= 0 /\ Go(r, "deposit")
         \/ /\ short > 0
            /\ CanPay(DeskOwner, short)
            /\ requests' = [requests EXCEPT ![r] = [q EXCEPT !.pc = "topUp", !.short = short]]
      /\ UNCHANGED <<currentRun, prepareStore, answers>>
      /\ OffChain

topUp(r) ==
  LET q == requests[r]
  IN  /\ q.pc = "topUp"
      /\ CanPay(DeskOwner, q.short)
      /\ fxrp' = Moved(fxrp, DeskOwner, Wallet(q), q.short)
      /\ Go(r, "deposit")
      /\ UNCHANGED <<ledgerVars, now, escrowVars, adminVars, worldVars,
                     currentRun, prepareStore, answers>>

\* deposit(amount, armedUntil), of nothing when only the arming time is extended,
\* or depositBond(amount).
depositMissing(r) ==
  LET q == requests[r]
  IN  /\ q.pc = "deposit"
      /\ \/ q.stage = "taker" /\ deposit(DeskTaker, q.amount, q.armedUntil)
         \/ q.stage = "bond" /\ depositBond(DeskMaker, q.amount) /\ Unescrowed
      /\ requests' = [requests EXCEPT ![r] = NextStage(q)]
      /\ UNCHANGED <<currentRun, prepareStore, answers>>

readLiveFtsoMid(r) ==
  LET q == requests[r]
  IN  /\ q.pc = "price"
      /\ requests' = [requests EXCEPT
           ![r] = [q EXCEPT !.pc = IF OneClick(q) THEN "sign" ELSE "tag", !.mid = oracle.mid]]
      /\ UNCHANGED <<currentRun, prepareStore, answers>>
      /\ OffChain

\* The wallet mode reads the counter lock() will take the tag from.
readNextTag(r) ==
  LET q == requests[r]
  IN  /\ q.pc = "tag"
      /\ requests' = [requests EXCEPT
           ![r] = [q EXCEPT !.pc = "sign", !.tag = nextDestinationTag]]
      /\ UNCHANGED <<currentRun, prepareStore, answers>>
      /\ OffChain

UnbufferedDrops == MIN_BLOCK_FXRP

BufferedDrops == (MIN_BLOCK_FXRP * XRPL_PAY_BUFFER_NUM) \div XRPL_PAY_BUFFER_DEN

XrplDestination(q) == IF OneClick(q) THEN DeskXrplAddress ELSE VisitorXrpl[q.visitor]

\* A fresh random match id, and the instruction signed for it.  The wallet mode
\* also writes the record /wallet/pay will pay from.
signInstruction(r) ==
  LET q == requests[r]
  IN  /\ q.pc = "sign"
      /\ \E id \in MatchIds \ UsedIds :
           /\ requests' = [requests EXCEPT ![r] =
                [q EXCEPT !.matchId = id,
                          !.pc = IF OneClick(q) THEN "lock" ELSE "answer",
                          !.expires = now + IF OneClick(q) THEN ONE_CLICK_DEADLINE
                                                           ELSE WALLET_MODE_DEADLINE]]
           /\ prepareStore' =
                IF OneClick(q) THEN prepareStore
                ELSE [prepareStore EXCEPT ![id] =
                       [destination |-> XrplDestination(q), xrpDrops |-> BufferedDrops,
                        destinationTag |-> q.tag, createdAt |-> now]]
      /\ UNCHANGED <<currentRun, answers>>
      /\ OffChain

Signed(visitor, id, price, expires) ==
  [matchId |-> id, escrow |-> EscrowAddr, taker |-> visitor, maker |-> DeskMaker,
   amountFxrp |-> MIN_BLOCK_FXRP, priceUsd18 |-> price,
   takerXrplAddress |-> XrplDestination([visitor |-> visitor]),
   instructionExpiresAt |-> expires]

sendLock(r) ==
  LET q == requests[r]
  IN  /\ q.pc = "lock"
      /\ lock(Signed(DeskTaker, q.matchId, q.mid, q.expires), OwnerKey, FTSO_FEE)
      /\ Go(r, "answer")
      /\ UNCHANGED <<currentRun, prepareStore, answers>>

AnswerCounterTag(q) ==
  [visitor |-> q.visitor, matchId |-> q.matchId, price |-> q.mid, expires |-> q.expires,
   tag |-> IF OneClick(q) THEN nextDestinationTag - 1 ELSE q.tag,
   drops |-> IF OneClick(q) THEN matches[q.matchId].xrpDrops ELSE BufferedDrops]

\* The values of the MatchLocked event, or of the prediction.
AnswerOf(q) ==
  LET oneClick == OneClick(q)
  IN  [visitor |-> q.visitor, matchId |-> q.matchId, price |-> q.mid, expires |-> q.expires,
       tag |-> IF oneClick THEN matches[q.matchId].destinationTag ELSE q.tag,
       drops |-> IF oneClick THEN matches[q.matchId].xrpDrops ELSE BufferedDrops]

answerRun(r) ==
  LET q == requests[r]
  IN  /\ q.pc = "answer"
      /\ attachMatchId(q.matchId)
      /\ answers' = answers \cup {AnswerOf(q)}
      /\ Done(r)
      /\ UNCHANGED prepareStore
      /\ OffChain

failRunKeepsLock(r) ==
  /\ requests[r].pc \in RunSteps
  /\ Done(r)
  /\ UNCHANGED <<currentRun, prepareStore, answers>>
  /\ OffChain

\* Any await of a run may throw: a node that does not answer, a transaction that
\* reverts, an empty reserve.  What has landed on chain stays there.
failRun(r) ==
  /\ requests[r].pc \in RunSteps
  /\ releaseRunLock
  /\ Done(r)
  /\ UNCHANGED <<prepareStore, answers>>
  /\ OffChain

(***************************************************************************)
(* POST /demo/pay pays the tag and the drops of its body, up to a ceiling,  *)
(* to the desk's own XRPL address: those the screen was answered, or any.   *)
(* POST /wallet/pay pays what the record says, as long as the record lives. *)
(* Both pay every time.                                                     *)
(***************************************************************************)
startPay(r, destination, tag, drops) ==
  /\ requests[r] = Idle
  /\ requests' = [requests EXCEPT ![r] =
       [Idle EXCEPT !.pc = "pay", !.destination = destination, !.tag = tag, !.amount = drops]]
  /\ UNCHANGED <<currentRun, answers>>
  /\ OffChain

PostedBodies == PayBodies \cup {[tag |-> a.tag, drops |-> a.drops] : a \in answers}

demoPay(r, body) ==
  /\ body.drops \in 1..MAX_XRP_DROPS
  /\ startPay(r, DeskXrplAddress, body.tag, body.drops)
  /\ UNCHANGED prepareStore

RecordExpired(id) == now - prepareStore[id].createdAt > PREPARE_RECORD_TTL

walletPay(r, id) ==
  LET rec == prepareStore[id]
  IN  /\ rec # NoRecord
      /\ \/ /\ ~RecordExpired(id)
            /\ startPay(r, rec.destination, rec.destinationTag, rec.xrpDrops)
            /\ UNCHANGED prepareStore
         \/ /\ RecordExpired(id)
            /\ requests[r] = Idle
            /\ prepareStore' = [prepareStore EXCEPT ![id] = NoRecord]
            /\ UNCHANGED <<currentRun, requests, answers>>
            /\ OffChain

\* payXrpl: submitted and validated, once.
payXrpl(r, tx) ==
  LET q == requests[r]
  IN  /\ q.pc = "pay"
      /\ XrplPay(tx, [source |-> EXPECTED_SOURCE_ID, status |-> 0,
                      receivingAddress |-> q.destination, hasDestinationTag |-> TRUE,
                      destinationTag |-> q.tag, receivedAmount |-> q.amount,
                      intendedReceivedAmount |-> q.amount], now)
      /\ Done(r)
      /\ UNCHANGED <<currentRun, prepareStore, answers>>

\* POST /demo/attest asks the FDC for a proof made out to the escrow.
attest(tx) == FdcAttest(tx, EscrowAddr) /\ UNCHANGED serverVars

(***************************************************************************)
(* POST /demo/release and POST /demo/refund.  The transaction first, then  *)
(* the run lock, whoever holds it by then.                                 *)
(***************************************************************************)
conclude(r, id) ==
  requests' = [requests EXCEPT ![r] = [Idle EXCEPT !.pc = "conclude", !.matchId = id]]

sendRelease(r, id, tx) ==
  /\ requests[r] = Idle
  /\ release(id, tx, EscrowAddr)
  /\ conclude(r, id)
  /\ UNCHANGED <<currentRun, prepareStore, answers>>

RefundDue(id) == now > matches[id].refundAfter + REFUND_GRACE

\* The deadline is read first; before it the answer is notYet and nothing is sent.
readDeadline(r, id) ==
  /\ requests[r] = Idle
  /\ matches[id].state # "None"
  /\ RefundDue(id)
  /\ requests' = [requests EXCEPT ![r] = [Idle EXCEPT !.pc = "refund", !.matchId = id]]
  /\ UNCHANGED <<currentRun, prepareStore, answers>>
  /\ OffChain

sendRefund(r) ==
  /\ requests[r].pc = "refund"
  /\ refund(requests[r].matchId)
  /\ conclude(r, requests[r].matchId)
  /\ UNCHANGED <<currentRun, prepareStore, answers>>

concludeRun(r) ==
  /\ requests[r].pc = "conclude"
  /\ releaseRunLock
  /\ Done(r)
  /\ UNCHANGED <<prepareStore, answers>>
  /\ OffChain

\* A payment or a refund that is not sent, or that reverts: the lock is kept.
failSettling(r) ==
  /\ requests[r].pc \in Steps \ RunSteps
  /\ Done(r)
  /\ UNCHANGED <<currentRun, prepareStore, answers>>
  /\ OffChain

\* The process is restarted or the platform starts a cold one.
restart ==
  /\ currentRun' = NoRun
  /\ prepareStore' = [id \in MatchIds |-> NoRecord]
  /\ requests' = [r \in Requests |-> Idle]
  /\ UNCHANGED answers
  /\ OffChain

-----------------------------------------------------------------------------
(***************************************************************************)
(* The visitors, with what the server has told them, and everybody else:   *)
(* the owner who wires the contracts, whoever calls refund, time, prices.  *)
(***************************************************************************)
VisitorDeposits ==
  \E a \in answers :
    /\ a.visitor \in Visitors
    /\ deposit(a.visitor, MIN_BLOCK_FXRP, a.expires)
    /\ UNCHANGED serverVars

VisitorLocks ==
  \E a \in answers :
    /\ a.visitor \in Visitors
    /\ lock(Signed(a.visitor, a.matchId, a.price, a.expires), OwnerKey, FTSO_FEE)
    /\ UNCHANGED serverVars

ServerStep ==
  \E r \in Requests :
    \/ \E v \in Visitors \cup {DeskTaker} : startRun(r, v)
    \/ readDeposit(r) \/ ensureFxrpBalance(r) \/ topUp(r) \/ depositMissing(r)
    \/ readLiveFtsoMid(r) \/ readNextTag(r) \/ signInstruction(r) \/ sendLock(r)
    \/ answerRun(r) \/ failRun(r)
    \/ \E body \in PostedBodies : demoPay(r, body)
    \/ \E id \in MatchIds : walletPay(r, id) \/ readDeadline(r, id)
    \/ \E tx \in TxIds : payXrpl(r, tx)
    \/ \E id \in MatchIds, tx \in TxIds : sendRelease(r, id, tx)
    \/ sendRefund(r) \/ concludeRun(r) \/ failSettling(r)

OutsideStep ==
  \/ VisitorDeposits \/ VisitorLocks
  \/ \E tx \in TxIds : attest(tx)
  \/ /\ \/ setEscrow(EscrowAddr) /\ Unescrowed
        \/ RefundStep
        \/ Tick
        \/ \E mid \in Mids : OracleUpdate(mid)
     /\ UNCHANGED serverVars

DeskNext == ServerStep \/ restart \/ OutsideStep

DeskSpec == DeskInit /\ [][DeskNext]_deskVars

-----------------------------------------------------------------------------
(***************************************************************************)
(* Properties.                                                             *)
(***************************************************************************)

\* A lock that no match is attached to belongs to a run still in its handler:
\* state.ts:43-45, "so a failed attempt doesn't block the next try for the full
\* TTL".  Every way out of a run either attaches an id or releases, even when the
\* current run is by then another one.
LockNotOrphaned ==
  currentRun # NoRun /\ currentRun.matchId = NoId =>
    \E r \in Requests : requests[r].pc \in RunSteps

\* What /wallet/pay will send covers what lock() turned out to ask for, however
\* the price moved between the two: the 2% buffer against the 1% band of
\* wallet-mode.ts:142-154.
PayCoversMatch ==
  \A id \in MatchIds :
    prepareStore[id] # NoRecord /\ matches[id].state # "None" =>
      /\ prepareStore[id].xrpDrops >= matches[id].xrpDrops
      /\ prepareStore[id].destination = matches[id].takerXrplAddress

\* What a one-click visitor was answered is what the contract holds, however many
\* runs have locked in between: a payment made from the answer in time settles
\* that match.
AnswersMatchChain ==
  \A a \in answers :
    a.visitor = DeskTaker =>
      /\ matches[a.matchId].state # "None"
      /\ a.tag = matches[a.matchId].destinationTag
      /\ a.drops = matches[a.matchId].xrpDrops
      /\ matches[a.matchId].takerXrplAddress = DeskXrplAddress

\* wallet-mode.ts:268-272: between reading the counter and the visitor's own lock
\* "no other lock() call (one-click OR wallet mode) can land [...] so the counter
\* cannot have moved", which is why the predicted tag is the one that is paid.
TagAsPredicted ==
  \A id \in MatchIds :
    prepareStore[id] # NoRecord /\ matches[id].state # "None" =>
      prepareStore[id].destinationTag = matches[id].destinationTag
=============================================================================
