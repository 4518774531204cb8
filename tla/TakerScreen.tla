----------------------------- MODULE TakerScreen -----------------------------
(***************************************************************************)
(* web/src/components/WalletMode.tsx: the screen of a taker, who trades    *)
(* against the desk (prepare, approve, deposit, lock, then the settlement) *)
(* or publishes an order for the makers, or both at once.  Handlers are    *)
(* split at their awaits as in MakerScreen.                                *)
(***************************************************************************)
EXTENDS WalletAccount

VARIABLE taker   \* the component state of each tab

TakerState == [mounted : BOOLEAN, enabled : BOOLEAN, funded : BOOLEAN,
               xrplAddress : BOOLEAN, terms : BOOLEAN,
               publishStage : {"idle", "approving", "depositing", "submitting", "waiting"},
               publishedRfqId : Deals \cup {None}, fill : BOOLEAN,
               s4 : {"idle", "preparing", "approve", "deposit", "lock", "done"}, s4Error : BOOLEAN,
               prepareData : Deals \cup {None}, matchId : Deals \cup {None},
               s5 : {"idle", "paying", "attesting", "proving", "releasing", "balance", "done"},
               s5Error : BOOLEAN, xrplPayTx : Deals \cup {None},
               attestRound : Deals \cup {None}, proofData : Deals \cup {None}]

NewTaker ==
  [xrplAddress |-> FALSE, terms |-> FALSE,
   publishStage |-> "idle", publishedRfqId |-> None, fill |-> FALSE,
   s4 |-> "idle", s4Error |-> FALSE, prepareData |-> None, matchId |-> None,
   s5 |-> "idle", s5Error |-> FALSE, xrplPayTx |-> None, attestRound |-> None, proofData |-> None]

T(t) == taker[t]

\* Setting the state of a component that is gone does nothing.
ShowTaker(t, changes) == taker' = [taker EXCEPT ![t] = IF @.mounted THEN changes @@ @ ELSE @]

takerStep(t) == IF ~account[t] \/ ~T(t).funded THEN 0
                ELSE IF ~T(t).xrplAddress THEN 1
                ELSE IF T(t).s4 # "done" THEN 2 ELSE 3

\* MUTANT of walletBusy: the settlement is not busy.
walletBusyUntilLocked(t) == Awaiting(t, {"generate"}) \/ T(t).s4 \notin {"idle", "done"}

\* Publishing is not among what keeps the screen busy.
walletBusy(t) == \/ Awaiting(t, {"generate"})
                 \/ T(t).s4 \notin {"idle", "done"} \/ T(t).s5 \notin {"idle", "done"}

TakerThere(t) == T(t).mounted /\ T(t).enabled
TakerShown(t, steps) == TakerThere(t) /\ takerStep(t) \in steps

TakerPresses(t, at, d, w, changes) == Ask(t, at, d, w) /\ ShowTaker(t, changes) /\ UNCHANGED world

TakerGoesOn(t, c, changes, at, d, w) == ShowTaker(t, changes) /\ Then(t, c, at, d, w)
TakerStops(t, c, changes) == ShowTaker(t, changes) /\ Finish(t, c)
TakerSleeps(t, c, changes) == TakerStops(t, c, changes @@ [enabled |-> FALSE]) /\ UNCHANGED world

-----------------------------------------------------------------------------
(***************************************************************************)
(* Step 1: where the XRP is to land.                                       *)
(***************************************************************************)
pressTakerGas(t) == handleGas(t, T(t)) /\ ShowTaker(t, [enabled |-> FALSE])

usePastedAddress(t) == /\ TakerShown(t, {1}) /\ ShowTaker(t, [xrplAddress |-> TRUE])
                       /\ UNCHANGED <<world, calls>>

pressGenerate(t) == TakerShown(t, {1}) /\ TakerPresses(t, "generate", None, None, <<>>)

generateXrplAccount(t) ==
  \E c \in Awaited(t, "generate") :
    \/ /\ generateAndFundXrplAccount
       /\ TakerStops(t, c, [xrplAddress |-> TRUE]) \/ TakerStops(t, c, <<>>)
    \/ TakerSleeps(t, c, <<>>)

(***************************************************************************)
(* The open desk: the order is approved, deposited, sealed, submitted and  *)
(* confirmed, and a failure anywhere starts over.                          *)
(***************************************************************************)
readTerms(t) == /\ T(t).mounted /\ T(t).xrplAddress /\ ~T(t).terms /\ T(t).publishedRfqId = None
                /\ buildTakerRfqTerms /\ ShowTaker(t, [terms |-> TRUE]) /\ UNCHANGED calls

\* What the handler looks at before it spends a popup; the bounds of size and limit are abstracted.
mayPublish(t) == account[t] /\ T(t).xrplAddress /\ T(t).terms

pressPublish(t) == /\ TakerThere(t) /\ mayPublish(t)
                   /\ T(t).publishedRfqId = None /\ T(t).publishStage = "idle"
                   /\ TakerPresses(t, "orderApprove", None, None, [publishStage |-> "approving"])

notPublished == [publishStage |-> "idle"]

orderApproved(t) ==
  \E c \in Awaited(t, "orderApprove") :
    /\ sendApprove
    /\ \/ TakerGoesOn(t, c, [publishStage |-> "depositing"], "orderDeposit", None, None)
       \/ TakerStops(t, c, notPublished)

orderDeposited(t) ==
  \E c \in Awaited(t, "orderDeposit") :
    \/ deposit(t) /\ TakerGoesOn(t, c, [publishStage |-> "submitting"], "publish", None, None)
    \/ Fails(deposit(t)) /\ TakerStops(t, c, notPublished)

orderSealed(t) ==
  \E c \in Awaited(t, "publish") :
    \/ publish /\ TakerGoesOn(t, c, <<>>, "submitRfq", None, None)
    \/ publish /\ TakerStops(t, c, notPublished)
    \/ TakerSleeps(t, c, notPublished)

orderSubmitted(t) ==
  \E c \in Awaited(t, "submitRfq"), d \in Deals :
    \/ submitRfq(t, d) /\ TakerGoesOn(t, c, <<>>, "confirm", d, None)
    \/ Fails(submitRfq(t, d)) /\ TakerStops(t, c, notPublished)

orderConfirmed(t) ==
  \E c \in Awaited(t, "confirm") :
    \/ confirm(c.deal) /\ TakerStops(t, c, [publishedRfqId |-> c.deal, publishStage |-> "waiting"])
    \/ Fails(confirm(c.deal)) /\ TakerStops(t, c, notPublished)

\* Filled is what the escrow says.
filled(d) == deal[d].phase # "sealed"

watchFill(t) == /\ T(t).mounted /\ T(t).publishedRfqId # None /\ ~T(t).fill
                /\ filled(T(t).publishedRfqId)
                /\ ShowTaker(t, [fill |-> TRUE]) /\ UNCHANGED <<world, calls>>

(***************************************************************************)
(* Step 2: the trade with the desk, resumed at the transaction that failed.*)
(***************************************************************************)
s4Failed == [s4Error |-> TRUE]

pressPrepare(t) == /\ TakerShown(t, {2}) /\ T(t).s4 = "idle"
                   /\ TakerPresses(t, "prepare", None, None, [s4 |-> "preparing", s4Error |-> FALSE])

runPrepare(t) ==
  \E c \in Awaited(t, "prepare"), d \in Deals :
    \/ /\ prepare(t, d)
       /\ TakerGoesOn(t, c, [prepareData |-> d, matchId |-> d, s4 |-> "approve", s4Error |-> FALSE],
                      "approve", d, None)
    \/ Fails(prepare(t, d)) /\ TakerStops(t, c, [s4 |-> "idle", s4Error |-> TRUE])
    \/ TakerStops(t, c, [s4 |-> "idle"]) /\ UNCHANGED world   \* somebody holds the run lock
    \/ TakerSleeps(t, c, [s4 |-> "idle"])

retryTransaction(t) ==
  \E at \in {"approve", "deposit", "lock"} :
    /\ TakerShown(t, {2}) /\ T(t).s4 = at /\ T(t).s4Error
    /\ TakerPresses(t, at, T(t).prepareData, None, [s4Error |-> FALSE])

runApprove(t) ==
  \E c \in Awaited(t, "approve") :
    /\ sendApprove
    /\ \/ TakerGoesOn(t, c, [s4 |-> "deposit", s4Error |-> FALSE], "deposit", c.deal, None)
       \/ TakerStops(t, c, s4Failed)

runDeposit(t) ==
  \E c \in Awaited(t, "deposit") :
    \/ deposit(t) /\ TakerGoesOn(t, c, [s4 |-> "lock", s4Error |-> FALSE], "lock", c.deal, None)
    \/ Fails(deposit(t)) /\ TakerStops(t, c, s4Failed)

runLock(t) ==
  \E c \in Awaited(t, "lock") :
    \/ lock(t, c.deal) /\ TakerStops(t, c, [s4 |-> "done"])
    \/ Fails(lock(t, c.deal)) /\ TakerStops(t, c, s4Failed)

(***************************************************************************)
(* Step 3: the settlement, resumed at the stage that failed.               *)
(***************************************************************************)
\* MUTANT of s5Failed: whatever failed, the settlement starts over.
s5FailedStartsOver == [s5 |-> "paying", s5Error |-> TRUE]

\* MUTANT of s5Failed: the error is logged, and not kept.
s5FailedUnseen == [s5Error |-> FALSE]

s5Failed == [s5Error |-> TRUE]

pressPay(t) ==
  /\ TakerShown(t, {3}) /\ (T(t).s5 = "idle" \/ (T(t).s5 = "paying" /\ T(t).s5Error))
  /\ T(t).matchId # None
  /\ TakerPresses(t, "wallet-pay", T(t).matchId, None, [s5 |-> "paying", s5Error |-> FALSE])

retrySettlement(t, stage, at, data) ==
  /\ TakerShown(t, {3}) /\ T(t).s5 = stage /\ T(t).s5Error
  /\ TakerPresses(t, at, T(t).matchId, data, [s5Error |-> FALSE])

\* MUTANT of paid: the transaction is not kept for the retries.
paidUnsaved(d) == [s5 |-> "attesting", s5Error |-> FALSE]

\* The transaction of the payment is kept for the retries of what follows.
paid(d) == [s5 |-> "attesting", s5Error |-> FALSE, xrplPayTx |-> d]

\* A server that does not know the match any more makes the screen forget it too.
prepareAgain == [s5 |-> "idle", s5Error |-> TRUE, s4 |-> "idle", prepareData |-> None, matchId |-> None]

runPay(t) ==
  \E c \in Awaited(t, "wallet-pay") :
    \/ /\ walletPay(c.deal)
       /\ TakerGoesOn(t, c, paid(c.deal), "attest", c.deal, c.deal)
    \/ forgotten(c.deal) /\ TakerStops(t, c, prepareAgain)
    \/ Fails(walletPay(c.deal)) /\ TakerStops(t, c, s5Failed)
    \/ TakerSleeps(t, c, [s5 |-> "idle"])

\* The proof is asked for only while the screen is there.
takerPollsProof(t, c) ==
  T(t).mounted /\ TakerGoesOn(t, c, [s5 |-> "proving", s5Error |-> FALSE, attestRound |-> c.with],
                             "taker-proof", c.deal, c.with)

runAttest(t) ==
  \E c \in Awaited(t, "attest") :
    \/ attest(c.with) /\ takerPollsProof(t, c)
    \/ Answers /\ TakerStops(t, c, s5Failed)

runProve(t) ==
  \E c \in Awaited(t, "taker-proof") :
    /\ proofRoute
    /\ \/ TakerGoesOn(t, c, [s5 |-> "releasing", s5Error |-> FALSE, proofData |-> c.with],
                      "release", c.deal, c.with)
       \/ TakerStops(t, c, s5Failed)

runRelease(t) ==
  \E c \in Awaited(t, "release") :
    \/ release(c.deal, c.with) /\ TakerGoesOn(t, c, [s5 |-> "balance"], "taker-balance", c.deal, None)
    \/ Fails(release(c.deal, c.with)) /\ TakerStops(t, c, s5Failed)

\* It ends when the balance has grown, and at the cap too.
pollFinalXrplBalance == getXrplBalance

runBalance(t) == \E c \in Awaited(t, "taker-balance") :
                   pollFinalXrplBalance /\ TakerStops(t, c, [s5 |-> "done"])

-----------------------------------------------------------------------------
Retries(t) == \/ retryTransaction(t)
              \/ retrySettlement(t, "attesting", "attest", T(t).xrplPayTx)
              \/ retrySettlement(t, "proving", "taker-proof", T(t).attestRound)
              \/ retrySettlement(t, "releasing", "release", T(t).proofData)

TakerPress(t) == \/ pressTakerGas(t) \/ usePastedAddress(t) \/ pressGenerate(t) \/ pressPublish(t) \/ pressPrepare(t)
                 \/ pressPay(t) \/ Retries(t)

TakerAnswer(t) == \/ generateXrplAccount(t) \/ readTerms(t) \/ orderApproved(t) \/ orderDeposited(t)
                  \/ orderSealed(t) \/ orderSubmitted(t) \/ orderConfirmed(t) \/ watchFill(t)
                  \/ runPrepare(t) \/ runApprove(t) \/ runDeposit(t) \/ runLock(t)
                  \/ runPay(t) \/ runAttest(t) \/ runProve(t) \/ runRelease(t) \/ runBalance(t)
=============================================================================
