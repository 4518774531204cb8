------------------------------- MODULE Console -------------------------------
(***************************************************************************)
(* web/src/components/DemoConsole.tsx and DeskHome.tsx: the desk of one or *)
(* several tabs.  Opening a trade mounts a screen, which starts from       *)
(* nothing; leaving it unmounts the screen, whose state is lost, while     *)
(* what its handlers were doing runs on.                                   *)
(***************************************************************************)
EXTENDS MakerScreen, TakerScreen

CONSTANT MAX_LOSSES   \* bound: how often a tab loses its account, by itself or by "disconnect"

ASSUME ConsoleAssumption == MAX_LOSSES \in Nat

VARIABLE desk   \* what each tab's console keeps, and how often it lost its account

screens == <<taker, maker>>
vars == <<world, calls, account, taker, maker, desk>>

Modes == {"closed", "wallet", "maker"}   \* the trade that is open, if one is
Console == [mode : Modes, lastWalletBusy : BOOLEAN, lastMakerBusy : BOOLEAN,
            losses : 0..MAX_LOSSES]

ConsoleInit ==
  /\ ApiInit
  /\ account \in [Tabs -> BOOLEAN]
  /\ taker = [t \in Tabs |-> Absent @@ NewTaker]
  /\ maker = [t \in Tabs |-> Absent @@ NewMaker]
  /\ desk = [t \in Tabs |-> [mode |-> "closed", lastWalletBusy |-> FALSE, lastMakerBusy |-> FALSE,
                             losses |-> 0]]

\* A screen reports while it is mounted; what it said last stays.
reportedWalletBusy(t) == IF T(t).mounted THEN walletBusy(t) ELSE desk[t].lastWalletBusy
reportedMakerBusy(t) == IF M(t).mounted THEN makerBusy(t) ELSE desk[t].lastMakerBusy
switcherDisabled(t) == reportedWalletBusy(t) \/ reportedMakerBusy(t)

Opens(t, mode) ==
  /\ desk' = [desk EXCEPT ![t] = [mode |-> mode, lastWalletBusy |-> reportedWalletBusy(t),
                                  lastMakerBusy |-> reportedMakerBusy(t),
                                  losses |-> @.losses + IF mode = "closed" THEN 1 ELSE 0]]
  /\ \E shown \in FreshAccount :
       /\ taker' = [taker EXCEPT ![t] = (IF mode = "wallet" THEN shown ELSE Absent) @@ NewTaker]
       /\ maker' = [maker EXCEPT ![t] = (IF mode = "maker" THEN shown ELSE Absent) @@ NewMaker]
  /\ UNCHANGED <<world, calls>>

-----------------------------------------------------------------------------
\* "Write an order" is there when no trade is open.
\* Bound: a trade is opened again once nothing that the last one asked for is awaited.
placeOrder(t) == /\ account[t] /\ desk[t].mode = "closed" /\ calls[t] = {}
                 /\ Opens(t, "wallet") /\ UNCHANGED account

\* "Quote it" is there beside an order, and does nothing mid-settlement.
openOrders == {d \in Deals : queued(d)}

fillOrder(t) == /\ account[t] /\ openOrders # {}
                /\ \/ desk[t].mode = "closed" /\ calls[t] = {}
                   \/ desk[t].mode = "wallet" /\ ~switcherDisabled(t)
                /\ Opens(t, "maker") /\ UNCHANGED account

disconnect(t) == /\ account[t] /\ desk[t].losses < MAX_LOSSES
                 /\ account' = [account EXCEPT ![t] = FALSE]
                 /\ Opens(t, "closed")

\* The wallet takes the account away by itself: whatever is mounted stays.
accountVanishes(t) == /\ account[t] /\ desk[t].losses < MAX_LOSSES
                      /\ account' = [account EXCEPT ![t] = FALSE]
                      /\ desk' = [desk EXCEPT ![t].losses = @ + 1]
                      /\ UNCHANGED <<world, calls, screens>>

\* The gate of the ticket, or the reconnect card of a screen, or the wallet by itself.
connects(t) == /\ IF desk[t].mode = "closed"
                  THEN ~account[t] /\ account' = [account EXCEPT ![t] = TRUE]
                       /\ UNCHANGED <<world, calls, screens>>
                  ELSE \E status \in StatusRead :
                         \/ accountAppears(t, T(t)) /\ ShowTaker(t, status) /\ UNCHANGED maker
                         \/ accountAppears(t, M(t)) /\ ShowMaker(t, status) /\ UNCHANGED taker
               /\ UNCHANGED desk

Screens(t) == /\ \/ (TakerPress(t) \/ TakerAnswer(t)) /\ UNCHANGED maker
                 \/ (MakerPress(t) \/ MakerAnswer(t) \/ paysByHand(t)) /\ UNCHANGED taker
              /\ UNCHANGED <<account, desk>>

TimePasses == (\E d \in Deals : Elapse(d)) /\ UNCHANGED <<account, screens, desk>>

Next == \/ \E t \in Tabs : \/ placeOrder(t) \/ fillOrder(t) \/ disconnect(t)
                           \/ accountVanishes(t) \/ connects(t) \/ Screens(t)
        \/ TimePasses

Spec == ConsoleInit /\ [][Next]_vars

-----------------------------------------------------------------------------
ScreensTypeOK == /\ ApiTypeOK
                 /\ account \in [Tabs -> BOOLEAN] /\ desk \in [Tabs -> Console]
                 /\ taker \in [Tabs -> TakerState] /\ maker \in [Tabs -> MakerState]

-----------------------------------------------------------------------------
(***************************************************************************)
(* Properties.                                                             *)
(***************************************************************************)

\* What the trade with the desk awaits.
TradeCalls == {"prepare", "approve", "deposit", "lock", "wallet-pay", "attest", "taker-proof", "release",
               "taker-balance"}

TakerStalls(t) ==
  \/ T(t).s4 = "done" /\ T(t).matchId = None
  \/ T(t).s4 \notin {"idle", "done"} /\ ~T(t).s4Error /\ ~Awaiting(t, TradeCalls)
  \/ T(t).s5 \notin {"idle", "done"} /\ (~T(t).s5Error \/ T(t).s5 = "balance")
       /\ ~Awaiting(t, TradeCalls)
  \/ T(t).publishStage \notin {"idle", "waiting"}
       /\ ~Awaiting(t, {"orderApprove", "orderDeposit", "publish", "submitRfq", "confirm"})

MakerStalls(t) ==
  \/ M(t).s3 = "opening" /\ ~Awaiting(t, {"open-rfq", "join-rfq"})
  \/ M(t).s3 \in {"bondApprove", "depositBond"} /\ ~(M(t).s3Error /\ M(t).rfqData # None)
       /\ ~Awaiting(t, {"bondApprove", "depositBond"})
  \/ M(t).s4 \notin {"idle", "done"} /\ ~Awaiting(t, {"sign", "quote"})
  \/ M(t).matching /\ ~Awaiting(t, {"match"})
  \/ M(t).s6 \notin {"idle", "done"} /\ ~Awaiting(t, {"xrpl-account", "maker-pay", "payment-status"})
  \/ M(t).s6 = "idle" /\ M(t).payMethod # "none" /\ ~M(t).s6Error /\ ~paymentExpired(t)
       /\ ~M(t).slept
  \/ M(t).s7 \notin {"idle", "done"} /\ (~M(t).s7Error \/ M(t).s7 = "balance")
       /\ ~Awaiting(t, {"settle", "maker-proof", "maker-release", "maker-balance"})

\* No stage of a screen is a dead end (WalletMode.tsx:272 "each stage is resumable
\* independently"): while one is under way something is awaited, or a retry is
\* offered, whatever failed, was answered out of turn or was pressed meanwhile.  Only
\* a payment that the server slept through has neither, when the screen is awake again.
NothingStalls ==
  \A t \in Tabs : /\ T(t).mounted /\ T(t).enabled => ~TakerStalls(t)
                  /\ M(t).mounted /\ M(t).enabled => ~MakerStalls(t)

\* A retry has what its stage needs (the "!" of prepareData!, xrplPayTx! and
\* attestRound!), and it is of the match on the screen: nothing of an earlier match,
\* which the server has forgotten, or of another request is ever sent again.
RetryIsOfTheMatch ==
  \A t \in Tabs :
    LET w == T(t)  m == M(t) IN
    /\ w.s4Error /\ w.s4 # "idle" => w.prepareData = w.matchId /\ w.matchId # None
    /\ w.s5Error /\ w.s5 # "idle" =>
         /\ w.matchId # None
         /\ w.s5 # "paying" => w.xrplPayTx = w.matchId
         /\ w.s5 \in {"proving", "releasing"} => w.attestRound = w.matchId
         /\ w.s5 = "releasing" => w.proofData = w.matchId
    /\ m.s7Error /\ m.s7 # "idle" =>
         /\ m.matchId # None
         /\ m.s7 \in {"proving", "releasing"} => m.attestRound = m.matchId
         /\ m.s7 = "releasing" => m.proofData = m.matchId

\* What a screen has heard to succeed it does not ask for again, for the same match, by
\* a retry or by an answer that comes out of turn (WalletMode.tsx:272-273 "retrying never
\* re-sends a step that already succeeded"): no second payment, attestation or release.
HeardIsNotSentAgain ==
  \A t \in Tabs : \A c \in calls[t] :
    LET w == T(t)  m == M(t) IN
    /\ c.at = "lock" => w.s4 # "done"
    /\ c.at = "wallet-pay" => w.xrplPayTx # c.deal
    /\ c.at = "attest" => w.attestRound # c.deal
    /\ c.at = "taker-proof" => w.proofData # c.deal
    /\ c.at = "release" => w.s5 \notin {"balance", "done"}
    /\ c.at \in {"xrpl-account", "maker-pay", "payment-status"} => m.s6 # "done"
    /\ c.at = "settle" => m.attestRound # c.deal
    /\ c.at = "maker-proof" => m.proofData # c.deal
    /\ c.at = "maker-release" => m.s7 \notin {"balance", "done"}

\* A screen that says "settled" shows a match that was released, not one that was
\* refunded or that it only hopes for.
SettledMeansReleased ==
  \A t \in Tabs : /\ T(t).s5 \in {"balance", "done"} => deal[T(t).matchId].phase = "released"
                  /\ M(t).s7 \in {"balance", "done"} => deal[M(t).matchId].phase = "released"

\* "Quote it" never takes away the screen of a trade that is waiting for the wallet or
\* the server (DemoConsole.tsx:773), although busyness reaches the desk by a callback.
QuoteItWaitsForTheTrade ==
  [][\A t \in Tabs : T(t).mounted /\ maker'[t].mounted => ~Awaiting(t, TradeCalls)]_vars

\* The maker who is asked to pay is the one whose FXRP it buys (MakerMode.tsx:18-20 "If
\* the enclave crosses the quote, the judge pays the XRP leg and watches their own
\* wallet receive the released FXRP").
PayerIsTheMaker ==
  \A t \in Tabs : M(t).matchId # None => deal[M(t).matchId].maker = t
=============================================================================
