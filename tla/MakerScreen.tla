----------------------------- MODULE MakerScreen -----------------------------
(***************************************************************************)
(* web/src/components/MakerMode.tsx: the screen of a maker, from taking a  *)
(* request to the settlement.  A handler is split at its awaits: pressing  *)
(* a button sets a stage and asks for something, the answer sets the next  *)
(* stage and may ask on.  Every handler runs to its end whatever else is   *)
(* pressed meanwhile, and whether or not the screen is still mounted.      *)
(***************************************************************************)
EXTENDS WalletAccount

VARIABLE maker   \* the component state of each tab

MakerState == [mounted : BOOLEAN, enabled : BOOLEAN, funded : BOOLEAN,
               s3 : {"idle", "opening", "bondApprove", "depositBond", "done"}, s3Error : BOOLEAN,
               rfqData : Deals \cup {None},
               s4 : {"idle", "signing", "submitting", "done"}, quoteAccepted : BOOLEAN,
               nonce : 1..MAX_NONCE + 1,
               matching : BOOLEAN, matchId : Deals \cup {None},
               payMethod : {"none", "auto", "manual"},
               s6 : {"idle", "funding", "paying", "polling", "done"}, s6Error : BOOLEAN,
               slept : BOOLEAN,   \* history: the server was asleep for a payment
               s7 : {"idle", "settling", "proving", "releasing", "balance", "done"},
               s7Error : BOOLEAN, attestRound : Deals \cup {None}, proofData : Deals \cup {None}]

\* useState and useRef of a component that has just mounted.
NewMaker ==
  [s3 |-> "idle", s3Error |-> FALSE, rfqData |-> None,
   s4 |-> "idle", quoteAccepted |-> FALSE, nonce |-> 1,
   matching |-> FALSE, matchId |-> None, payMethod |-> "none",
   s6 |-> "idle", s6Error |-> FALSE, slept |-> FALSE,
   s7 |-> "idle", s7Error |-> FALSE, attestRound |-> None, proofData |-> None]

M(t) == maker[t]

\* Setting the state of a component that is gone does nothing.
ShowMaker(t, changes) == maker' = [maker EXCEPT ![t] = IF @.mounted THEN changes @@ @ ELSE @]

paymentExpired(t) == M(t).s6 # "done" /\ M(t).matchId # None /\ deal[M(t).matchId].closed
rfqExpired(t) == M(t).rfqData # None /\ ~deal[M(t).rfqData].quoting /\ M(t).s3 # "done"

makerStep(t) == IF ~account[t] \/ ~M(t).funded THEN 0
                ELSE IF M(t).s3 # "done" THEN 1
                ELSE IF ~M(t).quoteAccepted THEN 2
                ELSE IF M(t).matchId = None THEN 3
                ELSE IF M(t).s6 # "done" THEN 4 ELSE 5

makerBusy(t) == \/ M(t).s3 \notin {"idle", "done"} \/ M(t).s4 \notin {"idle", "done"}
                \/ M(t).matching
                \/ M(t).s6 \notin {"idle", "done"} \/ M(t).s7 \notin {"idle", "done"}

\* Nothing can be pressed on a screen that is not there, or that says the mode is sleeping.
MakerThere(t) == M(t).mounted /\ M(t).enabled
MakerShown(t, steps) == MakerThere(t) /\ makerStep(t) \in steps

MakerPresses(t, at, d, w, changes) == Ask(t, at, d, w) /\ ShowMaker(t, changes) /\ UNCHANGED world

\* The three ways an answer is taken: the handler goes on, stops, or (a 503) says it is asleep.
MakerGoesOn(t, c, changes, at, d, w) == ShowMaker(t, changes) /\ Then(t, c, at, d, w)
MakerStops(t, c, changes) == ShowMaker(t, changes) /\ Finish(t, c)
MakerSleeps(t, c, changes) == MakerStops(t, c, changes @@ [enabled |-> FALSE]) /\ UNCHANGED world

-----------------------------------------------------------------------------
(***************************************************************************)
(* Step 1: a request to quote, the approval and the bond.                  *)
(***************************************************************************)
opening == [s3 |-> "opening", s3Error |-> FALSE]
s3Failed == [s3Error |-> TRUE]

pressGas(t) == handleGas(t, M(t)) /\ ShowMaker(t, [enabled |-> FALSE])

pressOpenRfq(t) == /\ MakerShown(t, {1}) /\ M(t).s3 = "idle"
                   /\ MakerPresses(t, "open-rfq", None, None, opening)

openNewRfq(t) == /\ MakerThere(t) /\ account[t] /\ rfqExpired(t)
                 /\ MakerPresses(t, "open-rfq", None, None, opening)

\* The queue at the side, which asks only that no request has been taken yet.
pressJoinRfq(t, d) == /\ MakerShown(t, 1..5) /\ M(t).rfqData = None /\ queued(d)
                      /\ MakerPresses(t, "join-rfq", d, None, opening)

takesRfq(t, c, d) == MakerGoesOn(t, c, [rfqData |-> d, s3 |-> "bondApprove", s3Error |-> FALSE],
                                 "bondApprove", d, None)

runOpenRfq(t) ==
  \E c \in Awaited(t, "open-rfq"), d \in Deals :
    \/ openRfq(d) /\ takesRfq(t, c, d)
    \/ Fails(openRfq(d)) /\ MakerStops(t, c, [s3 |-> "idle", s3Error |-> TRUE])
    \/ MakerStops(t, c, [s3 |-> "idle"]) /\ UNCHANGED world   \* somebody holds the run lock
    \/ MakerSleeps(t, c, [s3 |-> "idle"])

runJoinRfq(t) ==
  \E c \in Awaited(t, "join-rfq") :
    \/ joinRfq(c.deal) /\ takesRfq(t, c, c.deal)
    \/ Answers /\ MakerStops(t, c, [s3 |-> "idle", s3Error |-> TRUE])
    \/ MakerSleeps(t, c, [s3 |-> "idle"])

retryBond(t) == \E at \in {"bondApprove", "depositBond"} :
  /\ MakerShown(t, {1}) /\ M(t).s3 = at /\ M(t).s3Error
  /\ MakerPresses(t, at, M(t).rfqData, None, [s3Error |-> FALSE])

runMakerApprove(t) ==
  \E c \in Awaited(t, "bondApprove") :
    /\ sendApprove
    /\ \/ MakerGoesOn(t, c, [s3 |-> "depositBond", s3Error |-> FALSE], "depositBond", c.deal, None)
       \/ MakerStops(t, c, s3Failed)

\* The status is read again once the bond is posted; a balance of zero takes the maker to step 0.
refreshMakerStatus == MakerStatus \cup {<<>>}

runDepositBond(t) ==
  \E c \in Awaited(t, "depositBond") :
    \/ depositBond(t) /\ \E status \in refreshMakerStatus : MakerStops(t, c, [s3 |-> "done"] @@ status)
    \/ Fails(depositBond(t)) /\ MakerStops(t, c, s3Failed)

(***************************************************************************)
(* Step 2: the quote.                                                      *)
(***************************************************************************)
pressQuote(t) == /\ MakerShown(t, {2}) /\ M(t).s4 \in {"idle", "done"} /\ M(t).rfqData # None
                 /\ M(t).nonce <= MAX_NONCE
                 /\ MakerPresses(t, "sign", M(t).rfqData, M(t).nonce, [s4 |-> "signing"])

\* The wallet signs what the desk's domain and fields say.
signsQuote == Answers

quoteSigned(t) ==
  \E c \in Awaited(t, "sign") :
    /\ signsQuote
    /\ \/ MakerGoesOn(t, c, [s4 |-> "submitting"], "quote", c.deal, c.with)
       \/ MakerStops(t, c, [s4 |-> "idle"])

\* MUTANT of runQuote: the nonce counts the signature and the answer.
runQuoteCountsBoth(t) ==
  \E c \in Awaited(t, "quote") :
    \/ /\ submitQuote(t, c.deal, c.with)
       /\ MakerStops(t, c, [s4 |-> "done", quoteAccepted |-> TRUE, nonce |-> c.with + 2])
    \/ Fails(submitQuote(t, c.deal, c.with)) /\ MakerStops(t, c, [s4 |-> "idle"])
    \/ MakerSleeps(t, c, [s4 |-> "idle"])

runQuote(t) ==
  \E c \in Awaited(t, "quote") :
    \/ /\ submitQuote(t, c.deal, c.with)
       /\ MakerStops(t, c, [s4 |-> "done", quoteAccepted |-> TRUE, nonce |-> c.with + 1])
    \/ Fails(submitQuote(t, c.deal, c.with)) /\ MakerStops(t, c, [s4 |-> "idle"])
    \/ MakerSleeps(t, c, [s4 |-> "idle"])

(***************************************************************************)
(* Step 3: the match.  What comes back names no maker.                     *)
(***************************************************************************)
pressMatch(t) == /\ MakerShown(t, {3}) /\ ~M(t).matching
                 /\ MakerPresses(t, "match", M(t).rfqData, None, [matching |-> TRUE])

matched == [matching |-> FALSE]

runMatch(t) ==
  \E c \in Awaited(t, "match") :
    \/ decides(c.deal, None) /\ MakerStops(t, c, matched @@ [quoteAccepted |-> FALSE])
    \/ \E m \in Tabs : \/ matchAndLock(c.deal, m) /\ MakerStops(t, c, matched @@ [matchId |-> c.deal])
                       \/ /\ Fails(decides(c.deal, m) \/ matchAndLock(c.deal, m))
                          /\ MakerStops(t, c, matched)
    \/ MakerSleeps(t, c, matched)

(***************************************************************************)
(* Step 4: the XRP, by the desk's throwaway account or by the maker.  Both *)
(* buttons are there until one is pressed, and then only its retry.        *)
(***************************************************************************)
payOffered(t, method) ==
  /\ MakerShown(t, {4}) /\ ~paymentExpired(t)
  /\ M(t).payMethod = "none" \/ (M(t).payMethod = method /\ M(t).s6Error)

s6Failed == [s6 |-> "idle", s6Error |-> TRUE]
sleptThrough == [s6 |-> "idle", slept |-> TRUE]

pressAutoPay(t) ==
  /\ payOffered(t, "auto")
  /\ MakerPresses(t, "xrpl-account", M(t).matchId, None,
                  [payMethod |-> "auto", s6 |-> "funding", s6Error |-> FALSE])

pressManualPay(t) ==
  /\ payOffered(t, "manual")
  /\ MakerPresses(t, "payment-status", M(t).matchId, None,
                  [payMethod |-> "manual", s6 |-> "polling", s6Error |-> FALSE])

accountFunded(t) ==
  \E c \in Awaited(t, "xrpl-account") :
    \/ /\ generateAndFundXrplAccount
       /\ \/ MakerGoesOn(t, c, [s6 |-> "paying"], "maker-pay", c.deal, None)
          \/ MakerStops(t, c, s6Failed)
    \/ MakerSleeps(t, c, sleptThrough)

runAutoPay(t) ==
  \E c \in Awaited(t, "maker-pay") :
    \/ makerPay(c.deal) /\ MakerStops(t, c, [s6 |-> "done"])
    \/ Fails(makerPay(c.deal)) /\ MakerStops(t, c, s6Failed)
    \/ MakerSleeps(t, c, sleptThrough)

\* What a maker is shown after a poll: there is nothing to retry once the window has closed.
afterPoll == [paid |-> [s6 |-> "done"], expired |-> [s6 |-> "idle"], timeout |-> s6Failed]

\* A poll under way still counts after the deadline; a new one is not started.
pollPaymentStatus(d, outcome) == \/ outcome = "paid" /\ paymentStatus(d)
                                 \/ outcome = "expired" /\ deal[d].closed /\ Answers
                                 \/ outcome = "timeout" /\ Answers

runManualPay(t) ==
  \E c \in Awaited(t, "payment-status"), outcome \in DOMAIN afterPoll :
    pollPaymentStatus(c.deal, outcome) /\ MakerStops(t, c, afterPoll[outcome])

\* The screen tells where to pay; the maker does, from a wallet of their own, when they like.
paysByHand(t) == /\ M(t).mounted /\ M(t).payMethod = "manual" /\ M(t).matchId # None
                 /\ deal[M(t).matchId].phase = "locked" /\ Pays(M(t).matchId)
                 /\ UNCHANGED <<maker, calls>>

(***************************************************************************)
(* Step 5: the settlement, resumed at the stage that failed.               *)
(***************************************************************************)
s7Failed == [s7Error |-> TRUE]

pressSettle(t) ==
  /\ MakerShown(t, {5}) /\ (M(t).s7 = "idle" \/ (M(t).s7 = "settling" /\ M(t).s7Error))
  /\ MakerPresses(t, "settle", M(t).matchId, None, [s7 |-> "settling", s7Error |-> FALSE])

retryProof(t) ==
  /\ MakerShown(t, {5}) /\ M(t).s7 = "proving" /\ M(t).s7Error
  /\ MakerPresses(t, "maker-proof", M(t).matchId, M(t).attestRound, [s7Error |-> FALSE])

retryRelease(t) ==
  /\ MakerShown(t, {5}) /\ M(t).s7 = "releasing" /\ M(t).s7Error
  /\ MakerPresses(t, "maker-release", M(t).matchId, M(t).proofData, [s7Error |-> FALSE])

\* The proof is asked for only while the screen is there.
makerPollsProof(t, c) ==
  M(t).mounted /\ MakerGoesOn(t, c, [s7 |-> "proving", s7Error |-> FALSE, attestRound |-> c.deal],
                             "maker-proof", c.deal, c.deal)

runSettle(t) ==
  \E c \in Awaited(t, "settle") :
    \/ settle(c.deal) /\ makerPollsProof(t, c)
    \/ Answers /\ MakerStops(t, c, s7Failed)
    \/ MakerSleeps(t, c, [s7 |-> "idle"])

runMakerProve(t) ==
  \E c \in Awaited(t, "maker-proof") :
    /\ proofRoute
    /\ \/ MakerGoesOn(t, c, [s7 |-> "releasing", s7Error |-> FALSE, proofData |-> c.with],
                      "maker-release", c.deal, c.with)
       \/ MakerStops(t, c, s7Failed)

runMakerRelease(t) ==
  \E c \in Awaited(t, "maker-release") :
    \/ release(c.deal, c.with) /\ MakerGoesOn(t, c, [s7 |-> "balance"], "maker-balance", c.deal, None)
    \/ Fails(release(c.deal, c.with)) /\ MakerStops(t, c, s7Failed)

\* It ends when the balance has grown, and at the cap too.
pollFinalFxrp == Answers

runMakerBalance(t) ==
  \E c \in Awaited(t, "maker-balance") : pollFinalFxrp /\ MakerStops(t, c, [s7 |-> "done"])

-----------------------------------------------------------------------------
MakerPress(t) == \/ pressGas(t) \/ pressOpenRfq(t) \/ openNewRfq(t) \/ (\E d \in Deals : pressJoinRfq(t, d))
                 \/ retryBond(t) \/ pressQuote(t) \/ pressMatch(t) \/ pressAutoPay(t)
                 \/ pressManualPay(t) \/ pressSettle(t) \/ retryProof(t) \/ retryRelease(t)

MakerAnswer(t) == \/ runOpenRfq(t) \/ runJoinRfq(t) \/ runMakerApprove(t) \/ runDepositBond(t)
                  \/ quoteSigned(t) \/ runQuote(t) \/ runMatch(t) \/ accountFunded(t) \/ runAutoPay(t)
                  \/ runManualPay(t) \/ runSettle(t) \/ runMakerProve(t) \/ runMakerRelease(t)
                  \/ runMakerBalance(t)
=============================================================================
