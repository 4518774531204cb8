------------------------------- MODULE DeskApi -------------------------------
(***************************************************************************)
(* The demo server, the enclave and the chain as the screens of the        *)
(* browser see them: when a request or a transaction can succeed, and what *)
(* it changes then.  Prices, amounts and tags are abstracted: a deal is an *)
(* RFQ or a prepared match, which become one match under the same id.      *)
(* What the server does inside a request is in DeskServer and MakerDesk.   *)
(* Balances are not tracked: a deposit may succeed or fail, and a balance  *)
(* that is read may be zero or not.                                        *)
(***************************************************************************)
EXTENDS Naturals, FiniteSets

CONSTANTS
  Tabs,        \* browser tabs, each with a wallet of its own
  Deals,       \* ids of RFQs and matches
  Desk,        \* the desk itself, as a counterparty
  None,
  MAX_NONCE,   \* bound: quotes signed by one maker for one deal
  MAX_SENDS,   \* bound: XRPL payments for one deal
  MAX_ARMED    \* bound: deals that one deposit, and one bond, covers

ASSUME DeskApiAssumption == /\ Desk \notin Tabs /\ None \notin Tabs \cup Deals \cup {Desk}
                            /\ {MAX_NONCE, MAX_SENDS, MAX_ARMED} \subseteq Nat

VARIABLES
  deal,    \* what became of every id
  armed,   \* deals that each tab's deposit in the escrow covers
  bond,    \* deals that its free bond covers
  calls    \* requests and prompts that the code of each tab awaits

world == <<deal, armed, bond>>

Deal == [phase : {"unused", "sealed", "prepared", "locked", "released", "refunded"},
         taker : Tabs \cup {Desk, None}, maker : Tabs \cup {Desk, None},
         bids : [Tabs -> 0..MAX_NONCE], decided : BOOLEAN, quoting : BOOLEAN,
         recorded : BOOLEAN, closed : BOOLEAN, sends : 0..MAX_SENDS, inTime : BOOLEAN]

UnusedDeal == [phase |-> "unused", taker |-> None, maker |-> None, bids |-> [t \in Tabs |-> 0],
               decided |-> FALSE, quoting |-> FALSE, recorded |-> FALSE, closed |-> FALSE,
               sends |-> 0, inTime |-> FALSE]

\* The fields of g, changed to those of f where f has them (TLC's operator of this name, which
\* the provers cannot expand).
f @@ g == [x \in (DOMAIN f) \cup (DOMAIN g) |-> IF x \in DOMAIN f THEN f[x] ELSE g[x]]

Set(d, changes) == deal' = [deal EXCEPT ![d] = changes @@ @]

ApiInit == /\ deal = [d \in Deals |-> UnusedDeal]
           /\ armed = [t \in Tabs |-> 0]
           /\ bond = [t \in Tabs |-> 0]
           /\ calls = [t \in Tabs |-> {}]

(***************************************************************************)
(* An awaited call names the deal it is about and what it carries.  It is  *)
(* served, and its answer acted on, in one step; a poll that finds nothing *)
(* yet goes on waiting.                                                    *)
(***************************************************************************)
Awaited(t, at) == {c \in calls[t] : c.at = at}
Awaiting(t, ats) == \E c \in calls[t] : c.at \in ats

NewCall(at, d, w) == [at |-> at, deal |-> d, with |-> w]

Ask(t, at, d, w) == /\ NewCall(at, d, w) \notin calls[t]
                    /\ calls' = [calls EXCEPT ![t] = @ \cup {NewCall(at, d, w)}]
Then(t, c, at, d, w) == calls' = [calls EXCEPT ![t] = (@ \ {c}) \cup {NewCall(at, d, w)}]
Finish(t, c) == calls' = [calls EXCEPT ![t] = @ \ {c}]

\* What changes nothing that is modelled: it is answered, or it fails.
Answers == UNCHANGED world

\* What the screen hears as a failure: nothing was done, or it was and the answer got lost.
Fails(effect) == UNCHANGED world \/ effect

-----------------------------------------------------------------------------
(***************************************************************************)
(* Maker mode.                                                             *)
(***************************************************************************)
openRfq(d) == /\ deal[d].phase = "unused"
              /\ Set(d, [phase |-> "sealed", taker |-> Desk, quoting |-> TRUE, recorded |-> TRUE])
              /\ UNCHANGED <<armed, bond>>

\* The queue: what is recorded and can still be quoted.
queued(d) == deal[d].recorded /\ deal[d].quoting

\* The record is asked for, the window is not.
buildJoinRfq(d) == deal[d].recorded
joinRfq(d) == buildJoinRfq(d) /\ Answers

depositBond(t) == /\ bond[t] < MAX_ARMED
                  /\ bond' = [bond EXCEPT ![t] = @ + 1] /\ UNCHANGED <<deal, armed>>

\* A quote replaces an older one of its maker.
submitQuote(t, d, nonce) == /\ deal[d].quoting /\ nonce > deal[d].bids[t]
                            /\ Set(d, [bids |-> [deal[d].bids EXCEPT ![t] = nonce]])
                            /\ UNCHANGED <<armed, bond>>

\* Whoever has quoted and has a bond may win; the limit may also rule everybody out.  What was
\* decided first is decided.
Outcomes(d) == IF deal[d].decided THEN {deal[d].maker}
               ELSE {None} \cup {t \in Tabs : deal[d].bids[t] > 0 /\ bond[t] > 0}

decides(d, m) == /\ ~deal[d].quoting /\ m \in Outcomes(d)
                 /\ Set(d, [decided |-> TRUE, maker |-> m]) /\ UNCHANGED <<armed, bond>>

\* The request waits for the window to end; lock() is sent in it, whoever asked.
matchAndLock(d, m) ==
  /\ ~deal[d].quoting /\ m \in Outcomes(d) \ {None}
  /\ deal[d].phase = "sealed" /\ bond[m] > 0
  /\ deal[d].taker \in Tabs => armed[deal[d].taker] > 0
  /\ Set(d, [decided |-> TRUE, maker |-> m, phase |-> "locked", recorded |-> TRUE])
  /\ bond' = [bond EXCEPT ![m] = @ - 1]
  /\ armed' = IF deal[d].taker = Desk THEN armed ELSE [armed EXCEPT ![deal[d].taker] = @ - 1]

\* A balance, or "not running".
Status == [enabled : {TRUE}, funded : BOOLEAN] \cup [enabled : {FALSE}]

\* The free bond comes with it, which a screen only prints.
MakerStatus == Status

getXrplBalance == Answers

\* A fresh account, paid for by the faucet of the ledger.
generateAndFundXrplAccount == Answers

Pays(d) == /\ deal[d].sends < MAX_SENDS
           /\ Set(d, [sends |-> deal[d].sends + 1, inTime |-> deal[d].inTime \/ ~deal[d].closed])
           /\ UNCHANGED <<armed, bond>>

makerPay(d) == deal[d].recorded /\ Pays(d)

\* The payment that is looked for is one with the tag, whenever it was made.
paymentStatus(d) == deal[d].recorded /\ deal[d].sends > 0 /\ Answers

settle(d) == deal[d].recorded /\ deal[d].sends > 0 /\ Answers

\* The verifier prepares a request for a payment that it can find, and anybody submits it.
attest(d) == deal[d].sends > 0 /\ Answers

\* The round is final and the proof is there, sooner or later.
checkProofOnce == Answers
proofRoute == checkProofOnce

\* MUTANT of release: the answer does not wait for the transaction.
releaseUnawaited(d, proof) == /\ deal[d].phase = "locked" /\ proof = d
                              /\ \/ deal[d].inTime /\ Set(d, [phase |-> "released"])
                                 \/ ~deal[d].inTime /\ UNCHANGED deal
                              /\ UNCHANGED <<armed, bond>>

\* The contract accepts the proof of a payment of this match made in time, once.
release(d, proof) == /\ deal[d].phase = "locked" /\ proof = d /\ deal[d].inTime
                     /\ Set(d, [phase |-> "released"])
                     /\ UNCHANGED <<armed, bond>>

(***************************************************************************)
(* Wallet mode.                                                            *)
(***************************************************************************)
prepare(t, d) == /\ deal[d].phase = "unused"
                 /\ Set(d, [phase |-> "prepared", taker |-> t, maker |-> Desk, decided |-> TRUE,
                            recorded |-> TRUE])
                 /\ UNCHANGED <<armed, bond>>

deposit(t) == /\ armed[t] < MAX_ARMED
              /\ armed' = [armed EXCEPT ![t] = @ + 1] /\ UNCHANGED <<deal, bond>>

lock(t, d) == /\ deal[d].phase = "prepared" /\ armed[t] > 0
              /\ Set(d, [phase |-> "locked"])
              /\ armed' = [armed EXCEPT ![t] = @ - 1] /\ UNCHANGED bond

sendApprove == Answers

walletPay(d) == deal[d].recorded /\ Pays(d)

forgotten(d) == ~deal[d].recorded /\ UNCHANGED world

\* The bounds of an order; the order, sealed for the enclave.
buildTakerRfqTerms == Answers
sealTakerRfq == Answers

\* What the order says is looked at, then sealed; nothing is kept and nothing is sent.
publish == sealTakerRfq

\* The taker's own transaction makes the RFQ; the server hears of it from "confirm" only.
submitRfq(t, d) == /\ deal[d].phase = "unused"
                   /\ Set(d, [phase |-> "sealed", taker |-> t, quoting |-> TRUE])
                   /\ UNCHANGED <<armed, bond>>

\* Recorded for the queue, whoever says so.
confirm(d) == Set(d, [recorded |-> TRUE]) /\ UNCHANGED <<armed, bond>>

(***************************************************************************)
(* What happens by itself: windows end, records expire or go with the      *)
(* process, and anybody refunds a match that is overdue.                   *)
(***************************************************************************)
quotingEnds(d) == deal[d].quoting /\ Set(d, [quoting |-> FALSE])

paymentWindowEnds(d) == deal[d].phase = "locked" /\ ~deal[d].closed /\ Set(d, [closed |-> TRUE])

recordExpires(d) == deal[d].recorded /\ Set(d, [recorded |-> FALSE])

refund(d) == deal[d].phase = "locked" /\ deal[d].closed /\ Set(d, [phase |-> "refunded"])

Elapse(d) == /\ quotingEnds(d) \/ paymentWindowEnds(d) \/ recordExpires(d) \/ refund(d)
             /\ UNCHANGED <<armed, bond, calls>>

Call == [at : {"open-rfq", "join-rfq", "bondApprove", "depositBond", "sign", "quote", "match",
               "xrpl-account", "maker-pay", "payment-status", "settle", "maker-proof", "maker-release",
               "maker-balance", "generate", "orderApprove", "orderDeposit", "publish", "submitRfq",
               "confirm", "prepare", "approve", "deposit", "lock", "wallet-pay", "attest",
               "taker-proof", "release", "taker-balance"},
         deal : Deals \cup {None}, with : Deals \cup {None} \cup 1..MAX_NONCE]

ApiTypeOK == /\ deal \in [Deals -> Deal]
             /\ armed \in [Tabs -> 0..MAX_ARMED] /\ bond \in [Tabs -> 0..MAX_ARMED]
             /\ calls \in [Tabs -> SUBSET Call]
=============================================================================
