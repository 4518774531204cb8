--------------------------- MODULE ConsoleProofs ---------------------------
(***************************************************************************)
(* Proofs about the screens, for any number of tabs and of deals, without  *)
(* the bounds of the runs: however answers come, screens go and accounts   *)
(* vanish, what a screen awaits is what its stage says.                    *)
(***************************************************************************)
EXTENDS Console, TLAPS

(***************************************************************************)
(* The inductive invariant, one predicate for each trade, screen and kind  *)
(* of call.  C is what a tab awaits, w a taker's screen and m a maker's.   *)
(***************************************************************************)
Kind(C, ats) == {c \in C : c.at \in ats}

PublishCalls == {"orderApprove", "orderDeposit", "publish", "submitRfq", "confirm"}
TakerCalls == TradeCalls \cup PublishCalls \cup {"generate"}

TakingCalls == {"open-rfq", "join-rfq"}
BondCalls == {"bondApprove", "depositBond"}
QuoteCalls == {"sign", "quote"}
PayCalls == {"xrpl-account", "maker-pay", "payment-status"}
SettleCalls == {"settle", "maker-proof", "maker-release", "maker-balance"}
MakerCalls ==
  TakingCalls \cup BondCalls \cup QuoteCalls \cup {"match"} \cup PayCalls \cup SettleCalls

\* The calls that are about no deal yet.
Dealless == {"open-rfq", "generate", "orderApprove", "orderDeposit", "publish", "submitRfq",
             "prepare"}

\* Whatever became of the screen that asked.
CallOK(c) == /\ c \in Call
             /\ c.at \notin Dealless => c.deal \in Deals
             /\ c.at \in QuoteCalls => c.with \in 1..MAX_NONCE

\* What the trade of a taker awaits, at its stage.
TradeAwaits(w) ==
  IF w.s4 = "preparing" THEN {NewCall("prepare", None, None)}
  ELSE IF w.s4 \in {"approve", "deposit", "lock"}
       THEN IF w.s4Error THEN {} ELSE {NewCall(w.s4, w.matchId, None)}
  ELSE IF w.s5 = "balance" THEN {NewCall("taker-balance", w.matchId, None)}
  ELSE IF w.s5Error THEN {}
  ELSE IF w.s5 = "paying" THEN {NewCall("wallet-pay", w.matchId, None)}
  ELSE IF w.s5 = "attesting" THEN {NewCall("attest", w.matchId, w.matchId)}
  ELSE IF w.s5 = "proving" THEN {NewCall("taker-proof", w.matchId, w.matchId)}
  ELSE IF w.s5 = "releasing" THEN {NewCall("release", w.matchId, w.matchId)}
  ELSE {}

\* The trade is of one match, and what is saved of it is what the stage has behind it.
TradeSaved(w) ==
  /\ w.s4 \in {"approve", "deposit", "lock", "done"}
     => w.matchId \in Deals /\ w.prepareData = w.matchId
  /\ w.s4 # "done" => w.s5 = "idle"
  /\ w.s4 = "preparing" => ~w.s4Error
  /\ w.xrplPayTx = IF w.s5 \in {"idle", "paying"} THEN None ELSE w.matchId
  /\ w.attestRound = IF w.s5 \in {"idle", "paying", "attesting"} THEN None ELSE w.matchId
  /\ w.proofData = IF w.s5 \in {"releasing", "balance", "done"} THEN w.matchId ELSE None

TradeInv(w, C) == TradeSaved(w) /\ Kind(C, TradeCalls) = TradeAwaits(w)

PublishInv(w, C) == w.publishStage \notin {"idle", "waiting"} => Kind(C, PublishCalls) # {}

TakerInv(w, C) == TradeInv(w, C) /\ PublishInv(w, C)

BondInv(m, C) ==
  /\ m.s3 \in {"bondApprove", "depositBond", "done"} => m.rfqData \in Deals
  /\ Kind(C, BondCalls) # {} => m.rfqData \in Deals
  /\ m.s3 = "opening" => Kind(C, TakingCalls) # {}
  /\ m.s3 \in {"bondApprove", "depositBond"} /\ ~m.s3Error => Kind(C, BondCalls) # {}

QuoteInv(m, C) == m.s4 \notin {"idle", "done"} => Kind(C, QuoteCalls) # {}

\* One match is asked for at a time, and none once it is made.
MatchInv(m, C) ==
  /\ m.matching => Kind(C, {"match"}) # {}
  /\ \A c, e \in Kind(C, {"match"}) : c = e /\ m.matching /\ m.matchId = None

PayAwaits(m) ==
  IF m.s6 = "funding" THEN {NewCall("xrpl-account", m.matchId, None)}
  ELSE IF m.s6 = "paying" THEN {NewCall("maker-pay", m.matchId, None)}
  ELSE IF m.s6 = "polling" THEN {NewCall("payment-status", m.matchId, None)}
  ELSE {}

PayInv(m, C) ==
  /\ Kind(C, PayCalls) = PayAwaits(m)
  /\ m.s6Error => m.s6 = "idle"
  /\ m.s6 # "idle" => m.payMethod # "none"
  /\ m.payMethod # "none" => m.matchId \in Deals

SettleAwaits(m) ==
  IF m.s7 = "balance" THEN {NewCall("maker-balance", m.matchId, None)}
  ELSE IF m.s7Error THEN {}
  ELSE IF m.s7 = "settling" THEN {NewCall("settle", m.matchId, None)}
  ELSE IF m.s7 = "proving" THEN {NewCall("maker-proof", m.matchId, m.matchId)}
  ELSE IF m.s7 = "releasing" THEN {NewCall("maker-release", m.matchId, m.matchId)}
  ELSE {}

SettleInv(m, C) ==
  /\ Kind(C, SettleCalls) = SettleAwaits(m)
  /\ m.s6 # "done" => m.s7 = "idle"
  /\ m.attestRound = IF m.s7 \in {"idle", "settling"} THEN None ELSE m.matchId
  /\ m.proofData = IF m.s7 \in {"releasing", "balance", "done"} THEN m.matchId ELSE None

MakerInv(m, C) == /\ BondInv(m, C) /\ QuoteInv(m, C) /\ MatchInv(m, C)
                  /\ PayInv(m, C) /\ SettleInv(m, C)

\* A screen that is gone shows nothing.
TakerGone(w) == /\ w.s4 = "idle" /\ w.s5 = "idle"
                /\ w.xrplPayTx = None /\ w.attestRound = None /\ w.proofData = None
MakerGone(m) == /\ m.s6 = "idle" /\ m.s7 = "idle" /\ m.attestRound = None /\ m.proofData = None

\* What a screen says of the chain: it is released, or it is too late to pay.
TakerTrue(w, D) == w.s5 \in {"balance", "done"} => D[w.matchId].phase = "released"
MakerTrue(m, D) ==
  /\ m.s7 \in {"balance", "done"} => D[m.matchId].phase = "released"
  /\ m.s6 = "idle" /\ m.payMethod # "none" /\ ~m.s6Error /\ ~m.slept => D[m.matchId].closed

\* A tab: its screens, what it awaits, the trade that is open on its desk, and the deals.
TabOK(w, m, C, mode, D) ==
  /\ w.mounted <=> mode = "wallet"
  /\ m.mounted <=> mode = "maker"
  /\ \A c \in C : CallOK(c)
  /\ w.mounted => /\ \A c \in C : c.at \in TakerCalls
                  /\ TakerInv(w, C) /\ TakerTrue(w, D)
  /\ ~w.mounted => TakerGone(w)
  /\ m.mounted => /\ \A c \in C : c.at \in MakerCalls \cup PublishCalls
                  /\ MakerInv(m, C) /\ MakerTrue(m, D)
  /\ ~m.mounted => MakerGone(m)

TabInv(t) == TabOK(T(t), M(t), calls[t], desk[t].mode, deal)

IInv == ScreensTypeOK /\ \A t \in Tabs : TabInv(t)
-----------------------------------------------------------------------------
(***************************************************************************)
(* The world: whatever is asked of it, what is released stays released and *)
(* a payment window that has ended stays so.                               *)
(***************************************************************************)
WorldTypeOK == /\ deal \in [Deals -> Deal]
               /\ armed \in [Tabs -> 0..MAX_ARMED] /\ bond \in [Tabs -> 0..MAX_ARMED]

Lasting == \A d \in Deals : /\ deal[d].phase = "released" => deal'[d].phase = "released"
                            /\ deal[d].closed => deal'[d].closed

WorldStep == WorldTypeOK' /\ Lasting

LEMMA SetKeeps ==
  ASSUME WorldTypeOK, NEW d \in Deals, NEW changes, Set(d, changes),
         changes @@ deal[d] \in Deal,
         deal[d].phase = "released" => (changes @@ deal[d]).phase = "released",
         deal[d].closed => (changes @@ deal[d]).closed,
         armed' \in [Tabs -> 0..MAX_ARMED], bond' \in [Tabs -> 0..MAX_ARMED]
  PROVE  WorldStep
<1>1. deal' = [deal EXCEPT ![d] = changes @@ deal[d]]
  BY DEF Set
<1>2. deal' \in [Deals -> Deal]
  BY <1>1 DEF WorldTypeOK
<1>3. Lasting
  BY <1>1 DEF WorldTypeOK, Lasting
<1> QED
  BY <1>2, <1>3 DEF WorldStep, WorldTypeOK

LEMMA StillKeeps == ASSUME WorldTypeOK, UNCHANGED world PROVE WorldStep
  BY DEF WorldStep, WorldTypeOK, Lasting, world

LEMMA OpenRfqKeeps ==
  ASSUME WorldTypeOK, NEW d \in Deals, openRfq(d)
  PROVE  WorldStep
<1>1. deal[d] \in Deal
  BY DEF WorldTypeOK
<1>2. PICK e : e = [phase |-> "sealed", taker |-> Desk, quoting |-> TRUE,
                    recorded |-> TRUE] @@ deal[d]
  OBVIOUS
<1>3. e \in Deal
  BY <1>1, <1>2, ZenonT(30) DEF Deal, @@
<1>4. (deal[d].phase = "released" => e.phase = "released") /\ (deal[d].closed => e.closed)
  BY <1>1, <1>2 DEF openRfq, Deal, @@
<1> QED
  BY <1>2, <1>3, <1>4, SetKeeps DEF openRfq, WorldTypeOK

LEMMA DepositBondKeeps ==
  ASSUME WorldTypeOK, NEW t \in Tabs, depositBond(t)
  PROVE  WorldStep
BY DeskApiAssumption DEF depositBond, WorldStep, WorldTypeOK, Lasting

LEMMA SubmitQuoteKeeps ==
  ASSUME WorldTypeOK, NEW t \in Tabs, NEW d \in Deals, NEW nonce \in 1..MAX_NONCE,
         submitQuote(t, d, nonce)
  PROVE  WorldStep
<1>1. deal[d] \in Deal
  BY DEF WorldTypeOK
<1>2. PICK bids : bids = [deal[d].bids EXCEPT ![t] = nonce]
  OBVIOUS
<1>3. bids \in [Tabs -> 0..MAX_NONCE]
  BY <1>1, <1>2, DeskApiAssumption DEF Deal
<1>4. PICK e : e = [bids |-> bids] @@ deal[d]
  OBVIOUS
<1>5. e \in Deal
  BY <1>1, <1>3, <1>4, ZenonT(30) DEF Deal, @@
<1>6. (deal[d].phase = "released" => e.phase = "released") /\ (deal[d].closed => e.closed)
  BY <1>1, <1>4 DEF Deal, @@
<1> QED
  BY <1>2, <1>4, <1>5, <1>6, SetKeeps DEF submitQuote, WorldTypeOK

LEMMA DecidesKeeps ==
  ASSUME WorldTypeOK, NEW m \in Tabs \cup {None}, NEW d \in Deals, decides(d, m)
  PROVE  WorldStep
<1>1. deal[d] \in Deal
  BY DEF WorldTypeOK
<1>2. PICK e : e = [decided |-> TRUE, maker |-> m] @@ deal[d]
  OBVIOUS
<1>3. e \in Deal
  BY <1>1, <1>2, ZenonT(30) DEF Deal, @@
<1>4. (deal[d].phase = "released" => e.phase = "released") /\ (deal[d].closed => e.closed)
  BY <1>1, <1>2 DEF decides, Deal, @@
<1> QED
  BY <1>2, <1>3, <1>4, SetKeeps DEF decides, WorldTypeOK

LEMMA MatchAndLockKeeps ==
  ASSUME WorldTypeOK, NEW m \in Tabs, NEW d \in Deals, matchAndLock(d, m)
  PROVE  WorldStep
<1> DEFINE changes == [decided |-> TRUE, maker |-> m, phase |-> "locked", recorded |-> TRUE]
<1>1. deal[d] \in Deal
  BY DEF WorldTypeOK
<1>2. /\ changes @@ deal[d] \in Deal
      /\ (changes @@ deal[d]).closed = deal[d].closed
  BY <1>1 DEF Deal, @@
<1>3. bond' \in [Tabs -> 0..MAX_ARMED] /\ armed' \in [Tabs -> 0..MAX_ARMED]
  <2>1. bond[m] \in 0..MAX_ARMED /\ bond[m] > 0 /\ bond' = [bond EXCEPT ![m] = @ - 1]
    BY DEF matchAndLock, WorldTypeOK
  <2>2. bond' \in [Tabs -> 0..MAX_ARMED]
    BY <2>1, DeskApiAssumption DEF WorldTypeOK
  <2>3. ASSUME deal[d].taker \in Tabs PROVE armed[deal[d].taker] - 1 \in 0..MAX_ARMED
    BY <2>3, DeskApiAssumption DEF matchAndLock, WorldTypeOK
  <2>4. armed' \in [Tabs -> 0..MAX_ARMED]
    BY <2>3 DEF matchAndLock, WorldTypeOK
  <2> QED  BY <2>2, <2>4
<1> QED
  BY <1>2, <1>3, SetKeeps DEF matchAndLock, WorldTypeOK

LEMMA PaysKeeps ==
  ASSUME WorldTypeOK, NEW d \in Deals, Pays(d)
  PROVE  WorldStep
<1>1. deal[d] \in Deal /\ deal[d].sends < MAX_SENDS
  BY DEF WorldTypeOK, Pays
<1>2. PICK n, inTime : n = deal[d].sends + 1 /\ inTime = (deal[d].inTime \/ ~deal[d].closed)
  OBVIOUS
<1>3. n \in 0..MAX_SENDS /\ inTime \in BOOLEAN
  BY <1>1, <1>2, DeskApiAssumption DEF Deal
<1>4. PICK e : e = [sends |-> n, inTime |-> inTime] @@ deal[d]
  OBVIOUS
<1>5. e \in Deal
  BY <1>1, <1>3, <1>4, ZenonT(30) DEF Deal, @@
<1>6. (deal[d].phase = "released" => e.phase = "released") /\ (deal[d].closed => e.closed)
  BY <1>1, <1>4 DEF Deal, @@
<1> QED
  BY <1>2, <1>4, <1>5, <1>6, SetKeeps DEF Pays, WorldTypeOK

LEMMA ReleaseKeeps ==
  ASSUME WorldTypeOK, NEW d \in Deals, NEW proof, release(d, proof)
  PROVE  WorldStep
<1>1. deal[d] \in Deal
  BY DEF WorldTypeOK
<1>2. PICK e : e = [phase |-> "released"] @@ deal[d]
  OBVIOUS
<1>3. e \in Deal
  BY <1>1, <1>2, ZenonT(30) DEF Deal, @@
<1>4. (deal[d].phase = "released" => e.phase = "released") /\ (deal[d].closed => e.closed)
  BY <1>1, <1>2 DEF release, Deal, @@
<1> QED
  BY <1>2, <1>3, <1>4, SetKeeps DEF release, WorldTypeOK

LEMMA PrepareKeeps ==
  ASSUME WorldTypeOK, NEW t \in Tabs, NEW d \in Deals, prepare(t, d)
  PROVE  WorldStep
<1>1. deal[d] \in Deal
  BY DEF WorldTypeOK
<1>2. PICK e : e = [phase |-> "prepared", taker |-> t, maker |-> Desk, decided |-> TRUE,
                    recorded |-> TRUE] @@ deal[d]
  OBVIOUS
<1>3. e \in Deal
  BY <1>1, <1>2, ZenonT(30) DEF Deal, @@
<1>4. (deal[d].phase = "released" => e.phase = "released") /\ (deal[d].closed => e.closed)
  BY <1>1, <1>2 DEF prepare, Deal, @@
<1> QED
  BY <1>2, <1>3, <1>4, SetKeeps DEF prepare, WorldTypeOK

LEMMA DepositKeeps ==
  ASSUME WorldTypeOK, NEW t \in Tabs, deposit(t)
  PROVE  WorldStep
BY DeskApiAssumption DEF deposit, WorldStep, WorldTypeOK, Lasting

LEMMA LockKeeps ==
  ASSUME WorldTypeOK, NEW t \in Tabs, NEW d \in Deals, lock(t, d)
  PROVE  WorldStep
<1> DEFINE changes == [phase |-> "locked"]
<1>1. deal[d] \in Deal
  BY DEF WorldTypeOK
<1>2. /\ changes @@ deal[d] \in Deal
      /\ (changes @@ deal[d]).closed = deal[d].closed
  BY <1>1 DEF Deal, @@
<1>3. armed' \in [Tabs -> 0..MAX_ARMED] /\ bond' \in [Tabs -> 0..MAX_ARMED]
  BY DeskApiAssumption DEF lock, WorldTypeOK
<1> QED
  BY <1>2, <1>3, SetKeeps DEF lock

LEMMA SubmitRfqKeeps ==
  ASSUME WorldTypeOK, NEW t \in Tabs, NEW d \in Deals, submitRfq(t, d)
  PROVE  WorldStep
<1>1. deal[d] \in Deal
  BY DEF WorldTypeOK
<1>2. PICK e : e = [phase |-> "sealed", taker |-> t, quoting |-> TRUE] @@ deal[d]
  OBVIOUS
<1>3. e \in Deal
  BY <1>1, <1>2, ZenonT(30) DEF Deal, @@
<1>4. (deal[d].phase = "released" => e.phase = "released") /\ (deal[d].closed => e.closed)
  BY <1>1, <1>2 DEF submitRfq, Deal, @@
<1> QED
  BY <1>2, <1>3, <1>4, SetKeeps DEF submitRfq, WorldTypeOK

LEMMA ConfirmKeeps ==
  ASSUME WorldTypeOK, NEW d \in Deals, confirm(d)
  PROVE  WorldStep
<1>1. deal[d] \in Deal
  BY DEF WorldTypeOK
<1>2. PICK e : e = [recorded |-> TRUE] @@ deal[d]
  OBVIOUS
<1>3. e \in Deal
  BY <1>1, <1>2, ZenonT(30) DEF Deal, @@
<1>4. (deal[d].phase = "released" => e.phase = "released") /\ (deal[d].closed => e.closed)
  BY <1>1, <1>2 DEF confirm, Deal, @@
<1> QED
  BY <1>2, <1>3, <1>4, SetKeeps DEF confirm, WorldTypeOK

LEMMA ElapseKeeps ==
  ASSUME WorldTypeOK, NEW d \in Deals, Elapse(d)
  PROVE  WorldStep /\ UNCHANGED calls
<1>1. deal[d] \in Deal
  BY DEF WorldTypeOK
<1>2. UNCHANGED <<armed, bond, calls>>
  BY DEF Elapse
<1>3. /\ armed' \in [Tabs -> 0..MAX_ARMED] /\ bond' \in [Tabs -> 0..MAX_ARMED]
  BY <1>2 DEF WorldTypeOK
<1>4. PICK changes : /\ changes \in {[quoting |-> FALSE], [closed |-> TRUE], [recorded |-> FALSE],
                                      [phase |-> "refunded"]}
                     /\ changes = [phase |-> "refunded"] => deal[d].phase = "locked"
                     /\ Set(d, changes)
  BY DEF Elapse, quotingEnds, paymentWindowEnds, recordExpires, refund
<1>5. PICK e : e = changes @@ deal[d]
  OBVIOUS
<1>6. /\ e \in Deal
      /\ (deal[d].phase = "released" => e.phase = "released") /\ (deal[d].closed => e.closed)
  <2>1. CASE changes = [quoting |-> FALSE]
    <3>1. e \in Deal
      BY <1>1, <1>5, <2>1, ZenonT(30) DEF Deal, @@
    <3> QED
      BY <1>1, <1>5, <2>1, <3>1 DEF Deal, @@
  <2>2. CASE changes = [closed |-> TRUE]
    <3>1. e \in Deal
      BY <1>1, <1>5, <2>2, ZenonT(30) DEF Deal, @@
    <3> QED
      BY <1>1, <1>5, <2>2, <3>1 DEF Deal, @@
  <2>3. CASE changes = [recorded |-> FALSE]
    <3>1. e \in Deal
      BY <1>1, <1>5, <2>3, ZenonT(30) DEF Deal, @@
    <3> QED
      BY <1>1, <1>5, <2>3, <3>1 DEF Deal, @@
  <2>4. CASE changes = [phase |-> "refunded"]
    <3>1. e \in Deal
      BY <1>1, <1>5, <2>4, ZenonT(30) DEF Deal, @@
    <3> QED
      BY <1>1, <1>4, <1>5, <2>4, <3>1 DEF Deal, @@
  <2> QED  BY <1>4, <2>1, <2>2, <2>3, <2>4
<1> QED
  BY <1>2, <1>3, <1>4, <1>5, <1>6, SetKeeps
-----------------------------------------------------------------------------
(***************************************************************************)
(* What a step of one screen has to keep, for the invariant to be kept.    *)
(***************************************************************************)
LEMMA KindSame ==
  ASSUME NEW C, NEW E, NEW K, \A c \in (C \ E) \cup (E \ C) : c.at \notin K
  PROVE  Kind(E, K) = Kind(C, K)
BY DEF Kind

LEMMA TakerUntouched ==
  ASSUME NEW w, NEW C, NEW E, TakerInv(w, C),
         \A c \in (C \ E) \cup (E \ C) : c.at \notin TakerCalls
  PROVE  TakerInv(w, E)
<1>1. Kind(E, TradeCalls) = Kind(C, TradeCalls) /\ Kind(E, PublishCalls) = Kind(C, PublishCalls)
  BY KindSame DEF TakerCalls
<1> QED
  BY <1>1 DEF TakerInv, TradeInv, PublishInv

LEMMA MakerUntouched ==
  ASSUME NEW m, NEW C, NEW E, MakerInv(m, C),
         \A c \in (C \ E) \cup (E \ C) : c.at \notin MakerCalls
  PROVE  MakerInv(m, E)
<1>1. /\ Kind(E, TakingCalls) = Kind(C, TakingCalls) /\ Kind(E, BondCalls) = Kind(C, BondCalls)
      /\ Kind(E, QuoteCalls) = Kind(C, QuoteCalls) /\ Kind(E, {"match"}) = Kind(C, {"match"})
      /\ Kind(E, PayCalls) = Kind(C, PayCalls) /\ Kind(E, SettleCalls) = Kind(C, SettleCalls)
  BY KindSame DEF MakerCalls
<1> QED
  BY <1>1 DEF MakerInv, BondInv, QuoteInv, MatchInv, PayInv, SettleInv

\* Whatever the world does, a screen goes on to say what is true.
LEMMA TakerStillTrue ==
  ASSUME NEW w, NEW C, TakerInv(w, C), TakerTrue(w, deal), Lasting
  PROVE  TakerTrue(w, deal')
BY DEF TakerInv, TradeInv, TradeSaved, TakerTrue, Lasting

LEMMA MakerStillTrue ==
  ASSUME NEW m, NEW C, MakerInv(m, C), MakerTrue(m, deal), Lasting
  PROVE  MakerTrue(m, deal')
<1>1. m.payMethod # "none" => m.matchId \in Deals
  BY DEF MakerInv, PayInv
<1>2. m.s7 \in {"balance", "done"} => m.matchId \in Deals
  BY DEF MakerInv, PayInv, SettleInv
<1> QED
  BY <1>1, <1>2 DEF MakerTrue, Lasting

LEMMA TabUntouched ==
  ASSUME NEW t, TabInv(t), Lasting,
         UNCHANGED <<taker[t], maker[t], calls[t], desk[t].mode>>
  PROVE  TabInv(t)'
BY TakerStillTrue, MakerStillTrue DEF TabInv, TabOK, T, M

LEMMA IInvWorld == ASSUME IInv PROVE WorldTypeOK
BY DEF IInv, ScreensTypeOK, ApiTypeOK, WorldTypeOK

LEMMA TakerStepAnyAccount ==
  ASSUME IInv, NEW t \in Tabs, NEW changes, NEW E,
         WorldStep, ShowTaker(t, changes), calls' = [calls EXCEPT ![t] = E],
         UNCHANGED <<maker, desk>>, account' \in [Tabs -> BOOLEAN],
         \A c \in E \ calls[t] : /\ CallOK(c) /\ c.at \in TakerCalls
                                 /\ M(t).mounted => c.at \in PublishCalls,
         \A c \in calls[t] \ E : c.at \in TakerCalls,
         T(t).mounted => /\ changes @@ T(t) \in TakerState /\ (changes @@ T(t)).mounted
                         /\ TakerInv(changes @@ T(t), E) /\ TakerTrue(changes @@ T(t), deal')
  PROVE  IInv'
<1>1. /\ taker \in [Tabs -> TakerState] /\ calls \in [Tabs -> SUBSET Call]
      /\ maker \in [Tabs -> MakerState] /\ \A u \in Tabs : TabInv(u)
  BY DEF IInv, ScreensTypeOK, ApiTypeOK
<1>2. \A c \in E : CallOK(c)
  BY <1>1 DEF TabInv, TabOK
<1>3. /\ calls'[t] = E /\ \A u \in Tabs \ {t} : calls'[u] = calls[u]
      /\ calls' \in [Tabs -> SUBSET Call]
  BY <1>1, <1>2 DEF CallOK
<1>4. /\ taker' = [taker EXCEPT ![t] = IF taker[t].mounted THEN changes @@ taker[t] ELSE taker[t]]
  BY DEF ShowTaker
<1>5. /\ taker'[t] = (IF T(t).mounted THEN changes @@ T(t) ELSE T(t))
      /\ \A u \in Tabs \ {t} : taker'[u] = taker[u]
      /\ taker' \in [Tabs -> TakerState]
  BY <1>1, <1>4 DEF T
<1>6. ScreensTypeOK'
  BY <1>3, <1>5 DEF IInv, ScreensTypeOK, ApiTypeOK, WorldStep, WorldTypeOK
<1>7. ASSUME NEW u \in Tabs \ {t} PROVE TabInv(u)'
  BY <1>1, <1>3, <1>5, TabUntouched DEF WorldStep
<1>8. TabInv(t)'
  <2>1. TabOK(T(t), M(t), calls[t], desk[t].mode, deal)
    BY <1>1 DEF TabInv
  <2>2. \A c \in (calls[t] \ E) \cup (E \ calls[t]) : c.at \notin MakerCalls
    BY DEF TakerCalls, TradeCalls, PublishCalls, MakerCalls, TakingCalls, BondCalls, QuoteCalls,
           PayCalls, SettleCalls
  <2>3. T(t).mounted => \A c \in E : c.at \in TakerCalls
    BY <2>1 DEF TabOK
  <2>4. M(t).mounted => /\ \A c \in E : c.at \in MakerCalls \cup PublishCalls
                        /\ MakerInv(M(t), E) /\ MakerTrue(M(t), deal')
    BY <2>1, <2>2, MakerUntouched, MakerStillTrue DEF TabOK, WorldStep
  <2>5. (T(t).mounted => (changes @@ T(t)).mounted) /\ T(t).mounted \in BOOLEAN
    BY <1>1 DEF T, TakerState
  <2>6. TabOK(taker'[t], M(t), E, desk[t].mode, deal')
    BY <1>2, <1>5, <2>1, <2>3, <2>4, <2>5 DEF TabOK
  <2> QED
    BY <1>3, <2>6 DEF TabInv, T, M
<1> QED
  BY <1>6, <1>7, <1>8 DEF IInv

LEMMA TakerStep ==
  ASSUME IInv, NEW t \in Tabs, NEW changes, NEW E,
         WorldStep, ShowTaker(t, changes), calls' = [calls EXCEPT ![t] = E],
         UNCHANGED <<maker, account, desk>>,
         \A c \in E \ calls[t] : /\ CallOK(c) /\ c.at \in TakerCalls
                                 /\ M(t).mounted => c.at \in PublishCalls,
         \A c \in calls[t] \ E : c.at \in TakerCalls,
         T(t).mounted => /\ changes @@ T(t) \in TakerState /\ (changes @@ T(t)).mounted
                         /\ TakerInv(changes @@ T(t), E) /\ TakerTrue(changes @@ T(t), deal')
  PROVE  IInv'
BY TakerStepAnyAccount DEF IInv, ScreensTypeOK

LEMMA MakerStepAnyAccount ==
  ASSUME IInv, NEW t \in Tabs, NEW changes, NEW E, ~T(t).mounted,
         WorldStep, ShowMaker(t, changes), calls' = [calls EXCEPT ![t] = E],
         UNCHANGED <<taker, desk>>, account' \in [Tabs -> BOOLEAN],
         \A c \in E \ calls[t] : CallOK(c) /\ c.at \in MakerCalls,
         \A c \in calls[t] \ E : c.at \in MakerCalls,
         M(t).mounted => /\ changes @@ M(t) \in MakerState /\ (changes @@ M(t)).mounted
                         /\ MakerInv(changes @@ M(t), E) /\ MakerTrue(changes @@ M(t), deal')
  PROVE  IInv'
<1>1. /\ maker \in [Tabs -> MakerState] /\ calls \in [Tabs -> SUBSET Call]
      /\ \A u \in Tabs : TabInv(u)
  BY DEF IInv, ScreensTypeOK, ApiTypeOK
<1>2. \A c \in E : CallOK(c)
  BY <1>1 DEF TabInv, TabOK
<1>3. /\ calls'[t] = E /\ \A u \in Tabs \ {t} : calls'[u] = calls[u]
      /\ calls' \in [Tabs -> SUBSET Call]
  BY <1>1, <1>2 DEF CallOK
<1>4. /\ maker' = [maker EXCEPT ![t] = IF maker[t].mounted THEN changes @@ maker[t] ELSE maker[t]]
  BY DEF ShowMaker
<1>5. /\ maker'[t] = (IF M(t).mounted THEN changes @@ M(t) ELSE M(t))
      /\ \A u \in Tabs \ {t} : maker'[u] = maker[u]
      /\ maker' \in [Tabs -> MakerState]
  BY <1>1, <1>4 DEF M
<1>6. ScreensTypeOK'
  BY <1>3, <1>5 DEF IInv, ScreensTypeOK, ApiTypeOK, WorldStep, WorldTypeOK
<1>7. ASSUME NEW u \in Tabs \ {t} PROVE TabInv(u)'
  BY <1>1, <1>3, <1>5, TabUntouched DEF WorldStep
<1>8. TabInv(t)'
  <2>1. TabOK(T(t), M(t), calls[t], desk[t].mode, deal)
    BY <1>1 DEF TabInv
  <2>2. M(t).mounted => \A c \in E : c.at \in MakerCalls \cup PublishCalls
    BY <2>1 DEF TabOK
  <2>3. (M(t).mounted => (changes @@ M(t)).mounted) /\ M(t).mounted \in BOOLEAN
    BY <1>1 DEF M, MakerState
  <2>4. TabOK(T(t), maker'[t], E, desk[t].mode, deal')
    BY <1>2, <1>5, <2>1, <2>2, <2>3 DEF TabOK
  <2> QED
    BY <1>3, <2>4 DEF TabInv, T, M
<1> QED
  BY <1>6, <1>7, <1>8 DEF IInv

LEMMA MakerStep ==
  ASSUME IInv, NEW t \in Tabs, NEW changes, NEW E, ~T(t).mounted,
         WorldStep, ShowMaker(t, changes), calls' = [calls EXCEPT ![t] = E],
         UNCHANGED <<taker, account, desk>>,
         \A c \in E \ calls[t] : CallOK(c) /\ c.at \in MakerCalls,
         \A c \in calls[t] \ E : c.at \in MakerCalls,
         M(t).mounted => /\ changes @@ M(t) \in MakerState /\ (changes @@ M(t)).mounted
                         /\ MakerInv(changes @@ M(t), E) /\ MakerTrue(changes @@ M(t), deal')
  PROVE  IInv'
BY MakerStepAnyAccount DEF IInv, ScreensTypeOK

LEMMA NewCallOK ==
  ASSUME NEW at \in TakerCalls \cup MakerCalls, NEW d \in Deals \cup {None},
         NEW x \in Deals \cup {None} \cup 1..MAX_NONCE,
         at \notin Dealless => d \in Deals, at \in QuoteCalls => x \in 1..MAX_NONCE
  PROVE  CallOK(NewCall(at, d, x)) /\ NewCall(at, d, x).at = at
<1>1. at \in {"open-rfq", "join-rfq", "bondApprove", "depositBond", "sign", "quote", "match",
              "xrpl-account", "maker-pay", "payment-status", "settle", "maker-proof",
              "maker-release", "maker-balance", "generate", "orderApprove", "orderDeposit",
              "publish", "submitRfq", "confirm", "prepare", "approve", "deposit", "lock",
              "wallet-pay", "attest", "taker-proof", "release", "taker-balance"}
  BY DEF TakerCalls, TradeCalls, PublishCalls, MakerCalls, TakingCalls, BondCalls, QuoteCalls,
         PayCalls, SettleCalls
<1> QED
  BY <1>1 DEF CallOK, NewCall, Call

LEMMA Finishes == ASSUME NEW t, NEW c, Finish(t, c)
                  PROVE  calls' = [calls EXCEPT ![t] = (calls[t] \ {c}) \cup {}]
BY DEF Finish

LEMMA Thens == ASSUME NEW t, NEW c, NEW at, NEW d, NEW x, Then(t, c, at, d, x)
               PROVE  calls' = [calls EXCEPT ![t] = (calls[t] \ {c}) \cup {NewCall(at, d, x)}]
BY DEF Then

-----------------------------------------------------------------------------
(***************************************************************************)
(* The trade of a taker.                                                   *)
(***************************************************************************)

\* There is one call at most, and it tells the stage.
LEMMA TradeAt ==
  ASSUME NEW w, NEW C, TradeInv(w, C), NEW c \in C, c.at \in TradeCalls
  PROVE  /\ Kind(C, TradeCalls) = {c} /\ TradeAwaits(w) = {c}
         /\ c.at = "prepare" => w.s4 = "preparing"
         /\ c.at \in {"approve", "deposit", "lock"}
            => /\ w.s4 = c.at /\ ~w.s4Error /\ c.deal = w.matchId
         /\ c.at \in {"wallet-pay", "attest", "taker-proof", "release"} =>
              w.s4 = "done" /\ ~w.s5Error /\ c.deal = w.matchId
         /\ c.at \in {"attest", "taker-proof", "release"} => c.with = w.matchId
         /\ c.at = "wallet-pay" => w.s5 = "paying"
         /\ c.at = "attest" => w.s5 = "attesting"
         /\ c.at = "taker-proof" => w.s5 = "proving"
         /\ c.at = "release" => w.s5 = "releasing"
         /\ c.at = "taker-balance" => w.s4 = "done" /\ w.s5 = "balance" /\ c.deal = w.matchId
<1>1. c \in Kind(C, TradeCalls)
  BY DEF Kind
<1>2. c \in TradeAwaits(w)
  BY <1>1 DEF TradeInv
<1>3. TradeAwaits(w) = {c}
  BY <1>2 DEF TradeAwaits
<1> QED
  BY <1>2, <1>3 DEF TradeAwaits, TradeInv, TradeSaved, NewCall

LEMMA TradeMoves ==
  ASSUME NEW w, NEW C, TradeInv(w, C), NEW c \in C, c.at \in TradeCalls,
         NEW v, NEW N, TradeSaved(v), TradeAwaits(v) = N, \A n \in N : n.at \in TradeCalls
  PROVE  TradeInv(v, (C \ {c}) \cup N)
<1>1. Kind(C, TradeCalls) = {c}
  BY TradeAt
<1>2. Kind((C \ {c}) \cup N, TradeCalls) = N
  BY <1>1 DEF Kind
<1> QED
  BY <1>2 DEF TradeInv

LEMMA PublishUntouched ==
  ASSUME NEW w, NEW v, NEW C, NEW E, PublishInv(w, C), v.publishStage = w.publishStage,
         \A c \in (C \ E) \cup (E \ C) : c.at \notin PublishCalls
  PROVE  PublishInv(v, E)
BY KindSame DEF PublishInv

LEMMA TradeUntouched ==
  ASSUME NEW w, NEW v, NEW C, NEW E, TradeInv(w, C),
         v.s4 = w.s4, v.s4Error = w.s4Error, v.prepareData = w.prepareData, v.matchId = w.matchId,
         v.s5 = w.s5, v.s5Error = w.s5Error, v.xrplPayTx = w.xrplPayTx,
         v.attestRound = w.attestRound, v.proofData = w.proofData,
         \A c \in (C \ E) \cup (E \ C) : c.at \notin TradeCalls
  PROVE  TradeInv(v, E)
<1>1. Kind(E, TradeCalls) = Kind(C, TradeCalls)
  BY KindSame
<1>2. TradeAwaits(v) = TradeAwaits(w)
  BY DEF TradeAwaits
<1>3. TradeSaved(v)
  BY DEF TradeInv, TradeSaved
<1> QED
  BY <1>1, <1>2, <1>3 DEF TradeInv

\* An answer in the trade, of a screen that is there or not.
LEMMA TradeStep ==
  ASSUME IInv, NEW t \in Tabs, NEW c \in calls[t], c.at \in TradeCalls, NEW changes, NEW N,
         WorldStep, ShowTaker(t, changes), calls' = [calls EXCEPT ![t] = (calls[t] \ {c}) \cup N],
         UNCHANGED <<maker, account, desk>>,
         \A n \in N : CallOK(n) /\ n.at \in TradeCalls,
         T(t).mounted => LET v == changes @@ T(t)
                         IN  /\ v \in TakerState /\ v.mounted /\ v.publishStage = T(t).publishStage
                             /\ TradeSaved(v) /\ TradeAwaits(v) = N /\ TakerTrue(v, deal')
  PROVE  IInv'
<1> DEFINE v == changes @@ T(t)
           E == (calls[t] \ {c}) \cup N
<1>1. TabOK(T(t), M(t), calls[t], desk[t].mode, deal)
  BY DEF IInv, TabInv
<1>2. ~M(t).mounted
  BY <1>1 DEF TabOK, TradeCalls, MakerCalls, PublishCalls, TakingCalls, BondCalls, QuoteCalls,
              PayCalls, SettleCalls
<1>3. \A e \in (calls[t] \ E) \cup (E \ calls[t]) : e.at \in TradeCalls /\ e.at \notin PublishCalls
  BY DEF TradeCalls, PublishCalls
<1>4. ASSUME T(t).mounted PROVE TakerInv(v, E)
  <2>1. TradeInv(v, E)
    BY <1>1, <1>4, TradeMoves DEF TabOK, TakerInv
  <2>2. PublishInv(v, E)
    BY <1>1, <1>3, <1>4, PublishUntouched DEF TabOK, TakerInv
  <2> QED
    BY <2>1, <2>2 DEF TakerInv
<1>5. \A n \in E \ calls[t] : CallOK(n) /\ n.at \in TakerCalls
  BY DEF TakerCalls
<1>6. \A n \in calls[t] \ E : n.at \in TakerCalls
  BY DEF TakerCalls
<1> HIDE DEF E
<1> QED
  BY <1>2, <1>4, <1>5, <1>6, TakerStep DEF E

\* What the trade part of a screen is after an answer: it is in order, and it awaits N.
TradeShows(w, v, N, D) ==
  /\ v \in TakerState /\ v.mounted /\ v.publishStage = w.publishStage
  /\ TradeSaved(v) /\ TradeAwaits(v) = N /\ TakerTrue(v, D)

LEMMA TradeStops ==
  ASSUME IInv, NEW t \in Tabs, NEW c \in calls[t], c.at \in TradeCalls, NEW changes,
         WorldStep, TakerStops(t, c, changes), UNCHANGED <<maker, account, desk>>,
         T(t).mounted => TradeShows(T(t), changes @@ T(t), {}, deal')
  PROVE  IInv'
<1>1. ShowTaker(t, changes) /\ calls' = [calls EXCEPT ![t] = (calls[t] \ {c}) \cup {}]
  BY Finishes DEF TakerStops
<1> QED
  BY <1>1, TradeStep DEF TradeShows

LEMMA TradeGoesOn ==
  ASSUME IInv, NEW t \in Tabs, NEW c \in calls[t], c.at \in TradeCalls, NEW changes,
         NEW at \in TradeCalls, NEW d \in Deals, NEW x \in Deals \cup {None} \cup 1..MAX_NONCE,
         WorldStep, TakerGoesOn(t, c, changes, at, d, x), UNCHANGED <<maker, account, desk>>,
         T(t).mounted => TradeShows(T(t), changes @@ T(t), {NewCall(at, d, x)}, deal')
  PROVE  IInv'
<1>1. ShowTaker(t, changes)
      /\ calls' = [calls EXCEPT ![t] = (calls[t] \ {c}) \cup {NewCall(at, d, x)}]
  BY Thens DEF TakerGoesOn
<1>2. \A n \in {NewCall(at, d, x)} : CallOK(n) /\ n.at \in TradeCalls
  <2>1. at \notin QuoteCalls
    BY DEF TradeCalls, QuoteCalls
  <2> QED
    BY <2>1, NewCallOK DEF TakerCalls
<1> QED
  BY <1>1, <1>2, TradeStep DEF TradeShows

\* What the answer of a call of the trade finds.
LEMMA TradeFinds ==
  ASSUME IInv, NEW t \in Tabs, NEW at \in TradeCalls, NEW c \in Awaited(t, at)
  PROVE  /\ c \in calls[t] /\ c.at = at
         /\ c.at # "prepare" => c.deal \in Deals
         /\ c.with \in Deals \cup {None} \cup 1..MAX_NONCE
         /\ WorldTypeOK /\ T(t) \in TakerState
         /\ T(t).mounted => /\ TradeInv(T(t), calls[t]) /\ TradeSaved(T(t))
                            /\ TakerTrue(T(t), deal)
<1>1. TabOK(T(t), M(t), calls[t], desk[t].mode, deal) /\ T(t) \in TakerState
  BY DEF IInv, TabInv, ScreensTypeOK, T
<1>2. c \in calls[t] /\ c.at = at
  BY DEF Awaited
<1>3. c.at # "prepare" => c.at \notin Dealless
  BY <1>2 DEF TradeCalls, Dealless
<1> QED
  BY <1>1, <1>2, <1>3, IInvWorld DEF TabOK, CallOK, Call, TakerInv, TradeInv

LEMMA S4FailedShows ==
  ASSUME NEW w \in TakerState, NEW D, w.mounted, TradeSaved(w),
         w.s4 \in {"approve", "deposit", "lock"}
  PROVE  TradeShows(w, s4Failed @@ w, {}, D)
<1>1. PICK v : v = s4Failed @@ w
  OBVIOUS
<1>2. v \in TakerState
  BY <1>1, ZenonT(30) DEF s4Failed, TakerState, @@
<1>3. /\ v.mounted /\ v.publishStage = w.publishStage /\ v.s4 = w.s4 /\ v.s4Error
      /\ v.prepareData = w.prepareData /\ v.matchId = w.matchId /\ v.s5 = w.s5
      /\ v.xrplPayTx = w.xrplPayTx /\ v.attestRound = w.attestRound /\ v.proofData = w.proofData
  BY <1>1 DEF s4Failed, TakerState, @@
<1> QED
  BY <1>1, <1>2, <1>3 DEF TradeShows, TradeSaved, TradeAwaits, TakerTrue

LEMMA S5FailedShows ==
  ASSUME NEW w \in TakerState, NEW D, w.mounted, TradeSaved(w),
         w.s4 = "done", w.s5 \in {"paying", "attesting", "proving", "releasing"}
  PROVE  TradeShows(w, s5Failed @@ w, {}, D)
<1>1. PICK v : v = s5Failed @@ w
  OBVIOUS
<1>2. v \in TakerState
  BY <1>1, ZenonT(30) DEF s5Failed, TakerState, @@
<1>3. /\ v.mounted /\ v.publishStage = w.publishStage /\ v.s4 = w.s4
      /\ v.prepareData = w.prepareData /\ v.matchId = w.matchId /\ v.s5 = w.s5 /\ v.s5Error
      /\ v.xrplPayTx = w.xrplPayTx /\ v.attestRound = w.attestRound /\ v.proofData = w.proofData
  BY <1>1 DEF s5Failed, TakerState, @@
<1> QED
  BY <1>1, <1>2, <1>3 DEF TradeShows, TradeSaved, TradeAwaits, TakerTrue

\* A failure, as a screen hears of it: the effect may be there all the same.
LEMMA FailsKeeps == ASSUME WorldTypeOK, NEW effect, Fails(effect), effect => WorldStep
                    PROVE  WorldStep
BY StillKeeps DEF Fails

LEMMA PreparedShows ==
  ASSUME NEW w \in TakerState, NEW D, w.mounted, TradeSaved(w),
         w.s4 = "preparing", NEW d \in Deals
  PROVE  TradeShows(w, [prepareData |-> d, matchId |-> d, s4 |-> "approve",
                        s4Error |-> FALSE] @@ w, {NewCall("approve", d, None)}, D)
<1>1. PICK v : v = [prepareData |-> d, matchId |-> d, s4 |-> "approve", s4Error |-> FALSE] @@ w
  OBVIOUS
<1>2. v \in TakerState
  BY <1>1, ZenonT(30) DEF TakerState, @@
<1>3. /\ v.mounted /\ v.publishStage = w.publishStage /\ v.s4 = "approve" /\ ~v.s4Error
      /\ v.prepareData = d /\ v.matchId = d /\ v.s5 = w.s5 /\ v.xrplPayTx = w.xrplPayTx
      /\ v.attestRound = w.attestRound /\ v.proofData = w.proofData
  BY <1>1 DEF TakerState, @@
<1> QED
  BY <1>1, <1>2, <1>3 DEF TradeShows, TradeSaved, TradeAwaits, TakerTrue

LEMMA NotPreparedShows ==
  ASSUME NEW w \in TakerState, NEW D, w.mounted, TradeSaved(w),
         w.s4 = "preparing"
  PROVE  TradeShows(w, [s4 |-> "idle", s4Error |-> TRUE] @@ w, {}, D)
<1>1. PICK v : v = [s4 |-> "idle", s4Error |-> TRUE] @@ w
  OBVIOUS
<1>2. v \in TakerState
  BY <1>1, ZenonT(30) DEF TakerState, @@
<1>3. /\ v.mounted /\ v.publishStage = w.publishStage /\ v.s4 = "idle"
      /\ v.prepareData = w.prepareData /\ v.matchId = w.matchId /\ v.s5 = w.s5
      /\ v.xrplPayTx = w.xrplPayTx /\ v.attestRound = w.attestRound /\ v.proofData = w.proofData
  BY <1>1 DEF TakerState, @@
<1> QED
  BY <1>1, <1>2, <1>3 DEF TradeShows, TradeSaved, TradeAwaits, TakerTrue

LEMMA RunLockHeldShows ==
  ASSUME NEW w \in TakerState, NEW D, w.mounted, TradeSaved(w),
         w.s4 = "preparing"
  PROVE  TradeShows(w, [s4 |-> "idle"] @@ w, {}, D)
<1>1. PICK v : v = [s4 |-> "idle"] @@ w
  OBVIOUS
<1>2. v \in TakerState
  BY <1>1, ZenonT(30) DEF TakerState, @@
<1>3. /\ v.mounted /\ v.publishStage = w.publishStage /\ v.s4 = "idle"
      /\ v.prepareData = w.prepareData /\ v.matchId = w.matchId /\ v.s5 = w.s5
      /\ v.xrplPayTx = w.xrplPayTx /\ v.attestRound = w.attestRound /\ v.proofData = w.proofData
  BY <1>1 DEF TakerState, @@
<1> QED
  BY <1>1, <1>2, <1>3 DEF TradeShows, TradeSaved, TradeAwaits, TakerTrue

LEMMA PrepareSleptShows ==
  ASSUME NEW w \in TakerState, NEW D, w.mounted, TradeSaved(w),
         w.s4 = "preparing"
  PROVE  TradeShows(w, ([s4 |-> "idle"] @@ [enabled |-> FALSE]) @@ w, {}, D)
<1>1. PICK v : v = ([s4 |-> "idle"] @@ [enabled |-> FALSE]) @@ w
  OBVIOUS
<1>2. v \in TakerState
  BY <1>1, ZenonT(30) DEF TakerState, @@
<1>3. /\ v.mounted /\ v.publishStage = w.publishStage /\ v.s4 = "idle"
      /\ v.prepareData = w.prepareData /\ v.matchId = w.matchId /\ v.s5 = w.s5
      /\ v.xrplPayTx = w.xrplPayTx /\ v.attestRound = w.attestRound /\ v.proofData = w.proofData
  BY <1>1 DEF TakerState, @@
<1> QED
  BY <1>1, <1>2, <1>3 DEF TradeShows, TradeSaved, TradeAwaits, TakerTrue

LEMMA RunPrepare ==
  ASSUME IInv, NEW t \in Tabs, runPrepare(t), UNCHANGED <<maker, account, desk>>
  PROVE  IInv'
<1> DEFINE approves(d) == [prepareData |-> d, matchId |-> d, s4 |-> "approve", s4Error |-> FALSE]
<1>1. PICK c \in Awaited(t, "prepare"), d \in Deals :
        \/ prepare(t, d) /\ TakerGoesOn(t, c, approves(d), "approve", d, None)
        \/ Fails(prepare(t, d)) /\ TakerStops(t, c, [s4 |-> "idle", s4Error |-> TRUE])
        \/ TakerStops(t, c, [s4 |-> "idle"]) /\ UNCHANGED world
        \/ TakerStops(t, c, [s4 |-> "idle"] @@ [enabled |-> FALSE]) /\ UNCHANGED world
  BY DEF runPrepare, TakerSleeps
<1>2. "prepare" \in TradeCalls /\ "approve" \in TradeCalls
  BY DEF TradeCalls
<1>3. /\ c \in calls[t] /\ c.at = "prepare" /\ WorldTypeOK /\ T(t) \in TakerState
      /\ T(t).mounted => TradeSaved(T(t)) /\ T(t).s4 = "preparing"
  BY <1>2, TradeFinds, TradeAt
<1>4. CASE prepare(t, d) /\ TakerGoesOn(t, c, approves(d), "approve", d, None)
  BY <1>2, <1>3, <1>4, PreparedShows, PrepareKeeps, TradeGoesOn
<1>5. CASE Fails(prepare(t, d)) /\ TakerStops(t, c, [s4 |-> "idle", s4Error |-> TRUE])
  BY <1>2, <1>3, <1>5, NotPreparedShows, PrepareKeeps, FailsKeeps, TradeStops
<1>6. CASE TakerStops(t, c, [s4 |-> "idle"]) /\ UNCHANGED world
  BY <1>2, <1>3, <1>6, RunLockHeldShows, StillKeeps, TradeStops
<1>7. CASE TakerStops(t, c, [s4 |-> "idle"] @@ [enabled |-> FALSE]) /\ UNCHANGED world
  BY <1>2, <1>3, <1>7, PrepareSleptShows, StillKeeps, TradeStops
<1> QED
  BY <1>1, <1>4, <1>5, <1>6, <1>7

LEMMA ApprovedShows ==
  ASSUME NEW w \in TakerState, NEW D, w.mounted, TradeSaved(w),
         w.s4 = "approve"
  PROVE  TradeShows(w, [s4 |-> "deposit", s4Error |-> FALSE] @@ w,
                    {NewCall("deposit", w.matchId, None)}, D)
<1>1. PICK v : v = [s4 |-> "deposit", s4Error |-> FALSE] @@ w
  OBVIOUS
<1>2. v \in TakerState
  BY <1>1, ZenonT(30) DEF TakerState, @@
<1>3. /\ v.mounted /\ v.publishStage = w.publishStage /\ v.s4 = "deposit" /\ ~v.s4Error
      /\ v.prepareData = w.prepareData /\ v.matchId = w.matchId /\ v.s5 = w.s5
      /\ v.xrplPayTx = w.xrplPayTx /\ v.attestRound = w.attestRound /\ v.proofData = w.proofData
  BY <1>1 DEF TakerState, @@
<1> QED
  BY <1>1, <1>2, <1>3 DEF TradeShows, TradeSaved, TradeAwaits, TakerTrue

LEMMA DepositedShows ==
  ASSUME NEW w \in TakerState, NEW D, w.mounted, TradeSaved(w),
         w.s4 = "deposit"
  PROVE  TradeShows(w, [s4 |-> "lock", s4Error |-> FALSE] @@ w, {NewCall("lock", w.matchId, None)},
                    D)
<1>1. PICK v : v = [s4 |-> "lock", s4Error |-> FALSE] @@ w
  OBVIOUS
<1>2. v \in TakerState
  BY <1>1, ZenonT(30) DEF TakerState, @@
<1>3. /\ v.mounted /\ v.publishStage = w.publishStage /\ v.s4 = "lock" /\ ~v.s4Error
      /\ v.prepareData = w.prepareData /\ v.matchId = w.matchId /\ v.s5 = w.s5
      /\ v.xrplPayTx = w.xrplPayTx /\ v.attestRound = w.attestRound /\ v.proofData = w.proofData
  BY <1>1 DEF TakerState, @@
<1> QED
  BY <1>1, <1>2, <1>3 DEF TradeShows, TradeSaved, TradeAwaits, TakerTrue

LEMMA LockedShows ==
  ASSUME NEW w \in TakerState, NEW D, w.mounted, TradeSaved(w),
         w.s4 = "lock"
  PROVE  TradeShows(w, [s4 |-> "done"] @@ w, {}, D)
<1>1. PICK v : v = [s4 |-> "done"] @@ w
  OBVIOUS
<1>2. v \in TakerState
  BY <1>1, ZenonT(30) DEF TakerState, @@
<1>3. /\ v.mounted /\ v.publishStage = w.publishStage /\ v.s4 = "done"
      /\ v.prepareData = w.prepareData /\ v.matchId = w.matchId /\ v.s5 = w.s5
      /\ v.xrplPayTx = w.xrplPayTx /\ v.attestRound = w.attestRound /\ v.proofData = w.proofData
  BY <1>1 DEF TakerState, @@
<1> QED
  BY <1>1, <1>2, <1>3 DEF TradeShows, TradeSaved, TradeAwaits, TakerTrue

LEMMA PaidShows ==
  ASSUME NEW w \in TakerState, NEW D, w.mounted, TradeSaved(w),
         w.s4 = "done", w.s5 = "paying", ~w.s5Error
  PROVE  TradeShows(w, paid(w.matchId) @@ w, {NewCall("attest", w.matchId, w.matchId)}, D)
<1>1. PICK v : v = paid(w.matchId) @@ w
  OBVIOUS
<1>2. v \in TakerState
  BY <1>1, ZenonT(30) DEF paid, TakerState, @@
<1>3. /\ v.mounted /\ v.publishStage = w.publishStage /\ v.s4 = w.s4
      /\ v.prepareData = w.prepareData /\ v.matchId = w.matchId /\ v.s5 = "attesting"
      /\ ~v.s5Error /\ v.xrplPayTx = w.matchId /\ v.attestRound = w.attestRound
      /\ v.proofData = w.proofData
  BY <1>1 DEF paid, TakerState, @@
<1> QED
  BY <1>1, <1>2, <1>3 DEF TradeShows, TradeSaved, TradeAwaits, TakerTrue

\* The match is forgotten, and what was saved of it was nothing yet.
LEMMA PrepareAgainShows ==
  ASSUME NEW w \in TakerState, NEW D, w.mounted, TradeSaved(w),
         w.s4 = "done", w.s5 = "paying", ~w.s5Error
  PROVE  TradeShows(w, prepareAgain @@ w, {}, D)
<1>1. PICK v : v = prepareAgain @@ w
  OBVIOUS
<1>2. v \in TakerState
  BY <1>1, ZenonT(30) DEF prepareAgain, TakerState, @@
<1>3. /\ v.mounted /\ v.publishStage = w.publishStage /\ v.s4 = "idle" /\ v.prepareData = None
      /\ v.matchId = None /\ v.s5 = "idle" /\ v.xrplPayTx = w.xrplPayTx
      /\ v.attestRound = w.attestRound /\ v.proofData = w.proofData
  BY <1>1 DEF prepareAgain, TakerState, @@
<1> QED
  BY <1>1, <1>2, <1>3 DEF TradeShows, TradeSaved, TradeAwaits, TakerTrue

LEMMA PaySleptShows ==
  ASSUME NEW w \in TakerState, NEW D, w.mounted, TradeSaved(w),
         w.s4 = "done", w.s5 = "paying", ~w.s5Error
  PROVE  TradeShows(w, ([s5 |-> "idle"] @@ [enabled |-> FALSE]) @@ w, {}, D)
<1>1. PICK v : v = ([s5 |-> "idle"] @@ [enabled |-> FALSE]) @@ w
  OBVIOUS
<1>2. v \in TakerState
  BY <1>1, ZenonT(30) DEF TakerState, @@
<1>3. /\ v.mounted /\ v.publishStage = w.publishStage /\ v.s4 = w.s4
      /\ v.prepareData = w.prepareData /\ v.matchId = w.matchId /\ v.s5 = "idle"
      /\ v.s5Error = w.s5Error /\ v.xrplPayTx = w.xrplPayTx /\ v.attestRound = w.attestRound
      /\ v.proofData = w.proofData
  BY <1>1 DEF TakerState, @@
<1> QED
  BY <1>1, <1>2, <1>3 DEF TradeShows, TradeSaved, TradeAwaits, TakerTrue

LEMMA AttestedShows ==
  ASSUME NEW w \in TakerState, NEW D, w.mounted, TradeSaved(w),
         w.s4 = "done", w.s5 = "attesting", ~w.s5Error
  PROVE  TradeShows(w, [s5 |-> "proving", s5Error |-> FALSE, attestRound |-> w.matchId] @@ w,
                    {NewCall("taker-proof", w.matchId, w.matchId)}, D)
<1>1. PICK v : v = [s5 |-> "proving", s5Error |-> FALSE, attestRound |-> w.matchId] @@ w
  OBVIOUS
<1>2. v \in TakerState
  BY <1>1, ZenonT(30) DEF TakerState, @@
<1>3. /\ v.mounted /\ v.publishStage = w.publishStage /\ v.s4 = w.s4
      /\ v.prepareData = w.prepareData /\ v.matchId = w.matchId /\ v.s5 = "proving" /\ ~v.s5Error
      /\ v.xrplPayTx = w.xrplPayTx /\ v.attestRound = w.matchId /\ v.proofData = w.proofData
  BY <1>1 DEF TakerState, @@
<1> QED
  BY <1>1, <1>2, <1>3 DEF TradeShows, TradeSaved, TradeAwaits, TakerTrue

LEMMA ProvedShows ==
  ASSUME NEW w \in TakerState, NEW D, w.mounted, TradeSaved(w),
         w.s4 = "done", w.s5 = "proving", ~w.s5Error
  PROVE  TradeShows(w, [s5 |-> "releasing", s5Error |-> FALSE, proofData |-> w.matchId] @@ w,
                    {NewCall("release", w.matchId, w.matchId)}, D)
<1>1. PICK v : v = [s5 |-> "releasing", s5Error |-> FALSE, proofData |-> w.matchId] @@ w
  OBVIOUS
<1>2. v \in TakerState
  BY <1>1, ZenonT(30) DEF TakerState, @@
<1>3. /\ v.mounted /\ v.publishStage = w.publishStage /\ v.s4 = w.s4
      /\ v.prepareData = w.prepareData /\ v.matchId = w.matchId /\ v.s5 = "releasing"
      /\ ~v.s5Error /\ v.xrplPayTx = w.xrplPayTx /\ v.attestRound = w.attestRound
      /\ v.proofData = w.matchId
  BY <1>1 DEF TakerState, @@
<1> QED
  BY <1>1, <1>2, <1>3 DEF TradeShows, TradeSaved, TradeAwaits, TakerTrue

LEMMA ReleasedShows ==
  ASSUME NEW w \in TakerState, NEW D, w.mounted, TradeSaved(w),
         w.s4 = "done", w.s5 = "releasing", ~w.s5Error, D[w.matchId].phase = "released"
  PROVE  TradeShows(w, [s5 |-> "balance"] @@ w, {NewCall("taker-balance", w.matchId, None)}, D)
<1>1. PICK v : v = [s5 |-> "balance"] @@ w
  OBVIOUS
<1>2. v \in TakerState
  BY <1>1, ZenonT(30) DEF TakerState, @@
<1>3. /\ v.mounted /\ v.publishStage = w.publishStage /\ v.s4 = w.s4
      /\ v.prepareData = w.prepareData /\ v.matchId = w.matchId /\ v.s5 = "balance"
      /\ v.xrplPayTx = w.xrplPayTx /\ v.attestRound = w.attestRound /\ v.proofData = w.proofData
  BY <1>1 DEF TakerState, @@
<1> QED
  BY <1>1, <1>2, <1>3 DEF TradeShows, TradeSaved, TradeAwaits, TakerTrue

LEMMA BalanceShows ==
  ASSUME NEW w \in TakerState, NEW D, w.mounted, TradeSaved(w),
         w.s4 = "done", w.s5 = "balance", D[w.matchId].phase = "released"
  PROVE  TradeShows(w, [s5 |-> "done"] @@ w, {}, D)
<1>1. PICK v : v = [s5 |-> "done"] @@ w
  OBVIOUS
<1>2. v \in TakerState
  BY <1>1, ZenonT(30) DEF TakerState, @@
<1>3. /\ v.mounted /\ v.publishStage = w.publishStage /\ v.s4 = w.s4
      /\ v.prepareData = w.prepareData /\ v.matchId = w.matchId /\ v.s5 = "done"
      /\ v.xrplPayTx = w.xrplPayTx /\ v.attestRound = w.attestRound /\ v.proofData = w.proofData
  BY <1>1 DEF TakerState, @@
<1> QED
  BY <1>1, <1>2, <1>3 DEF TradeShows, TradeSaved, TradeAwaits, TakerTrue

LEMMA RunApprove ==
  ASSUME IInv, NEW t \in Tabs, runApprove(t), UNCHANGED <<maker, account, desk>>
  PROVE  IInv'
<1>1. PICK c \in Awaited(t, "approve") :
        \/ /\ UNCHANGED world
           /\ TakerGoesOn(t, c, [s4 |-> "deposit", s4Error |-> FALSE], "deposit", c.deal, None)
        \/ UNCHANGED world /\ TakerStops(t, c, s4Failed)
  BY DEF runApprove, sendApprove, Answers
<1>2. "approve" \in TradeCalls /\ "deposit" \in TradeCalls
  BY DEF TradeCalls
<1>3. /\ c \in calls[t] /\ c.at = "approve" /\ WorldTypeOK /\ T(t) \in TakerState
      /\ c.deal \in Deals
      /\ c.with \in Deals \cup {None} \cup 1..MAX_NONCE
      /\ T(t).mounted => TradeSaved(T(t)) /\ T(t).s4 = "approve" /\ c.deal = T(t).matchId
  BY <1>2, TradeFinds, TradeAt
<1>4. CASE /\ UNCHANGED world
           /\ TakerGoesOn(t, c, [s4 |-> "deposit", s4Error |-> FALSE], "deposit", c.deal, None)
  BY <1>2, <1>3, <1>4, ApprovedShows, StillKeeps, TradeGoesOn
<1>5. CASE UNCHANGED world /\ TakerStops(t, c, s4Failed)
  BY <1>2, <1>3, <1>5, S4FailedShows, StillKeeps, TradeStops
<1> QED
  BY <1>1, <1>4, <1>5

LEMMA RunDeposit ==
  ASSUME IInv, NEW t \in Tabs, runDeposit(t), UNCHANGED <<maker, account, desk>>
  PROVE  IInv'
<1>1. PICK c \in Awaited(t, "deposit") :
        \/ /\ deposit(t)
           /\ TakerGoesOn(t, c, [s4 |-> "lock", s4Error |-> FALSE], "lock", c.deal, None)
        \/ Fails(deposit(t)) /\ TakerStops(t, c, s4Failed)
  BY DEF runDeposit
<1>2. "deposit" \in TradeCalls /\ "lock" \in TradeCalls
  BY DEF TradeCalls
<1>3. /\ c \in calls[t] /\ c.at = "deposit" /\ WorldTypeOK /\ T(t) \in TakerState
      /\ c.deal \in Deals
      /\ c.with \in Deals \cup {None} \cup 1..MAX_NONCE
      /\ T(t).mounted => TradeSaved(T(t)) /\ T(t).s4 = "deposit" /\ c.deal = T(t).matchId
  BY <1>2, TradeFinds, TradeAt
<1>4. CASE /\ deposit(t)
           /\ TakerGoesOn(t, c, [s4 |-> "lock", s4Error |-> FALSE], "lock", c.deal, None)
  BY <1>2, <1>3, <1>4, DepositedShows, DepositKeeps, TradeGoesOn
<1>5. CASE Fails(deposit(t)) /\ TakerStops(t, c, s4Failed)
  BY <1>2, <1>3, <1>5, S4FailedShows, DepositKeeps, FailsKeeps, TradeStops
<1> QED
  BY <1>1, <1>4, <1>5

LEMMA RunLock ==
  ASSUME IInv, NEW t \in Tabs, runLock(t), UNCHANGED <<maker, account, desk>>
  PROVE  IInv'
<1>1. PICK c \in Awaited(t, "lock") :
        \/ lock(t, c.deal) /\ TakerStops(t, c, [s4 |-> "done"])
        \/ Fails(lock(t, c.deal)) /\ TakerStops(t, c, s4Failed)
  BY DEF runLock
<1>2. "lock" \in TradeCalls
  BY DEF TradeCalls
<1>3. /\ c \in calls[t] /\ c.at = "lock" /\ WorldTypeOK /\ T(t) \in TakerState /\ c.deal \in Deals
      /\ c.with \in Deals \cup {None} \cup 1..MAX_NONCE
      /\ T(t).mounted => TradeSaved(T(t)) /\ T(t).s4 = "lock" /\ c.deal = T(t).matchId
  BY <1>2, TradeFinds, TradeAt
<1>4. CASE lock(t, c.deal) /\ TakerStops(t, c, [s4 |-> "done"])
  BY <1>2, <1>3, <1>4, LockedShows, LockKeeps, TradeStops
<1>5. CASE Fails(lock(t, c.deal)) /\ TakerStops(t, c, s4Failed)
  BY <1>2, <1>3, <1>5, S4FailedShows, LockKeeps, FailsKeeps, TradeStops
<1> QED
  BY <1>1, <1>4, <1>5

LEMMA RunPay ==
  ASSUME IInv, NEW t \in Tabs, runPay(t), UNCHANGED <<maker, account, desk>>
  PROVE  IInv'
<1>1. PICK c \in Awaited(t, "wallet-pay") :
        \/ walletPay(c.deal) /\ TakerGoesOn(t, c, paid(c.deal), "attest", c.deal, c.deal)
        \/ forgotten(c.deal) /\ TakerStops(t, c, prepareAgain)
        \/ Fails(walletPay(c.deal)) /\ TakerStops(t, c, s5Failed)
        \/ TakerStops(t, c, [s5 |-> "idle"] @@ [enabled |-> FALSE]) /\ UNCHANGED world
  BY DEF runPay, TakerSleeps
<1>2. "wallet-pay" \in TradeCalls /\ "attest" \in TradeCalls
  BY DEF TradeCalls
<1>3. /\ c \in calls[t] /\ c.at = "wallet-pay" /\ WorldTypeOK /\ T(t) \in TakerState
      /\ c.deal \in Deals
      /\ c.with \in Deals \cup {None} \cup 1..MAX_NONCE
      /\ T(t).mounted => /\ TradeSaved(T(t)) /\ T(t).s4 = "done" /\ T(t).s5 = "paying"
                       /\ ~T(t).s5Error /\ c.deal = T(t).matchId
  BY <1>2, TradeFinds, TradeAt
<1>4. CASE walletPay(c.deal) /\ TakerGoesOn(t, c, paid(c.deal), "attest", c.deal, c.deal)
  BY <1>2, <1>3, <1>4, PaidShows, PaysKeeps, TradeGoesOn DEF walletPay
<1>5. CASE forgotten(c.deal) /\ TakerStops(t, c, prepareAgain)
  BY <1>2, <1>3, <1>5, PrepareAgainShows, StillKeeps, TradeStops DEF forgotten
<1>6. CASE Fails(walletPay(c.deal)) /\ TakerStops(t, c, s5Failed)
  BY <1>2, <1>3, <1>6, S5FailedShows, PaysKeeps, FailsKeeps, TradeStops DEF walletPay
<1>7. CASE TakerStops(t, c, [s5 |-> "idle"] @@ [enabled |-> FALSE]) /\ UNCHANGED world
  BY <1>2, <1>3, <1>7, PaySleptShows, StillKeeps, TradeStops
<1> QED
  BY <1>1, <1>4, <1>5, <1>6, <1>7

LEMMA RunAttest ==
  ASSUME IInv, NEW t \in Tabs, runAttest(t), UNCHANGED <<maker, account, desk>>
  PROVE  IInv'
<1>1. PICK c \in Awaited(t, "attest") :
        \/ /\ UNCHANGED world /\ T(t).mounted
           /\ TakerGoesOn(t, c, [s5 |-> "proving", s5Error |-> FALSE, attestRound |-> c.with],
                          "taker-proof", c.deal, c.with)
        \/ UNCHANGED world /\ TakerStops(t, c, s5Failed)
  BY DEF runAttest, attest, takerPollsProof, Answers
<1>2. "attest" \in TradeCalls /\ "taker-proof" \in TradeCalls
  BY DEF TradeCalls
<1>3. /\ c \in calls[t] /\ c.at = "attest" /\ WorldTypeOK /\ T(t) \in TakerState
      /\ c.deal \in Deals
      /\ c.with \in Deals \cup {None} \cup 1..MAX_NONCE
      /\ T(t).mounted => /\ TradeSaved(T(t)) /\ T(t).s4 = "done" /\ T(t).s5 = "attesting"
                       /\ ~T(t).s5Error /\ c.deal = T(t).matchId /\ c.with = T(t).matchId
  BY <1>2, TradeFinds, TradeAt
<1>4. CASE /\ UNCHANGED world /\ T(t).mounted
           /\ TakerGoesOn(t, c, [s5 |-> "proving", s5Error |-> FALSE, attestRound |-> c.with],
                          "taker-proof", c.deal, c.with)
  BY <1>2, <1>3, <1>4, AttestedShows, StillKeeps, TradeGoesOn
<1>5. CASE UNCHANGED world /\ TakerStops(t, c, s5Failed)
  BY <1>2, <1>3, <1>5, S5FailedShows, StillKeeps, TradeStops
<1> QED
  BY <1>1, <1>4, <1>5

LEMMA RunProve ==
  ASSUME IInv, NEW t \in Tabs, runProve(t), UNCHANGED <<maker, account, desk>>
  PROVE  IInv'
<1>1. PICK c \in Awaited(t, "taker-proof") :
        \/ /\ UNCHANGED world
           /\ TakerGoesOn(t, c, [s5 |-> "releasing", s5Error |-> FALSE, proofData |-> c.with],
                          "release", c.deal, c.with)
        \/ UNCHANGED world /\ TakerStops(t, c, s5Failed)
  BY DEF runProve, proofRoute, checkProofOnce, Answers
<1>2. "taker-proof" \in TradeCalls /\ "release" \in TradeCalls
  BY DEF TradeCalls
<1>3. /\ c \in calls[t] /\ c.at = "taker-proof" /\ WorldTypeOK /\ T(t) \in TakerState
      /\ c.deal \in Deals
      /\ c.with \in Deals \cup {None} \cup 1..MAX_NONCE
      /\ T(t).mounted => /\ TradeSaved(T(t)) /\ T(t).s4 = "done" /\ T(t).s5 = "proving"
                       /\ ~T(t).s5Error /\ c.deal = T(t).matchId /\ c.with = T(t).matchId
  BY <1>2, TradeFinds, TradeAt
<1>4. CASE /\ UNCHANGED world
           /\ TakerGoesOn(t, c, [s5 |-> "releasing", s5Error |-> FALSE, proofData |-> c.with],
                          "release", c.deal, c.with)
  BY <1>2, <1>3, <1>4, ProvedShows, StillKeeps, TradeGoesOn
<1>5. CASE UNCHANGED world /\ TakerStops(t, c, s5Failed)
  BY <1>2, <1>3, <1>5, S5FailedShows, StillKeeps, TradeStops
<1> QED
  BY <1>1, <1>4, <1>5

LEMMA ReleaseReleases ==
  ASSUME WorldTypeOK, NEW d \in Deals, NEW proof, release(d, proof)
  PROVE  deal'[d].phase = "released"
<1>1. deal[d] \in Deal
  BY DEF WorldTypeOK
<1>2. deal'[d] = [phase |-> "released"] @@ deal[d]
  BY DEF release, Set, WorldTypeOK
<1> QED
  BY <1>1, <1>2 DEF Deal, @@

LEMMA RunRelease ==
  ASSUME IInv, NEW t \in Tabs, runRelease(t), UNCHANGED <<maker, account, desk>>
  PROVE  IInv'
<1>1. PICK c \in Awaited(t, "release") :
        \/ /\ release(c.deal, c.with)
           /\ TakerGoesOn(t, c, [s5 |-> "balance"], "taker-balance", c.deal, None)
        \/ Fails(release(c.deal, c.with)) /\ TakerStops(t, c, s5Failed)
  BY DEF runRelease
<1>2. "release" \in TradeCalls /\ "taker-balance" \in TradeCalls
  BY DEF TradeCalls
<1>3. /\ c \in calls[t] /\ c.at = "release" /\ WorldTypeOK /\ T(t) \in TakerState
      /\ c.deal \in Deals
      /\ c.with \in Deals \cup {None} \cup 1..MAX_NONCE
      /\ T(t).mounted => /\ TradeSaved(T(t)) /\ T(t).s4 = "done" /\ T(t).s5 = "releasing"
                       /\ ~T(t).s5Error /\ c.deal = T(t).matchId /\ c.with = T(t).matchId
  BY <1>2, TradeFinds, TradeAt
<1>4. CASE /\ release(c.deal, c.with)
           /\ TakerGoesOn(t, c, [s5 |-> "balance"], "taker-balance", c.deal, None)
  BY <1>2, <1>3, <1>4, ReleasedShows, ReleaseReleases, ReleaseKeeps, TradeGoesOn
<1>5. CASE Fails(release(c.deal, c.with)) /\ TakerStops(t, c, s5Failed)
  BY <1>2, <1>3, <1>5, S5FailedShows, ReleaseKeeps, FailsKeeps, TradeStops
<1> QED
  BY <1>1, <1>4, <1>5

LEMMA RunBalance ==
  ASSUME IInv, NEW t \in Tabs, runBalance(t), UNCHANGED <<maker, account, desk>>
  PROVE  IInv'
<1>1. PICK c \in Awaited(t, "taker-balance") :
        \/ UNCHANGED world /\ TakerStops(t, c, [s5 |-> "done"])
  BY DEF runBalance, pollFinalXrplBalance, getXrplBalance, Answers
<1>2. "taker-balance" \in TradeCalls
  BY DEF TradeCalls
<1>3. /\ c \in calls[t] /\ c.at = "taker-balance" /\ WorldTypeOK /\ T(t) \in TakerState
      /\ c.deal \in Deals
      /\ c.with \in Deals \cup {None} \cup 1..MAX_NONCE
      /\ T(t).mounted => /\ T(t).s4 = "done" /\ T(t).s5 = "balance" /\ TradeSaved(T(t))
                       /\ c.deal = T(t).matchId /\ deal[T(t).matchId].phase = "released"
  BY <1>2, TradeFinds, TradeAt DEF TakerTrue
<1>4. CASE UNCHANGED world /\ TakerStops(t, c, [s5 |-> "done"])
  BY <1>2, <1>3, <1>4, BalanceShows, StillKeeps, TradeStops DEF world
<1> QED
  BY <1>1, <1>4

LEMMA TradePress ==
  ASSUME IInv, NEW t \in Tabs, T(t).mounted, NEW at \in TradeCalls, NEW changes,
         NEW d \in Deals \cup {None}, at \notin Dealless => d \in Deals,
         NEW x \in Deals \cup {None},
         TakerPresses(t, at, d, x, changes), UNCHANGED <<maker, account, desk>>,
         TradeAwaits(T(t)) = {},
         TradeShows(T(t), changes @@ T(t), {NewCall(at, d, x)}, deal')
  PROVE  IInv'
<1> DEFINE n == NewCall(at, d, x)
           E == calls[t] \cup {n}
<1>1. WorldStep /\ ShowTaker(t, changes) /\ calls' = [calls EXCEPT ![t] = E]
  BY IInvWorld, StillKeeps DEF TakerPresses, Ask
<1>2. CallOK(n) /\ n.at \in TradeCalls
  <2>1. at \notin QuoteCalls
    BY DEF TradeCalls, QuoteCalls
  <2> QED
    BY <2>1, NewCallOK DEF TakerCalls
<1>3. TabOK(T(t), M(t), calls[t], desk[t].mode, deal)
  BY DEF IInv, TabInv
<1>4. ~M(t).mounted
  BY <1>3 DEF TabOK
<1> HIDE DEF n
<1>5. \A e \in (calls[t] \ E) \cup (E \ calls[t]) : e.at \in TradeCalls /\ e.at \notin PublishCalls
  BY <1>2 DEF TradeCalls, PublishCalls
<1>6. Kind(E, TradeCalls) = {n}
  BY <1>2, <1>3 DEF Kind, TabOK, TakerInv, TradeInv
<1>7. TakerInv(changes @@ T(t), E)
  BY <1>3, <1>5, <1>6, PublishUntouched DEF TabOK, TakerInv, TradeInv, TradeShows, n
<1>8. \A e \in E \ calls[t] : CallOK(e) /\ e.at \in TakerCalls
  BY <1>2 DEF TakerCalls
<1>9. \A e \in calls[t] \ E : e.at \in TakerCalls
  OBVIOUS
<1> HIDE DEF E
<1> QED
  BY <1>1, <1>4, <1>7, <1>8, <1>9, TakerStep DEF TradeShows

\* What a press finds.
LEMMA TakerSees ==
  ASSUME IInv, NEW t \in Tabs, T(t).mounted
  PROVE  /\ T(t) \in TakerState /\ TradeSaved(T(t)) /\ ~M(t).mounted
         /\ calls \in [Tabs -> SUBSET Call]
         /\ TakerInv(T(t), calls[t])
BY DEF IInv, ScreensTypeOK, ApiTypeOK, TabInv, TabOK, TakerInv, TradeInv, T

LEMMA PreparingShows ==
  ASSUME NEW w \in TakerState, NEW D, w.mounted, TradeSaved(w),
         w.s4 = "idle"
  PROVE  TradeShows(w, [s4 |-> "preparing", s4Error |-> FALSE] @@ w,
                    {NewCall("prepare", None, None)}, D)
<1>1. PICK v : v = [s4 |-> "preparing", s4Error |-> FALSE] @@ w
  OBVIOUS
<1>2. v \in TakerState
  BY <1>1, ZenonT(30) DEF TakerState, @@
<1>3. /\ v.mounted /\ v.publishStage = w.publishStage /\ v.s4 = "preparing" /\ ~v.s4Error
      /\ v.prepareData = w.prepareData /\ v.matchId = w.matchId /\ v.s5 = w.s5
      /\ v.xrplPayTx = w.xrplPayTx /\ v.attestRound = w.attestRound /\ v.proofData = w.proofData
  BY <1>1 DEF TakerState, @@
<1> QED
  BY <1>1, <1>2, <1>3 DEF TradeShows, TradeSaved, TradeAwaits, TakerTrue

LEMMA RetryingShows ==
  ASSUME NEW w \in TakerState, NEW D, w.mounted, TradeSaved(w),
         w.s4 \in {"approve", "deposit", "lock"}
  PROVE  TradeShows(w, [s4Error |-> FALSE] @@ w, {NewCall(w.s4, w.matchId, None)}, D)
<1>1. PICK v : v = [s4Error |-> FALSE] @@ w
  OBVIOUS
<1>2. v \in TakerState
  BY <1>1, ZenonT(30) DEF TakerState, @@
<1>3. /\ v.mounted /\ v.publishStage = w.publishStage /\ v.s4 = w.s4 /\ ~v.s4Error
      /\ v.prepareData = w.prepareData /\ v.matchId = w.matchId /\ v.s5 = w.s5
      /\ v.xrplPayTx = w.xrplPayTx /\ v.attestRound = w.attestRound /\ v.proofData = w.proofData
  BY <1>1 DEF TakerState, @@
<1> QED
  BY <1>1, <1>2, <1>3 DEF TradeShows, TradeSaved, TradeAwaits, TakerTrue

LEMMA PayingShows ==
  ASSUME NEW w \in TakerState, NEW D, w.mounted, TradeSaved(w),
         w.s4 = "done", w.s5 \in {"idle", "paying"}
  PROVE  TradeShows(w, [s5 |-> "paying", s5Error |-> FALSE] @@ w,
                    {NewCall("wallet-pay", w.matchId, None)}, D)
<1>1. PICK v : v = [s5 |-> "paying", s5Error |-> FALSE] @@ w
  OBVIOUS
<1>2. v \in TakerState
  BY <1>1, ZenonT(30) DEF TakerState, @@
<1>3. /\ v.mounted /\ v.publishStage = w.publishStage /\ v.s4 = w.s4
      /\ v.prepareData = w.prepareData /\ v.matchId = w.matchId /\ v.s5 = "paying" /\ ~v.s5Error
      /\ v.xrplPayTx = w.xrplPayTx /\ v.attestRound = w.attestRound /\ v.proofData = w.proofData
  BY <1>1 DEF TakerState, @@
<1> QED
  BY <1>1, <1>2, <1>3 DEF TradeShows, TradeSaved, TradeAwaits, TakerTrue

LEMMA ResumingShows ==
  ASSUME NEW w \in TakerState, NEW D, w.mounted, TradeSaved(w),
         w.s4 = "done", w.s5 \in {"attesting", "proving", "releasing"}
  PROVE  TradeShows(w, [s5Error |-> FALSE] @@ w, {NewCall(IF w.s5 = "attesting" THEN "attest"
                                                        ELSE IF w.s5 = "proving" THEN "taker-proof" ELSE "release",
                                                        w.matchId, w.matchId)}, D)
<1>1. PICK v : v = [s5Error |-> FALSE] @@ w
  OBVIOUS
<1>2. v \in TakerState
  BY <1>1, ZenonT(30) DEF TakerState, @@
<1>3. /\ v.mounted /\ v.publishStage = w.publishStage /\ v.s4 = w.s4
      /\ v.prepareData = w.prepareData /\ v.matchId = w.matchId /\ v.s5 = w.s5 /\ ~v.s5Error
      /\ v.xrplPayTx = w.xrplPayTx /\ v.attestRound = w.attestRound /\ v.proofData = w.proofData
  BY <1>1 DEF TakerState, @@
<1> QED
  BY <1>1, <1>2, <1>3 DEF TradeShows, TradeSaved, TradeAwaits, TakerTrue

LEMMA PressPrepare ==
  ASSUME IInv, NEW t \in Tabs, pressPrepare(t), UNCHANGED <<maker, account, desk>>
  PROVE  IInv'
<1>1. /\ T(t).mounted /\ T(t).s4 = "idle" /\ "prepare" \in TradeCalls /\ "prepare" \in Dealless
      /\ TakerPresses(t, "prepare", None, None, [s4 |-> "preparing", s4Error |-> FALSE])
  BY DEF pressPrepare, TakerShown, TakerThere, TradeCalls, Dealless
<1>2. TradeAwaits(T(t)) = {}
  BY <1>1, TakerSees DEF TradeAwaits, TradeSaved
<1> QED
  BY <1>1, <1>2, TakerSees, PreparingShows, TradePress

LEMMA RetryTransaction ==
  ASSUME IInv, NEW t \in Tabs, retryTransaction(t), UNCHANGED <<maker, account, desk>>
  PROVE  IInv'
<1>1. PICK at \in {"approve", "deposit", "lock"} :
        /\ TakerShown(t, {2}) /\ T(t).s4 = at /\ T(t).s4Error
        /\ TakerPresses(t, at, T(t).prepareData, None, [s4Error |-> FALSE])
  BY DEF retryTransaction
<1>2. T(t).mounted /\ at \in TradeCalls
  BY <1>1 DEF TakerShown, TakerThere, TradeCalls
<1>3. TradeAwaits(T(t)) = {} /\ T(t).matchId \in Deals /\ T(t).prepareData = T(t).matchId
  BY <1>1, <1>2, TakerSees DEF TradeAwaits, TradeSaved
<1> QED
  BY <1>1, <1>2, <1>3, TakerSees, RetryingShows, TradePress

LEMMA PressPay ==
  ASSUME IInv, NEW t \in Tabs, pressPay(t), UNCHANGED <<maker, account, desk>>
  PROVE  IInv'
<1>1. /\ T(t).mounted /\ takerStep(t) = 3 /\ "wallet-pay" \in TradeCalls
      /\ T(t).s5 = "idle" \/ (T(t).s5 = "paying" /\ T(t).s5Error)
      /\ TakerPresses(t, "wallet-pay", T(t).matchId, None, [s5 |-> "paying", s5Error |-> FALSE])
  BY DEF pressPay, TakerShown, TakerThere, TradeCalls
<1>2. T(t).s4 = "done"
  BY <1>1 DEF takerStep
<1>3. TradeAwaits(T(t)) = {} /\ T(t).matchId \in Deals
  BY <1>1, <1>2, TakerSees DEF TradeAwaits, TradeSaved
<1> QED
  BY <1>1, <1>2, <1>3, TakerSees, PayingShows, TradePress

LEMMA RetrySettlement ==
  ASSUME IInv, NEW t \in Tabs, UNCHANGED <<maker, account, desk>>,
         \/ retrySettlement(t, "attesting", "attest", T(t).xrplPayTx)
         \/ retrySettlement(t, "proving", "taker-proof", T(t).attestRound)
         \/ retrySettlement(t, "releasing", "release", T(t).proofData)
  PROVE  IInv'
<1> DEFINE at == IF T(t).s5 = "attesting" THEN "attest"
                 ELSE IF T(t).s5 = "proving" THEN "taker-proof" ELSE "release"
<1>1. /\ T(t).mounted /\ takerStep(t) = 3 /\ T(t).s5 \in {"attesting", "proving", "releasing"}
      /\ T(t).s5Error
  BY DEF retrySettlement, TakerShown, TakerThere
<1>2. T(t).s4 = "done"
  BY <1>1 DEF takerStep
<1>3. /\ TradeAwaits(T(t)) = {} /\ T(t).matchId \in Deals
      /\ T(t).xrplPayTx = T(t).matchId
      /\ T(t).s5 \in {"proving", "releasing"} => T(t).attestRound = T(t).matchId
      /\ T(t).s5 = "releasing" => T(t).proofData = T(t).matchId
  BY <1>1, <1>2, TakerSees DEF TradeAwaits, TradeSaved
<1>4. TakerPresses(t, at, T(t).matchId, T(t).matchId, [s5Error |-> FALSE])
  BY <1>3 DEF retrySettlement
<1>5. at \in TradeCalls
  BY DEF TradeCalls
<1>6. TradeShows(T(t), [s5Error |-> FALSE] @@ T(t), {NewCall(at, T(t).matchId, T(t).matchId)},
                 deal')
  BY <1>1, <1>2, TakerSees, ResumingShows
<1> HIDE DEF at
<1> QED
  BY <1>1, <1>3, <1>4, <1>5, <1>6, TradePress

-----------------------------------------------------------------------------
(***************************************************************************)
(* The rest of the taker's screen, which leaves the trade alone.           *)
(***************************************************************************)
SameTrade(w, v) ==
  /\ v.s4 = w.s4 /\ v.s4Error = w.s4Error /\ v.prepareData = w.prepareData /\ v.matchId = w.matchId
  /\ v.s5 = w.s5 /\ v.s5Error = w.s5Error /\ v.xrplPayTx = w.xrplPayTx
  /\ v.attestRound = w.attestRound /\ v.proofData = w.proofData

OrderCalls == PublishCalls \cup {"generate"}

LEMMA OrderStep ==
  ASSUME IInv, NEW t \in Tabs, NEW changes, NEW E,
         WorldStep, ShowTaker(t, changes), calls' = [calls EXCEPT ![t] = E],
         UNCHANGED <<maker, account, desk>>,
         \A c \in E \ calls[t] : /\ CallOK(c) /\ c.at \in OrderCalls
                                 /\ M(t).mounted => c.at \in PublishCalls,
         \A c \in calls[t] \ E : c.at \in OrderCalls,
         T(t).mounted => LET v == changes @@ T(t)
                         IN  v \in TakerState /\ v.mounted /\ SameTrade(T(t), v)
                             /\ PublishInv(v, E)
  PROVE  IInv'
<1> DEFINE v == changes @@ T(t)
<1>1. TabOK(T(t), M(t), calls[t], desk[t].mode, deal)
  BY DEF IInv, TabInv
<1>2. OrderCalls \subseteq TakerCalls /\ OrderCalls \cap TradeCalls = {}
  BY DEF OrderCalls, TakerCalls, TradeCalls, PublishCalls
<1>3. ASSUME T(t).mounted PROVE TakerInv(v, E) /\ TakerTrue(v, deal')
  <2>1. TradeInv(T(t), calls[t]) /\ TakerTrue(T(t), deal')
    BY <1>1, <1>3, TakerStillTrue DEF TabOK, TakerInv, WorldStep
  <2>2. TradeInv(v, E)
    BY <1>2, <1>3, <2>1, TradeUntouched DEF SameTrade
  <2> QED
    BY <1>3, <2>1, <2>2 DEF TakerInv, TakerTrue, SameTrade
<1> QED
  BY <1>2, <1>3, TakerStep

\* The screen with the order at a stage, and the trade as it was.
Placing(w, v, stage) ==
  v \in TakerState /\ v.mounted /\ SameTrade(w, v) /\ v.publishStage = stage

LEMMA NoChange ==
  ASSUME NEW w, w = [f \in DOMAIN w |-> w[f]]
  PROVE  <<>> @@ w = w
<1>1. DOMAIN <<>> = {}
  BY SMT
<1>2. <<>> @@ w = [f \in DOMAIN w |-> w[f]]
  BY <1>1, SMT DEF @@
<1> QED
  BY <1>2

LEMMA SameShows ==
  ASSUME NEW w \in TakerState, w.mounted
  PROVE  Placing(w, <<>> @@ w, w.publishStage)
<1>1. <<>> @@ w = w
  BY NoChange DEF TakerState
<1> QED
  BY <1>1 DEF Placing, SameTrade

LEMMA NotEnabledShows ==
  ASSUME NEW w \in TakerState, w.mounted
  PROVE  Placing(w, [enabled |-> FALSE] @@ w, w.publishStage)
<1>1. PICK v : v = [enabled |-> FALSE] @@ w
  OBVIOUS
<1>2. v \in TakerState
  BY <1>1, ZenonT(30) DEF TakerState, @@
<1>3. v.mounted /\ v.publishStage = w.publishStage
  BY <1>1 DEF TakerState, @@
<1>4. SameTrade(w, v)
  BY <1>1 DEF TakerState, SameTrade, @@
<1> QED
  BY <1>1, <1>2, <1>3, <1>4 DEF Placing

LEMMA AsleepShows ==
  ASSUME NEW w \in TakerState, w.mounted
  PROVE  Placing(w, (<<>> @@ [enabled |-> FALSE]) @@ w, w.publishStage)
<1>1. PICK g : g = [enabled |-> FALSE]
  OBVIOUS
<1>2. <<>> @@ g = g
  BY <1>1, NoChange
<1> QED
  BY <1>1, <1>2, NotEnabledShows

LEMMA AddressShows ==
  ASSUME NEW w \in TakerState, w.mounted
  PROVE  Placing(w, [xrplAddress |-> TRUE] @@ w, w.publishStage)
<1>1. PICK v : v = [xrplAddress |-> TRUE] @@ w
  OBVIOUS
<1>2. v \in TakerState
  BY <1>1, ZenonT(30) DEF TakerState, @@
<1>3. v.mounted /\ v.publishStage = w.publishStage
  BY <1>1 DEF TakerState, @@
<1>4. SameTrade(w, v)
  BY <1>1 DEF TakerState, SameTrade, @@
<1> QED
  BY <1>1, <1>2, <1>3, <1>4 DEF Placing

LEMMA TermsShow ==
  ASSUME NEW w \in TakerState, w.mounted
  PROVE  Placing(w, [terms |-> TRUE] @@ w, w.publishStage)
<1>1. PICK v : v = [terms |-> TRUE] @@ w
  OBVIOUS
<1>2. v \in TakerState
  BY <1>1, ZenonT(30) DEF TakerState, @@
<1>3. v.mounted /\ v.publishStage = w.publishStage
  BY <1>1 DEF TakerState, @@
<1>4. SameTrade(w, v)
  BY <1>1 DEF TakerState, SameTrade, @@
<1> QED
  BY <1>1, <1>2, <1>3, <1>4 DEF Placing

LEMMA FillShows ==
  ASSUME NEW w \in TakerState, w.mounted
  PROVE  Placing(w, [fill |-> TRUE] @@ w, w.publishStage)
<1>1. PICK v : v = [fill |-> TRUE] @@ w
  OBVIOUS
<1>2. v \in TakerState
  BY <1>1, ZenonT(30) DEF TakerState, @@
<1>3. v.mounted /\ v.publishStage = w.publishStage
  BY <1>1 DEF TakerState, @@
<1>4. SameTrade(w, v)
  BY <1>1 DEF TakerState, SameTrade, @@
<1> QED
  BY <1>1, <1>2, <1>3, <1>4 DEF Placing

LEMMA StageShows ==
  ASSUME NEW w \in TakerState, w.mounted,
         NEW stage \in {"idle", "approving", "depositing", "submitting", "waiting"}
  PROVE  Placing(w, [publishStage |-> stage] @@ w, stage)
<1>1. PICK v : v = [publishStage |-> stage] @@ w
  OBVIOUS
<1>2. v \in TakerState
  BY <1>1, ZenonT(30) DEF TakerState, @@
<1>3. v.mounted /\ v.publishStage = stage
  BY <1>1 DEF TakerState, @@
<1>4. SameTrade(w, v)
  BY <1>1 DEF TakerState, SameTrade, @@
<1> QED
  BY <1>1, <1>2, <1>3, <1>4 DEF Placing

LEMMA NotPublishedSleptShows ==
  ASSUME NEW w \in TakerState, w.mounted
  PROVE  Placing(w, ([publishStage |-> "idle"] @@ [enabled |-> FALSE]) @@ w, "idle")
<1>1. PICK v : v = ([publishStage |-> "idle"] @@ [enabled |-> FALSE]) @@ w
  OBVIOUS
<1>2. v \in TakerState
  BY <1>1, ZenonT(30) DEF TakerState, @@
<1>3. v.mounted /\ v.publishStage = "idle"
  BY <1>1 DEF TakerState, @@
<1>4. SameTrade(w, v)
  BY <1>1 DEF TakerState, SameTrade, @@
<1> QED
  BY <1>1, <1>2, <1>3, <1>4 DEF Placing

LEMMA PublishedShows ==
  ASSUME NEW w \in TakerState, w.mounted, NEW d \in Deals
  PROVE  Placing(w, [publishedRfqId |-> d, publishStage |-> "waiting"] @@ w, "waiting")
<1>1. PICK v : v = [publishedRfqId |-> d, publishStage |-> "waiting"] @@ w
  OBVIOUS
<1>2. v \in TakerState
  BY <1>1, ZenonT(30) DEF TakerState, @@
<1>3. v.mounted /\ v.publishStage = "waiting"
  BY <1>1 DEF TakerState, @@
<1>4. SameTrade(w, v)
  BY <1>1 DEF TakerState, SameTrade, @@
<1> QED
  BY <1>1, <1>2, <1>3, <1>4 DEF Placing

\* A call of the order, or for an account, is answered and nothing is asked on.
LEMMA OrderStops ==
  ASSUME IInv, NEW t \in Tabs, NEW c \in calls[t], c.at \in OrderCalls, NEW changes, NEW stage,
         WorldStep, TakerStops(t, c, changes), UNCHANGED <<maker, account, desk>>,
         T(t).mounted => Placing(T(t), changes @@ T(t), stage),
         \/ stage \in {"idle", "waiting"}
         \/ stage = T(t).publishStage /\ c.at = "generate"
  PROVE  IInv'
<1> DEFINE E == calls[t] \ {c}
<1>1. ShowTaker(t, changes) /\ calls' = [calls EXCEPT ![t] = E]
  BY DEF TakerStops, Finish
<1>2. ASSUME T(t).mounted PROVE PublishInv(changes @@ T(t), E)
  <2>1. CASE stage \in {"idle", "waiting"}
    BY <1>2, <2>1 DEF Placing, PublishInv
  <2>2. CASE stage = T(t).publishStage /\ c.at = "generate"
    <3>1. \A e \in (calls[t] \ E) \cup (E \ calls[t]) : e.at \notin PublishCalls
      BY <2>2 DEF PublishCalls
    <3> QED
      BY <1>2, <2>2, <3>1, TakerSees, PublishUntouched DEF Placing, TakerInv
  <2> QED  BY <2>1, <2>2
<1>3. \A e \in calls[t] \ E : e.at \in OrderCalls
  OBVIOUS
<1>4. \A e \in E \ calls[t] : FALSE
  OBVIOUS
<1> HIDE DEF E
<1> QED
  BY <1>1, <1>2, <1>3, <1>4, OrderStep DEF Placing

LEMMA OrderGoesOn ==
  ASSUME IInv, NEW t \in Tabs, NEW c \in calls[t], c.at \in PublishCalls, NEW changes, NEW stage,
         NEW at \in PublishCalls, NEW d \in Deals \cup {None}, at \notin Dealless => d \in Deals,
         WorldStep, TakerGoesOn(t, c, changes, at, d, None), UNCHANGED <<maker, account, desk>>,
         T(t).mounted => Placing(T(t), changes @@ T(t), stage)
  PROVE  IInv'
<1> DEFINE n == NewCall(at, d, None)
           E == (calls[t] \ {c}) \cup {n}
<1>1. ShowTaker(t, changes) /\ calls' = [calls EXCEPT ![t] = E]
  BY DEF TakerGoesOn, Then
<1>2. CallOK(n) /\ n.at \in PublishCalls
  <2>1. at \notin QuoteCalls
    BY DEF PublishCalls, QuoteCalls
  <2> QED
    BY <2>1, NewCallOK DEF TakerCalls
<1> HIDE DEF n
<1>3. ASSUME T(t).mounted PROVE PublishInv(changes @@ T(t), E)
  BY <1>2 DEF PublishInv, Kind
<1>4. \A e \in calls[t] \ E : e.at \in OrderCalls
  BY DEF OrderCalls
<1>5. \A e \in E \ calls[t] : CallOK(e) /\ e.at \in OrderCalls /\ e.at \in PublishCalls
  BY <1>2 DEF OrderCalls
<1> HIDE DEF E
<1> QED
  BY <1>1, <1>3, <1>4, <1>5, OrderStep DEF Placing

\* What a screen finds out or is told, with nothing asked.
LEMMA OrderSees ==
  ASSUME IInv, NEW t \in Tabs, NEW changes, T(t).mounted,
         UNCHANGED <<world, calls>>, ShowTaker(t, changes), UNCHANGED <<maker, account, desk>>,
         Placing(T(t), changes @@ T(t), T(t).publishStage)
  PROVE  IInv'
<1>1. PublishInv(changes @@ T(t), calls[t])
  BY TakerSees DEF Placing, TakerInv, PublishInv
<1>2. calls' = [calls EXCEPT ![t] = calls[t]]
  BY TakerSees
<1>3. WorldStep
  BY IInvWorld, StillKeeps
<1> QED
  BY <1>1, <1>2, <1>3, OrderStep DEF Placing

LEMMA OrderPress ==
  ASSUME IInv, NEW t \in Tabs, T(t).mounted, NEW changes, NEW at \in {"generate", "orderApprove"},
         TakerPresses(t, at, None, None, changes), UNCHANGED <<maker, account, desk>>,
         NEW stage, Placing(T(t), changes @@ T(t), stage),
         stage # T(t).publishStage => at = "orderApprove"
  PROVE  IInv'
<1> DEFINE n == NewCall(at, None, None)
           E == calls[t] \cup {n}
<1>1. ShowTaker(t, changes) /\ calls' = [calls EXCEPT ![t] = E] /\ WorldStep
  BY IInvWorld, StillKeeps DEF TakerPresses, Ask
<1>2. CallOK(n) /\ n.at = at
  <2>1. at \notin QuoteCalls /\ at \in Dealless /\ at \in TakerCalls
    BY DEF PublishCalls, QuoteCalls, Dealless, TakerCalls
  <2> QED
    BY <2>1, NewCallOK
<1>3. ~M(t).mounted
  BY TakerSees
<1> HIDE DEF n
<1>4. PublishInv(changes @@ T(t), E)
  BY <1>2, TakerSees DEF Placing, TakerInv, PublishInv, Kind, PublishCalls
<1>5. \A e \in E \ calls[t] : CallOK(e) /\ e.at \in OrderCalls
  BY <1>2 DEF OrderCalls, PublishCalls
<1>6. \A e \in calls[t] \ E : FALSE
  OBVIOUS
<1> HIDE DEF E
<1> QED
  BY <1>1, <1>3, <1>4, <1>5, <1>6, OrderStep DEF Placing

\* What the answer of a call of the order finds.
LEMMA OrderFinds ==
  ASSUME IInv, NEW t \in Tabs, NEW at \in OrderCalls, NEW c \in Awaited(t, at)
  PROVE  /\ c \in calls[t] /\ c.at = at /\ c.at \in OrderCalls
         /\ c.at = "confirm" => c.deal \in Deals
         /\ WorldTypeOK /\ T(t) \in TakerState
<1>1. TabOK(T(t), M(t), calls[t], desk[t].mode, deal) /\ T(t) \in TakerState
  BY DEF IInv, TabInv, ScreensTypeOK, T
<1>2. c \in calls[t] /\ c.at = at
  BY DEF Awaited
<1> QED
  BY <1>1, <1>2, IInvWorld DEF TabOK, CallOK, Dealless

LEMMA PressTakerGas ==
  ASSUME IInv, NEW t \in Tabs, pressTakerGas(t), UNCHANGED <<maker, account, desk>>
  PROVE  IInv'
BY TakerSees, NotEnabledShows, OrderSees DEF pressTakerGas, handleGas

LEMMA UsePastedAddress ==
  ASSUME IInv, NEW t \in Tabs, usePastedAddress(t), UNCHANGED <<maker, account, desk>>
  PROVE  IInv'
BY TakerSees, AddressShows, OrderSees DEF usePastedAddress, TakerShown, TakerThere

LEMMA ReadTerms ==
  ASSUME IInv, NEW t \in Tabs, readTerms(t), UNCHANGED <<maker, account, desk>>
  PROVE  IInv'
BY TakerSees, TermsShow, OrderSees DEF readTerms, buildTakerRfqTerms, Answers

LEMMA WatchFill ==
  ASSUME IInv, NEW t \in Tabs, watchFill(t), UNCHANGED <<maker, account, desk>>
  PROVE  IInv'
BY TakerSees, FillShows, OrderSees DEF watchFill

LEMMA PressGenerate ==
  ASSUME IInv, NEW t \in Tabs, pressGenerate(t), UNCHANGED <<maker, account, desk>>
  PROVE  IInv'
BY TakerSees, SameShows, OrderPress DEF pressGenerate, TakerShown, TakerThere

LEMMA PressPublish ==
  ASSUME IInv, NEW t \in Tabs, pressPublish(t), UNCHANGED <<maker, account, desk>>
  PROVE  IInv'
<1>1. T(t).mounted /\ TakerPresses(t, "orderApprove", None, None, [publishStage |-> "approving"])
  BY DEF pressPublish, TakerThere
<1>2. Placing(T(t), [publishStage |-> "approving"] @@ T(t), "approving")
  BY <1>1, TakerSees, StageShows
<1> QED
  BY <1>1, <1>2, OrderPress

LEMMA GenerateXrplAccount ==
  ASSUME IInv, NEW t \in Tabs, generateXrplAccount(t), UNCHANGED <<maker, account, desk>>
  PROVE  IInv'
<1>1. UNCHANGED world /\ "generate" \in OrderCalls
  BY DEF generateXrplAccount, generateAndFundXrplAccount, Answers, TakerSleeps, OrderCalls
<1>2. PICK c \in Awaited(t, "generate") :
        \/ TakerStops(t, c, [xrplAddress |-> TRUE]) \/ TakerStops(t, c, <<>>)
        \/ TakerStops(t, c, <<>> @@ [enabled |-> FALSE])
  BY DEF generateXrplAccount, TakerSleeps
<1>3. /\ c \in calls[t] /\ c.at = "generate" /\ c.at \in OrderCalls /\ T(t) \in TakerState
      /\ WorldStep
  BY <1>1, OrderFinds, StillKeeps
<1>4. CASE TakerStops(t, c, [xrplAddress |-> TRUE])
  BY <1>3, <1>4, AddressShows, OrderStops
<1>5. CASE TakerStops(t, c, <<>>)
  BY <1>3, <1>5, SameShows, OrderStops
<1>6. CASE TakerStops(t, c, <<>> @@ [enabled |-> FALSE])
  BY <1>3, <1>6, AsleepShows, OrderStops
<1> QED
  BY <1>2, <1>4, <1>5, <1>6

\* A failure anywhere starts the order over.
LEMMA OrderFails ==
  ASSUME IInv, NEW t \in Tabs, NEW c \in calls[t], c.at \in OrderCalls,
         WorldStep, TakerStops(t, c, notPublished), UNCHANGED <<maker, account, desk>>
  PROVE  IInv'
<1>1. T(t).mounted => Placing(T(t), notPublished @@ T(t), "idle")
  BY TakerSees, StageShows DEF notPublished
<1> QED
  BY <1>1, OrderStops

LEMMA OrderApproved ==
  ASSUME IInv, NEW t \in Tabs, orderApproved(t), UNCHANGED <<maker, account, desk>>
  PROVE  IInv'
<1>1. PICK c \in Awaited(t, "orderApprove") :
        /\ UNCHANGED world
        /\ \/ TakerGoesOn(t, c, [publishStage |-> "depositing"], "orderDeposit", None, None)
           \/ TakerStops(t, c, notPublished)
  BY DEF orderApproved, sendApprove, Answers
<1>2. {"orderApprove", "orderDeposit"} \subseteq PublishCalls /\ PublishCalls \subseteq OrderCalls
  BY DEF PublishCalls, OrderCalls
<1>3. /\ c \in calls[t] /\ c.at \in PublishCalls /\ c.at \in OrderCalls /\ T(t) \in TakerState
      /\ WorldStep
  BY <1>1, <1>2, OrderFinds, StillKeeps
<1>4. CASE TakerGoesOn(t, c, [publishStage |-> "depositing"], "orderDeposit", None, None)
  <2>1. T(t).mounted => Placing(T(t), [publishStage |-> "depositing"] @@ T(t), "depositing")
    BY <1>3, StageShows
  <2>2. "orderDeposit" \in Dealless
    BY DEF Dealless
  <2> QED
    BY <1>2, <1>3, <1>4, <2>1, <2>2, OrderGoesOn
<1>5. CASE TakerStops(t, c, notPublished)
  BY <1>3, <1>5, OrderFails
<1> QED
  BY <1>1, <1>4, <1>5

LEMMA OrderDeposited ==
  ASSUME IInv, NEW t \in Tabs, orderDeposited(t), UNCHANGED <<maker, account, desk>>
  PROVE  IInv'
<1>1. PICK c \in Awaited(t, "orderDeposit") :
        \/ deposit(t) /\ TakerGoesOn(t, c, [publishStage |-> "submitting"], "publish", None, None)
        \/ Fails(deposit(t)) /\ TakerStops(t, c, notPublished)
  BY DEF orderDeposited
<1>2. {"orderDeposit", "publish"} \subseteq PublishCalls /\ PublishCalls \subseteq OrderCalls
  BY DEF PublishCalls, OrderCalls
<1>3. /\ c \in calls[t] /\ c.at \in PublishCalls /\ c.at \in OrderCalls /\ T(t) \in TakerState
      /\ WorldTypeOK
  BY <1>2, OrderFinds
<1>4. CASE deposit(t) /\ TakerGoesOn(t, c, [publishStage |-> "submitting"], "publish", None, None)
  <2>1. T(t).mounted => Placing(T(t), [publishStage |-> "submitting"] @@ T(t), "submitting")
    BY <1>3, StageShows
  <2>2. "publish" \in Dealless
    BY DEF Dealless
  <2> QED
    BY <1>2, <1>3, <1>4, <2>1, <2>2, DepositKeeps, OrderGoesOn
<1>5. CASE Fails(deposit(t)) /\ TakerStops(t, c, notPublished)
  BY <1>3, <1>5, DepositKeeps, FailsKeeps, OrderFails
<1> QED
  BY <1>1, <1>4, <1>5

LEMMA OrderSealed ==
  ASSUME IInv, NEW t \in Tabs, orderSealed(t), UNCHANGED <<maker, account, desk>>
  PROVE  IInv'
<1>1. PICK c \in Awaited(t, "publish") :
        /\ UNCHANGED world
        /\ \/ TakerGoesOn(t, c, <<>>, "submitRfq", None, None)
           \/ TakerStops(t, c, notPublished)
           \/ TakerStops(t, c, [publishStage |-> "idle"] @@ [enabled |-> FALSE])
  BY DEF orderSealed, publish, sealTakerRfq, Answers, TakerSleeps, notPublished
<1>2. {"publish", "submitRfq"} \subseteq PublishCalls /\ PublishCalls \subseteq OrderCalls
  BY DEF PublishCalls, OrderCalls
<1>3. /\ c \in calls[t] /\ c.at \in PublishCalls /\ c.at \in OrderCalls /\ T(t) \in TakerState
      /\ WorldStep
  BY <1>1, <1>2, OrderFinds, StillKeeps
<1>4. CASE TakerGoesOn(t, c, <<>>, "submitRfq", None, None)
  <2>1. "submitRfq" \in Dealless
    BY DEF Dealless
  <2> QED
    BY <1>2, <1>3, <1>4, <2>1, SameShows, OrderGoesOn
<1>5. CASE TakerStops(t, c, notPublished)
  BY <1>3, <1>5, OrderFails
<1>6. CASE TakerStops(t, c, [publishStage |-> "idle"] @@ [enabled |-> FALSE])
  BY <1>3, <1>6, NotPublishedSleptShows, OrderStops
<1> QED
  BY <1>1, <1>4, <1>5, <1>6

LEMMA OrderSubmitted ==
  ASSUME IInv, NEW t \in Tabs, orderSubmitted(t), UNCHANGED <<maker, account, desk>>
  PROVE  IInv'
<1>1. PICK c \in Awaited(t, "submitRfq"), d \in Deals :
        \/ submitRfq(t, d) /\ TakerGoesOn(t, c, <<>>, "confirm", d, None)
        \/ Fails(submitRfq(t, d)) /\ TakerStops(t, c, notPublished)
  BY DEF orderSubmitted
<1>2. {"submitRfq", "confirm"} \subseteq PublishCalls /\ PublishCalls \subseteq OrderCalls
  BY DEF PublishCalls, OrderCalls
<1>3. /\ c \in calls[t] /\ c.at \in PublishCalls /\ c.at \in OrderCalls /\ T(t) \in TakerState
      /\ WorldTypeOK
  BY <1>2, OrderFinds
<1>4. CASE submitRfq(t, d) /\ TakerGoesOn(t, c, <<>>, "confirm", d, None)
  BY <1>2, <1>3, <1>4, SameShows, SubmitRfqKeeps, OrderGoesOn
<1>5. CASE Fails(submitRfq(t, d)) /\ TakerStops(t, c, notPublished)
  BY <1>3, <1>5, SubmitRfqKeeps, FailsKeeps, OrderFails
<1> QED
  BY <1>1, <1>4, <1>5

LEMMA OrderConfirmed ==
  ASSUME IInv, NEW t \in Tabs, orderConfirmed(t), UNCHANGED <<maker, account, desk>>
  PROVE  IInv'
<1>1. PICK c \in Awaited(t, "confirm") :
        \/ /\ confirm(c.deal)
           /\ TakerStops(t, c, [publishedRfqId |-> c.deal, publishStage |-> "waiting"])
        \/ Fails(confirm(c.deal)) /\ TakerStops(t, c, notPublished)
  BY DEF orderConfirmed
<1>2. "confirm" \in PublishCalls /\ PublishCalls \subseteq OrderCalls
  BY DEF PublishCalls, OrderCalls
<1>3. /\ c \in calls[t] /\ c.at \in OrderCalls /\ T(t) \in TakerState /\ c.deal \in Deals
      /\ WorldTypeOK
  BY <1>2, OrderFinds
<1>4. CASE /\ confirm(c.deal)
           /\ TakerStops(t, c, [publishedRfqId |-> c.deal, publishStage |-> "waiting"])
  <2>1. T(t).mounted =>
          Placing(T(t), [publishedRfqId |-> c.deal, publishStage |-> "waiting"] @@ T(t), "waiting")
    BY <1>3, PublishedShows
  <2> QED
    BY <1>3, <1>4, <2>1, ConfirmKeeps, OrderStops
<1>5. CASE Fails(confirm(c.deal)) /\ TakerStops(t, c, notPublished)
  BY <1>3, <1>5, ConfirmKeeps, FailsKeeps, OrderFails
<1> QED
  BY <1>1, <1>4, <1>5

LEMMA TakerActs ==
  ASSUME IInv, NEW t \in Tabs, TakerPress(t) \/ TakerAnswer(t), UNCHANGED <<maker, account, desk>>
  PROVE  IInv'
<1>1. CASE TakerPress(t)
  BY <1>1, PressTakerGas, UsePastedAddress, PressGenerate, PressPublish, PressPrepare, PressPay,
     RetryTransaction, RetrySettlement DEF TakerPress, Retries
<1>2. CASE TakerAnswer(t)
  BY <1>2, GenerateXrplAccount, ReadTerms, OrderApproved, OrderDeposited, OrderSealed,
     OrderSubmitted, OrderConfirmed, WatchFill, RunPrepare, RunApprove, RunDeposit, RunLock,
     RunPay, RunAttest, RunProve, RunRelease, RunBalance DEF TakerAnswer
<1> QED
  BY <1>1, <1>2
-----------------------------------------------------------------------------
(***************************************************************************)
(* The maker's screen: a step of one part of it leaves the others alone.   *)
(***************************************************************************)
BondSame(m, n) == n.s3 = m.s3 /\ n.s3Error = m.s3Error /\ n.rfqData = m.rfqData
QuoteSame(m, n) == n.s4 = m.s4
MatchSame(m, n) == n.matching = m.matching /\ n.matchId = m.matchId
PaySame(m, n) ==
  n.s6 = m.s6 /\ n.s6Error = m.s6Error /\ n.payMethod = m.payMethod /\ n.slept = m.slept
SettleSame(m, n) ==
  /\ n.s7 = m.s7 /\ n.s7Error = m.s7Error
  /\ n.attestRound = m.attestRound /\ n.proofData = m.proofData

Stays(n) == n \in MakerState /\ n.mounted

BondMoves(m, n, s3, rfq) ==
  /\ Stays(n) /\ QuoteSame(m, n) /\ MatchSame(m, n) /\ PaySame(m, n) /\ SettleSame(m, n)
  /\ n.s3 = s3 /\ n.rfqData = rfq
QuoteMoves(m, n, s4) ==
  /\ Stays(n) /\ BondSame(m, n) /\ MatchSame(m, n) /\ PaySame(m, n) /\ SettleSame(m, n)
  /\ n.s4 = s4
MatchMoves(m, n, matchId) ==
  /\ Stays(n) /\ BondSame(m, n) /\ QuoteSame(m, n) /\ PaySame(m, n) /\ SettleSame(m, n)
  /\ n.matchId = matchId
PayMoves(m, n, s6, method) ==
  /\ Stays(n) /\ BondSame(m, n) /\ QuoteSame(m, n) /\ MatchSame(m, n) /\ SettleSame(m, n)
  /\ n.s6 = s6 /\ n.payMethod = method
SettleMoves(m, n, s7, round, proof) ==
  /\ Stays(n) /\ BondSame(m, n) /\ QuoteSame(m, n) /\ MatchSame(m, n) /\ PaySame(m, n)
  /\ n.s7 = s7 /\ n.attestRound = round /\ n.proofData = proof

\* What a mounted screen has to be after a step.
MakerShows(n, E, D) == Stays(n) /\ MakerInv(n, E) /\ MakerTrue(n, D)

LEMMA BondUntouched ==
  ASSUME NEW m, NEW n, NEW C, NEW E, BondInv(m, C), BondSame(m, n),
         \A c \in (C \ E) \cup (E \ C) : c.at \notin TakingCalls \cup BondCalls
  PROVE  BondInv(n, E)
<1>1. Kind(E, TakingCalls) = Kind(C, TakingCalls) /\ Kind(E, BondCalls) = Kind(C, BondCalls)
  BY KindSame
<1> QED
  BY <1>1 DEF BondInv, BondSame

LEMMA QuoteUntouched ==
  ASSUME NEW m, NEW n, NEW C, NEW E, QuoteInv(m, C), QuoteSame(m, n),
         \A c \in (C \ E) \cup (E \ C) : c.at \notin QuoteCalls
  PROVE  QuoteInv(n, E)
<1>1. Kind(E, QuoteCalls) = Kind(C, QuoteCalls)
  BY KindSame
<1> QED
  BY <1>1 DEF QuoteInv, QuoteSame

LEMMA MatchUntouched ==
  ASSUME NEW m, NEW n, NEW C, NEW E, MatchInv(m, C), MatchSame(m, n),
         \A c \in (C \ E) \cup (E \ C) : c.at \notin {"match"}
  PROVE  MatchInv(n, E)
<1>1. Kind(E, {"match"}) = Kind(C, {"match"})
  BY KindSame
<1> QED
  BY <1>1 DEF MatchInv, MatchSame

\* The payment is of the match: a screen that has none may be told of one.
LEMMA PayUntouched ==
  ASSUME NEW m, NEW n, NEW C, NEW E, PayInv(m, C), PaySame(m, n),
         m.matchId = None \/ n.matchId = m.matchId,
         \A c \in (C \ E) \cup (E \ C) : c.at \notin PayCalls
  PROVE  PayInv(n, E)
<1>1. Kind(E, PayCalls) = Kind(C, PayCalls)
  BY KindSame
<1>2. CASE n.matchId = m.matchId
  <2>1. PayAwaits(n) = PayAwaits(m)
    BY <1>2 DEF PaySame, PayAwaits
  <2> QED
    BY <1>1, <1>2, <2>1 DEF PayInv, PaySame
<1>3. CASE m.matchId = None
  <2>1. m.payMethod = "none" /\ m.s6 = "idle"
    BY <1>3, DeskApiAssumption DEF PayInv
  <2>2. PayAwaits(n) = PayAwaits(m)
    BY <2>1 DEF PaySame, PayAwaits
  <2> QED
    BY <1>1, <2>1, <2>2 DEF PayInv, PaySame
<1> QED
  BY <1>2, <1>3

LEMMA SettleUntouched ==
  ASSUME NEW m, NEW n, NEW C, NEW E, SettleInv(m, C), SettleSame(m, n),
         m.s7 = "idle" \/ (n.matchId = m.matchId /\ n.s6 = m.s6),
         \A c \in (C \ E) \cup (E \ C) : c.at \notin SettleCalls
  PROVE  SettleInv(n, E)
<1>1. Kind(E, SettleCalls) = Kind(C, SettleCalls)
  BY KindSame
<1>2. SettleAwaits(n) = SettleAwaits(m)
  BY DEF SettleSame, SettleAwaits
<1> QED
  BY <1>1, <1>2 DEF SettleInv, SettleSame

LEMMA TrueUntouched ==
  ASSUME NEW m, NEW n, NEW D, MakerTrue(m, D), PaySame(m, n), SettleSame(m, n),
         n.matchId = m.matchId
  PROVE  MakerTrue(n, D)
BY DEF MakerTrue, PaySame, SettleSame

LEMMA BondPart ==
  ASSUME NEW m, NEW n, NEW C, NEW E, NEW D, MakerInv(m, C), MakerTrue(m, D),
         NEW s3, NEW rfq, BondMoves(m, n, s3, rfq), BondInv(n, E),
         \A c \in (C \ E) \cup (E \ C) : c.at \in TakingCalls \cup BondCalls
  PROVE  MakerShows(n, E, D)
<1>1. \A c \in (C \ E) \cup (E \ C) : c.at \notin QuoteCalls \cup {"match"} \cup PayCalls \cup SettleCalls
  BY DEF TakingCalls, BondCalls, QuoteCalls, PayCalls, SettleCalls
<1>2. QuoteInv(n, E) /\ MatchInv(n, E)
  BY <1>1, QuoteUntouched, MatchUntouched DEF MakerInv, BondMoves
<1>3. n.matchId = m.matchId /\ n.s6 = m.s6
  BY DEF BondMoves, MatchSame, PaySame
<1>4. PayInv(n, E) /\ SettleInv(n, E) /\ MakerTrue(n, D)
  BY <1>1, <1>3, PayUntouched, SettleUntouched, TrueUntouched DEF MakerInv, BondMoves
<1> QED
  BY <1>2, <1>4 DEF MakerShows, MakerInv, BondMoves

LEMMA QuotePart ==
  ASSUME NEW m, NEW n, NEW C, NEW E, NEW D, MakerInv(m, C), MakerTrue(m, D),
         NEW s4, QuoteMoves(m, n, s4), QuoteInv(n, E),
         \A c \in (C \ E) \cup (E \ C) : c.at \in QuoteCalls
  PROVE  MakerShows(n, E, D)
<1>1. \A c \in (C \ E) \cup (E \ C) :
        c.at \notin TakingCalls \cup BondCalls \cup {"match"} \cup PayCalls \cup SettleCalls
  BY DEF TakingCalls, BondCalls, QuoteCalls, PayCalls, SettleCalls
<1>2. BondInv(n, E) /\ MatchInv(n, E)
  BY <1>1, BondUntouched, MatchUntouched DEF MakerInv, QuoteMoves
<1>3. n.matchId = m.matchId /\ n.s6 = m.s6
  BY DEF QuoteMoves, MatchSame, PaySame
<1>4. PayInv(n, E) /\ SettleInv(n, E) /\ MakerTrue(n, D)
  BY <1>1, <1>3, PayUntouched, SettleUntouched, TrueUntouched DEF MakerInv, QuoteMoves
<1> QED
  BY <1>2, <1>4 DEF MakerShows, MakerInv, QuoteMoves

LEMMA MatchPart ==
  ASSUME NEW m, NEW n, NEW C, NEW E, NEW D, MakerInv(m, C), MakerTrue(m, D),
         NEW matchId, MatchMoves(m, n, matchId), MatchInv(n, E),
         m.matchId = None \/ matchId = m.matchId,
         \A c \in (C \ E) \cup (E \ C) : c.at \in {"match"}
  PROVE  MakerShows(n, E, D)
<1>1. \A c \in (C \ E) \cup (E \ C) :
        c.at \notin TakingCalls \cup BondCalls \cup QuoteCalls \cup PayCalls \cup SettleCalls
  BY DEF TakingCalls, BondCalls, QuoteCalls, PayCalls, SettleCalls
<1>2. BondInv(n, E) /\ QuoteInv(n, E)
  BY <1>1, BondUntouched, QuoteUntouched DEF MakerInv, MatchMoves
<1>3. n.matchId = matchId /\ n.s6 = m.s6
  BY DEF MatchMoves, PaySame
<1>4. PayInv(n, E)
  BY <1>1, <1>3, PayUntouched DEF MakerInv, MatchMoves
<1>5. m.matchId = None => m.payMethod = "none" /\ m.s6 = "idle" /\ m.s7 = "idle"
  BY DeskApiAssumption DEF MakerInv, PayInv, SettleInv
<1>6. SettleInv(n, E)
  BY <1>1, <1>3, <1>5, SettleUntouched DEF MakerInv, MatchMoves
<1>7. MakerTrue(n, D)
  <2>1. CASE matchId = m.matchId
    BY <1>3, <2>1, TrueUntouched DEF MatchMoves
  <2>2. CASE m.matchId = None
    BY <1>5, <2>2 DEF MatchMoves, MakerTrue, PaySame, SettleSame
  <2> QED  BY <2>1, <2>2
<1> QED
  BY <1>2, <1>4, <1>6, <1>7 DEF MakerShows, MakerInv, MatchMoves

LEMMA PayPart ==
  ASSUME NEW m, NEW n, NEW C, NEW E, NEW D, MakerInv(m, C), MakerTrue(m, D), m.s6 # "done",
         NEW s6, NEW method, PayMoves(m, n, s6, method), PayInv(n, E),
         n.s6 = "idle" /\ n.payMethod # "none" /\ ~n.s6Error /\ ~n.slept => D[n.matchId].closed,
         \A c \in (C \ E) \cup (E \ C) : c.at \in PayCalls
  PROVE  MakerShows(n, E, D)
<1>1. \A c \in (C \ E) \cup (E \ C) :
        c.at \notin TakingCalls \cup BondCalls \cup QuoteCalls \cup {"match"} \cup SettleCalls
  BY DEF TakingCalls, BondCalls, QuoteCalls, PayCalls, SettleCalls
<1>2. BondInv(n, E) /\ QuoteInv(n, E) /\ MatchInv(n, E)
  BY <1>1, BondUntouched, QuoteUntouched, MatchUntouched DEF MakerInv, PayMoves
<1>3. m.s7 = "idle"
  BY DEF MakerInv, SettleInv
<1>4. SettleInv(n, E)
  BY <1>1, <1>3, SettleUntouched DEF MakerInv, PayMoves
<1>5. MakerTrue(n, D)
  BY <1>3 DEF MakerTrue, PayMoves, SettleSame
<1> QED
  BY <1>2, <1>4, <1>5 DEF MakerShows, MakerInv, PayMoves

LEMMA SettlePart ==
  ASSUME NEW m, NEW n, NEW C, NEW E, NEW D, MakerInv(m, C), MakerTrue(m, D),
         NEW s7, NEW round, NEW proof, SettleMoves(m, n, s7, round, proof), SettleInv(n, E),
         s7 \in {"balance", "done"} => D[m.matchId].phase = "released",
         \A c \in (C \ E) \cup (E \ C) : c.at \in SettleCalls
  PROVE  MakerShows(n, E, D)
<1>1. \A c \in (C \ E) \cup (E \ C) :
        c.at \notin TakingCalls \cup BondCalls \cup QuoteCalls \cup {"match"} \cup PayCalls
  BY DEF TakingCalls, BondCalls, QuoteCalls, PayCalls, SettleCalls
<1>2. BondInv(n, E) /\ QuoteInv(n, E) /\ MatchInv(n, E)
  BY <1>1, BondUntouched, QuoteUntouched, MatchUntouched DEF MakerInv, SettleMoves
<1>3. n.matchId = m.matchId
  BY DEF SettleMoves, MatchSame
<1>4. PayInv(n, E)
  BY <1>1, <1>3, PayUntouched DEF MakerInv, SettleMoves
<1>5. MakerTrue(n, D)
  BY <1>3 DEF MakerTrue, SettleMoves, PaySame
<1> QED
  BY <1>2, <1>4, <1>5 DEF MakerShows, MakerInv, SettleMoves

\* What the answer of a call of the maker's screen finds, mounted or not.
LEMMA MakerFinds ==
  ASSUME IInv, NEW t \in Tabs, NEW at \in MakerCalls, NEW c \in Awaited(t, at)
  PROVE  /\ c \in calls[t] /\ c.at = at /\ CallOK(c)
         /\ WorldTypeOK /\ M(t) \in MakerState /\ ~T(t).mounted
         /\ M(t).mounted => MakerInv(M(t), calls[t]) /\ MakerTrue(M(t), deal)
<1>1. TabOK(T(t), M(t), calls[t], desk[t].mode, deal) /\ M(t) \in MakerState
  BY DEF IInv, TabInv, ScreensTypeOK, M
<1>2. c \in calls[t] /\ c.at = at
  BY DEF Awaited
<1>3. at \notin TakerCalls
  BY DEF TakerCalls, TradeCalls, PublishCalls, MakerCalls, TakingCalls, BondCalls, QuoteCalls,
         PayCalls, SettleCalls
<1> QED
  BY <1>1, <1>2, <1>3, IInvWorld DEF TabOK

\* What a press finds.
LEMMA MakerSees ==
  ASSUME IInv, NEW t \in Tabs, M(t).mounted
  PROVE  /\ M(t) \in MakerState /\ ~T(t).mounted /\ calls \in [Tabs -> SUBSET Call]
         /\ MakerInv(M(t), calls[t]) /\ MakerTrue(M(t), deal) /\ WorldTypeOK
BY IInvWorld DEF IInv, ScreensTypeOK, ApiTypeOK, TabInv, TabOK, M

LEMMA StepTrue ==
  ASSUME IInv, NEW t \in Tabs, M(t).mounted, WorldStep
  PROVE  MakerTrue(M(t), deal')
BY MakerSees, MakerStillTrue DEF WorldStep

LEMMA MakerStopsKeeps ==
  ASSUME IInv, NEW t \in Tabs, NEW c \in calls[t], c.at \in MakerCalls, ~T(t).mounted, NEW changes,
         WorldStep, MakerStops(t, c, changes), UNCHANGED <<taker, account, desk>>,
         M(t).mounted => MakerShows(changes @@ M(t), calls[t] \ {c}, deal')
  PROVE  IInv'
<1> DEFINE E == calls[t] \ {c}
<1>1. ShowMaker(t, changes) /\ calls' = [calls EXCEPT ![t] = E]
  BY DEF MakerStops, Finish
<1>2. (\A e \in calls[t] \ E : e.at \in MakerCalls) /\ E \ calls[t] = {}
  OBVIOUS
<1> HIDE DEF E
<1>3. M(t).mounted => MakerShows(changes @@ M(t), E, deal')
  BY DEF E
<1> QED
  BY <1>1, <1>2, <1>3, MakerStep DEF MakerShows, Stays

LEMMA MakerGoesOnKeeps ==
  ASSUME IInv, NEW t \in Tabs, NEW c \in calls[t], c.at \in MakerCalls, ~T(t).mounted, NEW changes,
         NEW at \in MakerCalls, NEW d \in Deals, NEW x \in Deals \cup {None} \cup 1..MAX_NONCE,
         at \in QuoteCalls => x \in 1..MAX_NONCE,
         WorldStep, MakerGoesOn(t, c, changes, at, d, x), UNCHANGED <<taker, account, desk>>,
         M(t).mounted
         => MakerShows(changes @@ M(t), (calls[t] \ {c}) \cup {NewCall(at, d, x)}, deal')
  PROVE  IInv'
<1> DEFINE k == NewCall(at, d, x)
           E == (calls[t] \ {c}) \cup {k}
<1>1. ShowMaker(t, changes) /\ calls' = [calls EXCEPT ![t] = E]
  BY DEF MakerGoesOn, Then
<1>2. CallOK(k) /\ k.at \in MakerCalls
  BY NewCallOK
<1> HIDE DEF k
<1>3. /\ \A e \in calls[t] \ E : e.at \in MakerCalls
      /\ \A e \in E \ calls[t] : CallOK(e) /\ e.at \in MakerCalls
  BY <1>2
<1>4. M(t).mounted => MakerShows(changes @@ M(t), E, deal')
  BY DEF k
<1> HIDE DEF E
<1> QED
  BY <1>1, <1>3, <1>4, MakerStep DEF MakerShows, Stays

LEMMA MakerPressKeeps ==
  ASSUME IInv, NEW t \in Tabs, M(t).mounted, NEW changes,
         NEW at \in MakerCalls, NEW d \in Deals \cup {None}, at \notin Dealless => d \in Deals,
         NEW x \in Deals \cup {None} \cup 1..MAX_NONCE, at \in QuoteCalls => x \in 1..MAX_NONCE,
         MakerPresses(t, at, d, x, changes), UNCHANGED <<taker, account, desk>>,
         MakerShows(changes @@ M(t), calls[t] \cup {NewCall(at, d, x)}, deal')
  PROVE  IInv'
<1> DEFINE k == NewCall(at, d, x)
           E == calls[t] \cup {k}
<1>1. ShowMaker(t, changes) /\ calls' = [calls EXCEPT ![t] = E] /\ WorldStep
  BY IInvWorld, StillKeeps DEF MakerPresses, Ask
<1>2. CallOK(k) /\ k.at \in MakerCalls
  BY NewCallOK
<1> HIDE DEF k
<1>3. /\ calls[t] \ E = {}
      /\ \A e \in E \ calls[t] : CallOK(e) /\ e.at \in MakerCalls
  BY <1>2
<1>4. MakerShows(changes @@ M(t), E, deal')
  BY DEF k
<1> HIDE DEF E
<1> QED
  BY <1>1, <1>3, <1>4, MakerSees, MakerStep DEF MakerShows, Stays
-----------------------------------------------------------------------------
(***************************************************************************)
(* The request and the bond.                                               *)
(***************************************************************************)

LEMMA OpeningShows ==
  ASSUME NEW m \in MakerState, m.mounted
  PROVE  BondMoves(m, opening @@ m, "opening", m.rfqData)
<1>1. PICK n : n = opening @@ m
  OBVIOUS
<1>2. n \in MakerState
  BY <1>1, ZenonT(30) DEF opening, MakerState, @@
<1>3. QuoteSame(m, n) /\ MatchSame(m, n) /\ PaySame(m, n) /\ SettleSame(m, n)
  BY <1>1 DEF opening, MakerState, QuoteSame, MatchSame, PaySame, SettleSame, @@
<1>4. n.mounted /\ n.s3 = "opening" /\ n.rfqData = m.rfqData
  BY <1>1 DEF opening, MakerState, @@
<1> QED
  BY <1>1, <1>2, <1>3, <1>4 DEF BondMoves, Stays

LEMMA TakenShows ==
  ASSUME NEW m \in MakerState, m.mounted, NEW d \in Deals
  PROVE  BondMoves(m, [rfqData |-> d, s3 |-> "bondApprove", s3Error |-> FALSE] @@ m, "bondApprove",
                   d)
<1>1. PICK n : n = [rfqData |-> d, s3 |-> "bondApprove", s3Error |-> FALSE] @@ m
  OBVIOUS
<1>2. n \in MakerState
  BY <1>1, ZenonT(30) DEF MakerState, @@
<1>3. QuoteSame(m, n) /\ MatchSame(m, n) /\ PaySame(m, n) /\ SettleSame(m, n)
  BY <1>1 DEF MakerState, QuoteSame, MatchSame, PaySame, SettleSame, @@
<1>4. n.mounted /\ n.s3 = "bondApprove" /\ n.rfqData = d
  BY <1>1 DEF MakerState, @@
<1> QED
  BY <1>1, <1>2, <1>3, <1>4 DEF BondMoves, Stays

LEMMA NotTakenShows ==
  ASSUME NEW m \in MakerState, m.mounted
  PROVE  BondMoves(m, [s3 |-> "idle", s3Error |-> TRUE] @@ m, "idle", m.rfqData)
<1>1. PICK n : n = [s3 |-> "idle", s3Error |-> TRUE] @@ m
  OBVIOUS
<1>2. n \in MakerState
  BY <1>1, ZenonT(30) DEF MakerState, @@
<1>3. QuoteSame(m, n) /\ MatchSame(m, n) /\ PaySame(m, n) /\ SettleSame(m, n)
  BY <1>1 DEF MakerState, QuoteSame, MatchSame, PaySame, SettleSame, @@
<1>4. n.mounted /\ n.s3 = "idle" /\ n.rfqData = m.rfqData
  BY <1>1 DEF MakerState, @@
<1> QED
  BY <1>1, <1>2, <1>3, <1>4 DEF BondMoves, Stays

LEMMA TakingHeldShows ==
  ASSUME NEW m \in MakerState, m.mounted
  PROVE  BondMoves(m, [s3 |-> "idle"] @@ m, "idle", m.rfqData)
<1>1. PICK n : n = [s3 |-> "idle"] @@ m
  OBVIOUS
<1>2. n \in MakerState
  BY <1>1, ZenonT(30) DEF MakerState, @@
<1>3. QuoteSame(m, n) /\ MatchSame(m, n) /\ PaySame(m, n) /\ SettleSame(m, n)
  BY <1>1 DEF MakerState, QuoteSame, MatchSame, PaySame, SettleSame, @@
<1>4. n.mounted /\ n.s3 = "idle" /\ n.rfqData = m.rfqData
  BY <1>1 DEF MakerState, @@
<1> QED
  BY <1>1, <1>2, <1>3, <1>4 DEF BondMoves, Stays

LEMMA TakingSleptShows ==
  ASSUME NEW m \in MakerState, m.mounted
  PROVE  BondMoves(m, ([s3 |-> "idle"] @@ [enabled |-> FALSE]) @@ m, "idle", m.rfqData)
<1>1. PICK n : n = ([s3 |-> "idle"] @@ [enabled |-> FALSE]) @@ m
  OBVIOUS
<1>2. n \in MakerState
  BY <1>1, ZenonT(30) DEF MakerState, @@
<1>3. QuoteSame(m, n) /\ MatchSame(m, n) /\ PaySame(m, n) /\ SettleSame(m, n)
  BY <1>1 DEF MakerState, QuoteSame, MatchSame, PaySame, SettleSame, @@
<1>4. n.mounted /\ n.s3 = "idle" /\ n.rfqData = m.rfqData
  BY <1>1 DEF MakerState, @@
<1> QED
  BY <1>1, <1>2, <1>3, <1>4 DEF BondMoves, Stays

LEMMA BondRetryShows ==
  ASSUME NEW m \in MakerState, m.mounted
  PROVE  BondMoves(m, [s3Error |-> FALSE] @@ m, m.s3, m.rfqData)
<1>1. PICK n : n = [s3Error |-> FALSE] @@ m
  OBVIOUS
<1>2. n \in MakerState
  BY <1>1, ZenonT(30) DEF MakerState, @@
<1>3. QuoteSame(m, n) /\ MatchSame(m, n) /\ PaySame(m, n) /\ SettleSame(m, n)
  BY <1>1 DEF MakerState, QuoteSame, MatchSame, PaySame, SettleSame, @@
<1>4. n.mounted /\ n.s3 = m.s3 /\ n.rfqData = m.rfqData
  BY <1>1 DEF MakerState, @@
<1> QED
  BY <1>1, <1>2, <1>3, <1>4 DEF BondMoves, Stays

LEMMA BondApprovedShows ==
  ASSUME NEW m \in MakerState, m.mounted
  PROVE  BondMoves(m, [s3 |-> "depositBond", s3Error |-> FALSE] @@ m, "depositBond", m.rfqData)
<1>1. PICK n : n = [s3 |-> "depositBond", s3Error |-> FALSE] @@ m
  OBVIOUS
<1>2. n \in MakerState
  BY <1>1, ZenonT(30) DEF MakerState, @@
<1>3. QuoteSame(m, n) /\ MatchSame(m, n) /\ PaySame(m, n) /\ SettleSame(m, n)
  BY <1>1 DEF MakerState, QuoteSame, MatchSame, PaySame, SettleSame, @@
<1>4. n.mounted /\ n.s3 = "depositBond" /\ n.rfqData = m.rfqData
  BY <1>1 DEF MakerState, @@
<1> QED
  BY <1>1, <1>2, <1>3, <1>4 DEF BondMoves, Stays

LEMMA BondFailedShows ==
  ASSUME NEW m \in MakerState, m.mounted
  PROVE  LET n == s3Failed @@ m IN BondMoves(m, n, m.s3, m.rfqData) /\ n.s3Error
<1>1. PICK n : n = s3Failed @@ m
  OBVIOUS
<1>2. n \in MakerState
  BY <1>1, ZenonT(30) DEF s3Failed, MakerState, @@
<1>3. QuoteSame(m, n) /\ MatchSame(m, n) /\ PaySame(m, n) /\ SettleSame(m, n)
  BY <1>1 DEF s3Failed, MakerState, QuoteSame, MatchSame, PaySame, SettleSame, @@
<1>4. n.mounted /\ n.s3 = m.s3 /\ n.rfqData = m.rfqData /\ n.s3Error
  BY <1>1 DEF s3Failed, MakerState, @@
<1> QED
  BY <1>1, <1>2, <1>3, <1>4 DEF BondMoves, Stays

LEMMA NothingAdded ==
  ASSUME NEW w, w = [f \in DOMAIN w |-> w[f]]
  PROVE  w @@ <<>> = w
<1>1. DOMAIN <<>> = {}
  BY SMT
<1>2. w @@ <<>> = [f \in DOMAIN w |-> w[f]]
  BY <1>1, SMT DEF @@
<1> QED
  BY <1>2

LEMMA StatusCases ==
  ASSUME NEW status \in StatusRead
  PROVE  \/ \E b \in BOOLEAN : status = [enabled |-> TRUE, funded |-> b]
         \/ status = [enabled |-> FALSE]
         \/ status = <<>>
BY DEF StatusRead, Status

LEMMA BondedReadShows ==
  ASSUME NEW m \in MakerState, m.mounted, NEW b \in BOOLEAN
  PROVE  BondMoves(m, ([s3 |-> "done"] @@ [enabled |-> TRUE, funded |-> b]) @@ m, "done",
                   m.rfqData)
<1>1. PICK n : n = ([s3 |-> "done"] @@ [enabled |-> TRUE, funded |-> b]) @@ m
  OBVIOUS
<1>2. n \in MakerState
  BY <1>1, ZenonT(30) DEF MakerState, @@
<1>3. QuoteSame(m, n) /\ MatchSame(m, n) /\ PaySame(m, n) /\ SettleSame(m, n)
  BY <1>1 DEF MakerState, QuoteSame, MatchSame, PaySame, SettleSame, @@
<1>4. n.mounted /\ n.s3 = "done" /\ n.rfqData = m.rfqData
  BY <1>1 DEF MakerState, @@
<1> QED
  BY <1>1, <1>2, <1>3, <1>4 DEF BondMoves, Stays

LEMMA BondedAsleepShows ==
  ASSUME NEW m \in MakerState, m.mounted
  PROVE  BondMoves(m, ([s3 |-> "done"] @@ [enabled |-> FALSE]) @@ m, "done", m.rfqData)
<1>1. PICK n : n = ([s3 |-> "done"] @@ [enabled |-> FALSE]) @@ m
  OBVIOUS
<1>2. n \in MakerState
  BY <1>1, ZenonT(30) DEF MakerState, @@
<1>3. QuoteSame(m, n) /\ MatchSame(m, n) /\ PaySame(m, n) /\ SettleSame(m, n)
  BY <1>1 DEF MakerState, QuoteSame, MatchSame, PaySame, SettleSame, @@
<1>4. n.mounted /\ n.s3 = "done" /\ n.rfqData = m.rfqData
  BY <1>1 DEF MakerState, @@
<1> QED
  BY <1>1, <1>2, <1>3, <1>4 DEF BondMoves, Stays

LEMMA BondedShows ==
  ASSUME NEW m \in MakerState, m.mounted
  PROVE  BondMoves(m, [s3 |-> "done"] @@ m, "done", m.rfqData)
<1>1. PICK n : n = [s3 |-> "done"] @@ m
  OBVIOUS
<1>2. n \in MakerState
  BY <1>1, ZenonT(30) DEF MakerState, @@
<1>3. QuoteSame(m, n) /\ MatchSame(m, n) /\ PaySame(m, n) /\ SettleSame(m, n)
  BY <1>1 DEF MakerState, QuoteSame, MatchSame, PaySame, SettleSame, @@
<1>4. n.mounted /\ n.s3 = "done" /\ n.rfqData = m.rfqData
  BY <1>1 DEF MakerState, @@
<1> QED
  BY <1>1, <1>2, <1>3, <1>4 DEF BondMoves, Stays

LEMMA BondedStatusShows ==
  ASSUME NEW m \in MakerState, m.mounted, NEW status \in refreshMakerStatus
  PROVE  BondMoves(m, ([s3 |-> "done"] @@ status) @@ m, "done", m.rfqData)
<1>1. \/ \E b \in BOOLEAN : status = [enabled |-> TRUE, funded |-> b]
      \/ status = [enabled |-> FALSE]
      \/ status = <<>>
  BY StatusCases DEF refreshMakerStatus, MakerStatus, StatusRead
<1>2. CASE status = <<>>
  <2>1. PICK r : r = [s3 |-> "done"]
    OBVIOUS
  <2>2. r @@ <<>> = r
    BY <2>1, NothingAdded
  <2> QED
    BY <1>2, <2>1, <2>2, BondedShows
<1> QED
  BY <1>1, <1>2, BondedReadShows, BondedAsleepShows

LEMMA GasSleptShows ==
  ASSUME NEW m \in MakerState, m.mounted
  PROVE  LET n == [enabled |-> FALSE] @@ m
         IN  BondMoves(m, n, m.s3, m.rfqData) /\ n.s3Error = m.s3Error
<1>1. PICK n : n = [enabled |-> FALSE] @@ m
  OBVIOUS
<1>2. n \in MakerState
  BY <1>1, ZenonT(30) DEF MakerState, @@
<1>3. QuoteSame(m, n) /\ MatchSame(m, n) /\ PaySame(m, n) /\ SettleSame(m, n)
  BY <1>1 DEF MakerState, QuoteSame, MatchSame, PaySame, SettleSame, @@
<1>4. n.mounted /\ n.s3 = m.s3 /\ n.rfqData = m.rfqData /\ n.s3Error = m.s3Error
  BY <1>1 DEF MakerState, @@
<1> QED
  BY <1>1, <1>2, <1>3, <1>4 DEF BondMoves, Stays

\* A call of this part is answered, and the handler stops.
LEMMA BondStops ==
  ASSUME IInv, NEW t \in Tabs, NEW c \in calls[t], c.at \in TakingCalls \cup BondCalls,
         ~T(t).mounted,
         NEW changes, NEW s3, WorldStep, MakerStops(t, c, changes),
         UNCHANGED <<taker, account, desk>>,
         M(t).mounted => LET n == changes @@ M(t)
                         IN  /\ BondMoves(M(t), n, s3, M(t).rfqData)
                             /\ \/ s3 = "idle"
                                \/ s3 = "done" /\ c.at \in BondCalls
                                \/ s3 = M(t).s3 /\ n.s3Error /\ c.at \in BondCalls
  PROVE  IInv'
<1> DEFINE n == changes @@ M(t)
           E == calls[t] \ {c}
<1>1. c.at \in MakerCalls
  BY DEF MakerCalls
<1>2. ASSUME M(t).mounted PROVE MakerShows(n, E, deal')
  <2>1. MakerInv(M(t), calls[t]) /\ MakerTrue(M(t), deal')
    BY <1>2, MakerSees, StepTrue
  <2>2. \A e \in (calls[t] \ E) \cup (E \ calls[t]) : e.at \in TakingCalls \cup BondCalls
    OBVIOUS
  <2>3. BondInv(M(t), calls[t]) /\ n.s3 = s3 /\ n.rfqData = M(t).rfqData
    BY <1>2, <2>1 DEF MakerInv, BondMoves
  <2>4. Kind(E, BondCalls) \subseteq Kind(calls[t], BondCalls)
    BY DEF Kind
  <2>5. c.at \in BondCalls => /\ c \in Kind(calls[t], BondCalls)
                              /\ Kind(E, TakingCalls) = Kind(calls[t], TakingCalls)
    BY DEF Kind, BondCalls, TakingCalls
  <2>6. BondInv(n, E)
    BY <1>2, <2>3, <2>4, <2>5 DEF BondInv
  <2> HIDE DEF n, E
  <2> QED
    BY <1>2, <2>1, <2>2, <2>6, BondPart DEF n
<1> QED
  BY <1>1, <1>2, MakerStopsKeeps

LEMMA BondGoesOn ==
  ASSUME IInv, NEW t \in Tabs, NEW c \in calls[t], c.at \in TakingCalls \cup BondCalls,
         ~T(t).mounted,
         NEW changes, NEW at \in BondCalls, NEW d \in Deals,
         WorldStep, MakerGoesOn(t, c, changes, at, d, None), UNCHANGED <<taker, account, desk>>,
         M(t).mounted => LET n == changes @@ M(t)
                         IN  \E rfq \in Deals : BondMoves(M(t), n, at, rfq)
  PROVE  IInv'
<1> DEFINE n == changes @@ M(t)
           k == NewCall(at, d, None)
           E == (calls[t] \ {c}) \cup {k}
<1>1. c.at \in MakerCalls /\ at \in MakerCalls /\ at \notin QuoteCalls
  BY DEF MakerCalls, BondCalls, QuoteCalls
<1>2. k.at = at
  BY DEF NewCall
<1> HIDE DEF k
<1>3. ASSUME M(t).mounted PROVE MakerShows(n, E, deal')
  <2>1. MakerInv(M(t), calls[t]) /\ MakerTrue(M(t), deal')
    BY <1>3, MakerSees, StepTrue
  <2>2. \A e \in (calls[t] \ E) \cup (E \ calls[t]) : e.at \in TakingCalls \cup BondCalls
    BY <1>2
  <2>3. PICK rfq \in Deals : BondMoves(M(t), n, at, rfq)
    BY <1>3
  <2>4. k \in Kind(E, BondCalls)
    BY <1>2 DEF Kind
  <2>5. BondInv(n, E)
    BY <2>3, <2>4 DEF BondInv, BondMoves, BondCalls
  <2> HIDE DEF n, E
  <2> QED
    BY <2>1, <2>2, <2>3, <2>5, BondPart
<1> QED
  BY <1>1, <1>3, MakerGoesOnKeeps DEF k

LEMMA BondPress ==
  ASSUME IInv, NEW t \in Tabs, M(t).mounted, NEW changes,
         NEW at \in TakingCalls \cup BondCalls, NEW d \in Deals \cup {None},
         at \notin Dealless => d \in Deals,
         MakerPresses(t, at, d, None, changes), UNCHANGED <<taker, account, desk>>,
         LET n == changes @@ M(t)
         IN  \/ at \in TakingCalls /\ BondMoves(M(t), n, "opening", M(t).rfqData)
             \/ at \in BondCalls /\ M(t).s3 = at /\ BondMoves(M(t), n, at, M(t).rfqData)
  PROVE  IInv'
<1> DEFINE n == changes @@ M(t)
           k == NewCall(at, d, None)
           E == calls[t] \cup {k}
<1>1. at \in MakerCalls /\ at \notin QuoteCalls
  BY DEF MakerCalls, BondCalls, TakingCalls, QuoteCalls
<1>2. k.at = at
  BY DEF NewCall
<1> HIDE DEF k
<1>3. MakerShows(n, E, deal')
  <2>1. MakerInv(M(t), calls[t]) /\ MakerTrue(M(t), deal')
    BY MakerSees, StepTrue, StillKeeps DEF MakerPresses
  <2>2. \A e \in (calls[t] \ E) \cup (E \ calls[t]) : e.at \in TakingCalls \cup BondCalls
    BY <1>2
  <2>3. BondInv(M(t), calls[t])
    BY <2>1 DEF MakerInv
  <2>4. CASE at \in TakingCalls /\ BondMoves(M(t), n, "opening", M(t).rfqData)
    <3>1. k \in Kind(E, TakingCalls) /\ Kind(E, BondCalls) = Kind(calls[t], BondCalls)
      BY <1>2, <2>4 DEF Kind, TakingCalls, BondCalls
    <3>2. BondInv(n, E)
      BY <2>3, <2>4, <3>1 DEF BondInv, BondMoves
    <3> HIDE DEF n, E
    <3> QED
      BY <2>1, <2>2, <2>4, <3>2, BondPart
  <2>5. CASE at \in BondCalls /\ M(t).s3 = at /\ BondMoves(M(t), n, at, M(t).rfqData)
    <3>1. k \in Kind(E, BondCalls)
      BY <1>2, <2>5 DEF Kind
    <3>2. M(t).rfqData \in Deals
      BY <2>3, <2>5 DEF BondInv, BondCalls
    <3>3. BondInv(n, E)
      BY <2>5, <3>1, <3>2 DEF BondInv, BondMoves, BondCalls
    <3> HIDE DEF n, E
    <3> QED
      BY <2>1, <2>2, <2>5, <3>3, BondPart
  <2> QED  BY <2>4, <2>5
<1> QED
  BY <1>1, <1>3, MakerPressKeeps DEF k

LEMMA PressGas ==
  ASSUME IInv, NEW t \in Tabs, pressGas(t), UNCHANGED <<taker, account, desk>>
  PROVE  IInv'
<1> DEFINE n == [enabled |-> FALSE] @@ M(t)
<1>1. /\ M(t).mounted /\ UNCHANGED <<world, calls>> /\ ShowMaker(t, [enabled |-> FALSE])
      /\ WorldStep
  BY IInvWorld, StillKeeps DEF pressGas, handleGas
<1>2. /\ M(t) \in MakerState /\ ~T(t).mounted /\ calls \in [Tabs -> SUBSET Call]
      /\ MakerInv(M(t), calls[t]) /\ MakerTrue(M(t), deal')
  BY <1>1, MakerSees, StepTrue
<1>3. BondMoves(M(t), n, M(t).s3, M(t).rfqData) /\ n.s3Error = M(t).s3Error
  BY <1>1, <1>2, GasSleptShows
<1>4. BondInv(n, calls[t])
  BY <1>2, <1>3 DEF MakerInv, BondInv, BondMoves
<1>5. MakerShows(n, calls[t], deal')
  BY <1>2, <1>3, <1>4, BondPart
<1>6. calls' = [calls EXCEPT ![t] = calls[t]]
  BY <1>1, <1>2
<1> QED
  BY <1>1, <1>2, <1>5, <1>6, MakerStep DEF MakerShows, Stays

LEMMA PressOpenRfq ==
  ASSUME IInv, NEW t \in Tabs, pressOpenRfq(t) \/ openNewRfq(t), UNCHANGED <<taker, account, desk>>
  PROVE  IInv'
<1>1. M(t).mounted /\ MakerPresses(t, "open-rfq", None, None, opening)
  BY DEF pressOpenRfq, openNewRfq, MakerShown, MakerThere
<1>2. "open-rfq" \in TakingCalls /\ "open-rfq" \in Dealless
  BY DEF TakingCalls, Dealless
<1>3. BondMoves(M(t), opening @@ M(t), "opening", M(t).rfqData)
  BY <1>1, MakerSees, OpeningShows
<1> QED
  BY <1>1, <1>2, <1>3, BondPress

LEMMA PressJoinRfq ==
  ASSUME IInv, NEW t \in Tabs, NEW d \in Deals, pressJoinRfq(t, d),
         UNCHANGED <<taker, account, desk>>
  PROVE  IInv'
<1>1. M(t).mounted /\ MakerPresses(t, "join-rfq", d, None, opening)
  BY DEF pressJoinRfq, MakerShown, MakerThere
<1>2. "join-rfq" \in TakingCalls
  BY DEF TakingCalls
<1>3. BondMoves(M(t), opening @@ M(t), "opening", M(t).rfqData)
  BY <1>1, MakerSees, OpeningShows
<1> QED
  BY <1>1, <1>2, <1>3, BondPress

LEMMA RetryBond ==
  ASSUME IInv, NEW t \in Tabs, retryBond(t), UNCHANGED <<taker, account, desk>>
  PROVE  IInv'
<1>1. PICK at \in BondCalls :
        /\ MakerShown(t, {1}) /\ M(t).s3 = at
        /\ MakerPresses(t, at, M(t).rfqData, None, [s3Error |-> FALSE])
  BY DEF retryBond, BondCalls
<1>2. M(t).mounted
  BY <1>1 DEF MakerShown, MakerThere
<1>3. BondMoves(M(t), [s3Error |-> FALSE] @@ M(t), at, M(t).rfqData)
  BY <1>1, <1>2, MakerSees, BondRetryShows
<1>4. M(t).rfqData \in Deals
  BY <1>1, <1>2, MakerSees DEF MakerInv, BondInv, BondCalls
<1> QED
  BY <1>1, <1>2, <1>3, <1>4, BondPress

\* A request has been taken, whatever was awaited beside it.
LEMMA TakesRfq ==
  ASSUME IInv, NEW t \in Tabs, NEW c \in calls[t], c.at \in TakingCalls, ~T(t).mounted,
         NEW d \in Deals, WorldStep, takesRfq(t, c, d), UNCHANGED <<taker, account, desk>>
  PROVE  IInv'
<1> DEFINE changes == [rfqData |-> d, s3 |-> "bondApprove", s3Error |-> FALSE]
<1>1. MakerGoesOn(t, c, changes, "bondApprove", d, None)
  BY DEF takesRfq
<1>2. M(t).mounted => BondMoves(M(t), changes @@ M(t), "bondApprove", d)
  BY MakerSees, TakenShows
<1>3. "bondApprove" \in BondCalls
  BY DEF BondCalls
<1> HIDE DEF changes
<1> QED
  BY <1>1, <1>2, <1>3, BondGoesOn

LEMMA TakingFails ==
  ASSUME IInv, NEW t \in Tabs, NEW c \in calls[t], c.at \in TakingCalls, ~T(t).mounted,
         WorldStep, UNCHANGED <<taker, account, desk>>,
         \/ MakerStops(t, c, [s3 |-> "idle", s3Error |-> TRUE])
         \/ MakerStops(t, c, [s3 |-> "idle"])
         \/ MakerStops(t, c, [s3 |-> "idle"] @@ [enabled |-> FALSE])
  PROVE  IInv'
<1>1. CASE MakerStops(t, c, [s3 |-> "idle", s3Error |-> TRUE])
  BY <1>1, MakerSees, NotTakenShows, BondStops
<1>2. CASE MakerStops(t, c, [s3 |-> "idle"])
  BY <1>2, MakerSees, TakingHeldShows, BondStops
<1>3. CASE MakerStops(t, c, [s3 |-> "idle"] @@ [enabled |-> FALSE])
  BY <1>3, MakerSees, TakingSleptShows, BondStops
<1> QED
  BY <1>1, <1>2, <1>3

LEMMA RunOpenRfq ==
  ASSUME IInv, NEW t \in Tabs, runOpenRfq(t), UNCHANGED <<taker, account, desk>>
  PROVE  IInv'
<1>1. PICK c \in Awaited(t, "open-rfq"), d \in Deals :
        \/ openRfq(d) /\ takesRfq(t, c, d)
        \/ Fails(openRfq(d)) /\ MakerStops(t, c, [s3 |-> "idle", s3Error |-> TRUE])
        \/ UNCHANGED world /\ MakerStops(t, c, [s3 |-> "idle"])
        \/ UNCHANGED world /\ MakerStops(t, c, [s3 |-> "idle"] @@ [enabled |-> FALSE])
  BY DEF runOpenRfq, MakerSleeps
<1>2. "open-rfq" \in TakingCalls /\ "open-rfq" \in MakerCalls
  BY DEF TakingCalls, MakerCalls
<1>3. c \in calls[t] /\ c.at \in TakingCalls /\ ~T(t).mounted /\ WorldTypeOK
  BY <1>2, MakerFinds
<1>4. CASE openRfq(d) /\ takesRfq(t, c, d)
  BY <1>3, <1>4, OpenRfqKeeps, TakesRfq
<1>5. CASE Fails(openRfq(d)) /\ MakerStops(t, c, [s3 |-> "idle", s3Error |-> TRUE])
  BY <1>3, <1>5, OpenRfqKeeps, FailsKeeps, TakingFails
<1>6. CASE UNCHANGED world /\ MakerStops(t, c, [s3 |-> "idle"])
  BY <1>3, <1>6, StillKeeps, TakingFails
<1>7. CASE UNCHANGED world /\ MakerStops(t, c, [s3 |-> "idle"] @@ [enabled |-> FALSE])
  BY <1>3, <1>7, StillKeeps, TakingFails
<1> QED
  BY <1>1, <1>4, <1>5, <1>6, <1>7

LEMMA RunJoinRfq ==
  ASSUME IInv, NEW t \in Tabs, runJoinRfq(t), UNCHANGED <<taker, account, desk>>
  PROVE  IInv'
<1>1. PICK c \in Awaited(t, "join-rfq") :
        /\ UNCHANGED world
        /\ \/ takesRfq(t, c, c.deal)
           \/ MakerStops(t, c, [s3 |-> "idle", s3Error |-> TRUE])
           \/ MakerStops(t, c, [s3 |-> "idle"] @@ [enabled |-> FALSE])
  BY DEF runJoinRfq, joinRfq, Answers, MakerSleeps
<1>2. "join-rfq" \in TakingCalls /\ "join-rfq" \in MakerCalls /\ "join-rfq" \notin Dealless
  BY DEF TakingCalls, MakerCalls, Dealless
<1>3. c \in calls[t] /\ c.at \in TakingCalls /\ ~T(t).mounted /\ WorldStep /\ c.deal \in Deals
  BY <1>1, <1>2, MakerFinds, StillKeeps DEF CallOK
<1> QED
  BY <1>1, <1>3, TakesRfq, TakingFails

LEMMA BondFails ==
  ASSUME IInv, NEW t \in Tabs, NEW c \in calls[t], c.at \in BondCalls, ~T(t).mounted,
         WorldStep, MakerStops(t, c, s3Failed), UNCHANGED <<taker, account, desk>>
  PROVE  IInv'
<1>1. M(t).mounted
      => LET n == s3Failed @@ M(t) IN BondMoves(M(t), n, M(t).s3, M(t).rfqData) /\ n.s3Error
  BY MakerSees, BondFailedShows
<1> QED
  BY <1>1, BondStops

LEMMA RunMakerApprove ==
  ASSUME IInv, NEW t \in Tabs, runMakerApprove(t), UNCHANGED <<taker, account, desk>>
  PROVE  IInv'
<1>1. PICK c \in Awaited(t, "bondApprove") :
        /\ UNCHANGED world
        /\ \/ MakerGoesOn(t, c, [s3 |-> "depositBond", s3Error |-> FALSE], "depositBond", c.deal,
                          None)
           \/ MakerStops(t, c, s3Failed)
  BY DEF runMakerApprove, sendApprove, Answers
<1>2. /\ "bondApprove" \in BondCalls /\ "bondApprove" \in MakerCalls
      /\ "bondApprove" \notin Dealless
      /\ "depositBond" \in BondCalls
  BY DEF BondCalls, MakerCalls, Dealless
<1>3. /\ c \in calls[t] /\ c.at \in BondCalls /\ ~T(t).mounted /\ WorldStep /\ c.deal \in Deals
  BY <1>1, <1>2, MakerFinds, StillKeeps DEF CallOK
<1>4. CASE MakerGoesOn(t, c, [s3 |-> "depositBond", s3Error |-> FALSE], "depositBond", c.deal,
                       None)
  <2>1. ASSUME M(t).mounted
        PROVE  \E rfq \in Deals :
                 BondMoves(M(t), [s3 |-> "depositBond", s3Error |-> FALSE] @@ M(t), "depositBond",
                           rfq)
    <3>1. c \in Kind(calls[t], BondCalls)
      BY <1>3 DEF Kind
    <3>2. M(t).rfqData \in Deals
      BY <2>1, <3>1, MakerSees DEF MakerInv, BondInv
    <3> QED
      BY <2>1, <3>2, MakerSees, BondApprovedShows
  <2> QED
    BY <1>2, <1>3, <1>4, <2>1, BondGoesOn
<1>5. CASE MakerStops(t, c, s3Failed)
  BY <1>3, <1>5, BondFails
<1> QED
  BY <1>1, <1>4, <1>5

LEMMA RunDepositBond ==
  ASSUME IInv, NEW t \in Tabs, runDepositBond(t), UNCHANGED <<taker, account, desk>>
  PROVE  IInv'
<1>1. PICK c \in Awaited(t, "depositBond") :
        \/ /\ depositBond(t)
           /\ \E status \in refreshMakerStatus : MakerStops(t, c, [s3 |-> "done"] @@ status)
        \/ Fails(depositBond(t)) /\ MakerStops(t, c, s3Failed)
  BY DEF runDepositBond
<1>2. "depositBond" \in BondCalls /\ "depositBond" \in MakerCalls
  BY DEF BondCalls, MakerCalls
<1>3. /\ c \in calls[t] /\ c.at \in BondCalls /\ ~T(t).mounted /\ WorldTypeOK
  BY <1>1, <1>2, MakerFinds
<1>4. ASSUME NEW status \in refreshMakerStatus, depositBond(t),
             MakerStops(t, c, [s3 |-> "done"] @@ status)
      PROVE  IInv'
  <2>1. M(t).mounted => BondMoves(M(t), ([s3 |-> "done"] @@ status) @@ M(t), "done", M(t).rfqData)
    BY MakerSees, BondedStatusShows
  <2> QED
    BY <1>3, <1>4, <2>1, DepositBondKeeps, BondStops
<1>5. CASE Fails(depositBond(t)) /\ MakerStops(t, c, s3Failed)
  BY <1>3, <1>5, DepositBondKeeps, FailsKeeps, BondFails
<1> QED
  BY <1>1, <1>4, <1>5
-----------------------------------------------------------------------------
(***************************************************************************)
(* The quote and the match.                                                *)
(***************************************************************************)

LEMMA SigningShows ==
  ASSUME NEW m \in MakerState, m.mounted
  PROVE  QuoteMoves(m, [s4 |-> "signing"] @@ m, "signing")
<1>1. PICK n : n = [s4 |-> "signing"] @@ m
  OBVIOUS
<1>2. n \in MakerState
  BY <1>1, ZenonT(30) DEF MakerState, @@
<1>3. BondSame(m, n) /\ MatchSame(m, n) /\ PaySame(m, n) /\ SettleSame(m, n)
  BY <1>1 DEF MakerState, BondSame, MatchSame, PaySame, SettleSame, @@
<1>4. n.mounted /\ n.s4 = "signing"
  BY <1>1 DEF MakerState, @@
<1> QED
  BY <1>1, <1>2, <1>3, <1>4 DEF QuoteMoves, Stays

LEMMA SignedShows ==
  ASSUME NEW m \in MakerState, m.mounted
  PROVE  QuoteMoves(m, [s4 |-> "submitting"] @@ m, "submitting")
<1>1. PICK n : n = [s4 |-> "submitting"] @@ m
  OBVIOUS
<1>2. n \in MakerState
  BY <1>1, ZenonT(30) DEF MakerState, @@
<1>3. BondSame(m, n) /\ MatchSame(m, n) /\ PaySame(m, n) /\ SettleSame(m, n)
  BY <1>1 DEF MakerState, BondSame, MatchSame, PaySame, SettleSame, @@
<1>4. n.mounted /\ n.s4 = "submitting"
  BY <1>1 DEF MakerState, @@
<1> QED
  BY <1>1, <1>2, <1>3, <1>4 DEF QuoteMoves, Stays

LEMMA NotQuotedShows ==
  ASSUME NEW m \in MakerState, m.mounted
  PROVE  QuoteMoves(m, [s4 |-> "idle"] @@ m, "idle")
<1>1. PICK n : n = [s4 |-> "idle"] @@ m
  OBVIOUS
<1>2. n \in MakerState
  BY <1>1, ZenonT(30) DEF MakerState, @@
<1>3. BondSame(m, n) /\ MatchSame(m, n) /\ PaySame(m, n) /\ SettleSame(m, n)
  BY <1>1 DEF MakerState, BondSame, MatchSame, PaySame, SettleSame, @@
<1>4. n.mounted /\ n.s4 = "idle"
  BY <1>1 DEF MakerState, @@
<1> QED
  BY <1>1, <1>2, <1>3, <1>4 DEF QuoteMoves, Stays

LEMMA QuoteSleptShows ==
  ASSUME NEW m \in MakerState, m.mounted
  PROVE  QuoteMoves(m, ([s4 |-> "idle"] @@ [enabled |-> FALSE]) @@ m, "idle")
<1>1. PICK n : n = ([s4 |-> "idle"] @@ [enabled |-> FALSE]) @@ m
  OBVIOUS
<1>2. n \in MakerState
  BY <1>1, ZenonT(30) DEF MakerState, @@
<1>3. BondSame(m, n) /\ MatchSame(m, n) /\ PaySame(m, n) /\ SettleSame(m, n)
  BY <1>1 DEF MakerState, BondSame, MatchSame, PaySame, SettleSame, @@
<1>4. n.mounted /\ n.s4 = "idle"
  BY <1>1 DEF MakerState, @@
<1> QED
  BY <1>1, <1>2, <1>3, <1>4 DEF QuoteMoves, Stays

LEMMA QuotedShows ==
  ASSUME NEW m \in MakerState, m.mounted,
         NEW k \in 1..MAX_NONCE + 1
  PROVE  QuoteMoves(m, [s4 |-> "done", quoteAccepted |-> TRUE, nonce |-> k] @@ m, "done")
<1>1. PICK n : n = [s4 |-> "done", quoteAccepted |-> TRUE, nonce |-> k] @@ m
  OBVIOUS
<1>2. n \in MakerState
  BY <1>1, ZenonT(30) DEF MakerState, @@
<1>3. BondSame(m, n) /\ MatchSame(m, n) /\ PaySame(m, n) /\ SettleSame(m, n)
  BY <1>1 DEF MakerState, BondSame, MatchSame, PaySame, SettleSame, @@
<1>4. n.mounted /\ n.s4 = "done"
  BY <1>1 DEF MakerState, @@
<1> QED
  BY <1>1, <1>2, <1>3, <1>4 DEF QuoteMoves, Stays

LEMMA MatchingShows ==
  ASSUME NEW m \in MakerState, m.mounted
  PROVE  LET n == [matching |-> TRUE] @@ m IN MatchMoves(m, n, m.matchId) /\ n.matching
<1>1. PICK n : n = [matching |-> TRUE] @@ m
  OBVIOUS
<1>2. n \in MakerState
  BY <1>1, ZenonT(30) DEF MakerState, @@
<1>3. BondSame(m, n) /\ QuoteSame(m, n) /\ PaySame(m, n) /\ SettleSame(m, n)
  BY <1>1 DEF MakerState, BondSame, QuoteSame, PaySame, SettleSame, @@
<1>4. n.mounted /\ n.matchId = m.matchId /\ n.matching
  BY <1>1 DEF MakerState, @@
<1> QED
  BY <1>1, <1>2, <1>3, <1>4 DEF MatchMoves, Stays

LEMMA MatchEndsShows ==
  ASSUME NEW m \in MakerState, m.mounted
  PROVE  LET n == matched @@ m IN MatchMoves(m, n, m.matchId) /\ ~n.matching
<1>1. PICK n : n = matched @@ m
  OBVIOUS
<1>2. n \in MakerState
  BY <1>1, ZenonT(30) DEF matched, MakerState, @@
<1>3. BondSame(m, n) /\ QuoteSame(m, n) /\ PaySame(m, n) /\ SettleSame(m, n)
  BY <1>1 DEF matched, MakerState, BondSame, QuoteSame, PaySame, SettleSame, @@
<1>4. n.mounted /\ n.matchId = m.matchId /\ ~n.matching
  BY <1>1 DEF matched, MakerState, @@
<1> QED
  BY <1>1, <1>2, <1>3, <1>4 DEF MatchMoves, Stays

LEMMA MatchSleptShows ==
  ASSUME NEW m \in MakerState, m.mounted
  PROVE  LET n == ([matching |-> FALSE] @@ [enabled |-> FALSE]) @@ m
         IN  MatchMoves(m, n, m.matchId) /\ ~n.matching
<1>1. PICK n : n = ([matching |-> FALSE] @@ [enabled |-> FALSE]) @@ m
  OBVIOUS
<1>2. n \in MakerState
  BY <1>1, ZenonT(30) DEF MakerState, @@
<1>3. BondSame(m, n) /\ QuoteSame(m, n) /\ PaySame(m, n) /\ SettleSame(m, n)
  BY <1>1 DEF MakerState, BondSame, QuoteSame, PaySame, SettleSame, @@
<1>4. n.mounted /\ n.matchId = m.matchId /\ ~n.matching
  BY <1>1 DEF MakerState, @@
<1> QED
  BY <1>1, <1>2, <1>3, <1>4 DEF MatchMoves, Stays

LEMMA NoMatchShows ==
  ASSUME NEW m \in MakerState, m.mounted
  PROVE  LET n == ([matching |-> FALSE] @@ [quoteAccepted |-> FALSE]) @@ m
         IN  MatchMoves(m, n, m.matchId) /\ ~n.matching
<1>1. PICK n : n = ([matching |-> FALSE] @@ [quoteAccepted |-> FALSE]) @@ m
  OBVIOUS
<1>2. n \in MakerState
  BY <1>1, ZenonT(30) DEF MakerState, @@
<1>3. BondSame(m, n) /\ QuoteSame(m, n) /\ PaySame(m, n) /\ SettleSame(m, n)
  BY <1>1 DEF MakerState, BondSame, QuoteSame, PaySame, SettleSame, @@
<1>4. n.mounted /\ n.matchId = m.matchId /\ ~n.matching
  BY <1>1 DEF MakerState, @@
<1> QED
  BY <1>1, <1>2, <1>3, <1>4 DEF MatchMoves, Stays

LEMMA MatchedShows ==
  ASSUME NEW m \in MakerState, m.mounted, NEW d \in Deals
  PROVE  LET n == ([matching |-> FALSE] @@ [matchId |-> d]) @@ m
         IN  MatchMoves(m, n, d) /\ ~n.matching
<1>1. PICK n : n = ([matching |-> FALSE] @@ [matchId |-> d]) @@ m
  OBVIOUS
<1>2. n \in MakerState
  BY <1>1, ZenonT(30) DEF MakerState, @@
<1>3. BondSame(m, n) /\ QuoteSame(m, n) /\ PaySame(m, n) /\ SettleSame(m, n)
  BY <1>1 DEF MakerState, BondSame, QuoteSame, PaySame, SettleSame, @@
<1>4. n.mounted /\ n.matchId = d /\ ~n.matching
  BY <1>1 DEF MakerState, @@
<1> QED
  BY <1>1, <1>2, <1>3, <1>4 DEF MatchMoves, Stays

LEMMA QuoteStops ==
  ASSUME IInv, NEW t \in Tabs, NEW c \in calls[t], c.at \in QuoteCalls, ~T(t).mounted,
         NEW changes, NEW s4 \in {"idle", "done"},
         WorldStep, MakerStops(t, c, changes), UNCHANGED <<taker, account, desk>>,
         M(t).mounted => QuoteMoves(M(t), changes @@ M(t), s4)
  PROVE  IInv'
<1> DEFINE n == changes @@ M(t)
           E == calls[t] \ {c}
<1>1. c.at \in MakerCalls
  BY DEF MakerCalls
<1>2. ASSUME M(t).mounted PROVE MakerShows(n, E, deal')
  <2>1. MakerInv(M(t), calls[t]) /\ MakerTrue(M(t), deal')
    BY <1>2, MakerSees, StepTrue
  <2>2. \A e \in (calls[t] \ E) \cup (E \ calls[t]) : e.at \in QuoteCalls
    OBVIOUS
  <2>3. QuoteInv(n, E)
    BY <1>2 DEF QuoteInv, QuoteMoves
  <2> HIDE DEF n, E
  <2> QED
    BY <1>2, <2>1, <2>2, <2>3, QuotePart DEF n
<1> QED
  BY <1>1, <1>2, MakerStopsKeeps

\* A screen that quotes has the request that its calls are about.
LEMMA PressQuote ==
  ASSUME IInv, NEW t \in Tabs, pressQuote(t), UNCHANGED <<taker, account, desk>>
  PROVE  IInv'
<1> DEFINE changes == [s4 |-> "signing"]
           n == changes @@ M(t)
           k == NewCall("sign", M(t).rfqData, M(t).nonce)
           E == calls[t] \cup {k}
<1>1. /\ M(t).mounted /\ makerStep(t) = 2 /\ M(t).nonce <= MAX_NONCE
      /\ MakerPresses(t, "sign", M(t).rfqData, M(t).nonce, changes)
  BY DEF pressQuote, MakerShown, MakerThere
<1>2. /\ M(t) \in MakerState /\ MakerInv(M(t), calls[t]) /\ MakerTrue(M(t), deal')
  BY <1>1, MakerSees, StepTrue, StillKeeps DEF MakerPresses
<1>3. M(t).s3 = "done"
  BY <1>1 DEF makerStep
<1>4. M(t).rfqData \in Deals /\ M(t).nonce \in 1..MAX_NONCE
  BY <1>1, <1>2, <1>3, DeskApiAssumption DEF MakerInv, BondInv, MakerState
<1>5. "sign" \in MakerCalls /\ "sign" \in QuoteCalls /\ k.at = "sign"
  BY DEF MakerCalls, QuoteCalls, NewCall
<1>6. QuoteMoves(M(t), n, "signing")
  BY <1>1, <1>2, SigningShows
<1> HIDE DEF k
<1>7. QuoteInv(n, E)
  <2>1. k \in Kind(E, QuoteCalls)
    BY <1>5 DEF Kind
  <2> QED
    BY <2>1 DEF QuoteInv
<1>8. \A e \in (calls[t] \ E) \cup (E \ calls[t]) : e.at \in QuoteCalls
  BY <1>5
<1>9. MakerShows(n, E, deal')
  <2> HIDE DEF n, E
  <2> QED
    BY <1>2, <1>6, <1>7, <1>8, QuotePart
<1> HIDE DEF changes
<1> QED
  BY <1>1, <1>4, <1>5, <1>9, MakerPressKeeps DEF k

LEMMA QuoteSigned ==
  ASSUME IInv, NEW t \in Tabs, quoteSigned(t), UNCHANGED <<taker, account, desk>>
  PROVE  IInv'
<1>1. PICK c \in Awaited(t, "sign") :
        /\ UNCHANGED world
        /\ \/ MakerGoesOn(t, c, [s4 |-> "submitting"], "quote", c.deal, c.with)
           \/ MakerStops(t, c, [s4 |-> "idle"])
  BY DEF quoteSigned, signsQuote, Answers
<1>2. /\ {"sign", "quote"} \subseteq QuoteCalls /\ {"sign", "quote"} \subseteq MakerCalls
      /\ "sign" \notin Dealless
  BY DEF QuoteCalls, MakerCalls, Dealless
<1>3. /\ c \in calls[t] /\ c.at \in QuoteCalls /\ c.at \in MakerCalls /\ ~T(t).mounted /\ WorldStep
      /\ c.deal \in Deals /\ c.with \in 1..MAX_NONCE
  BY <1>1, <1>2, MakerFinds, StillKeeps DEF CallOK
<1>4. CASE MakerGoesOn(t, c, [s4 |-> "submitting"], "quote", c.deal, c.with)
  <2> DEFINE n == [s4 |-> "submitting"] @@ M(t)
             k == NewCall("quote", c.deal, c.with)
             E == (calls[t] \ {c}) \cup {k}
  <2>1. k.at = "quote"
    BY DEF NewCall
  <2> HIDE DEF k
  <2>2. ASSUME M(t).mounted PROVE MakerShows(n, E, deal')
    <3>1. /\ M(t) \in MakerState /\ MakerInv(M(t), calls[t]) /\ MakerTrue(M(t), deal')
      BY <1>3, <2>2, MakerSees, StepTrue
    <3>2. QuoteMoves(M(t), n, "submitting")
      BY <2>2, <3>1, SignedShows
    <3>3. k \in Kind(E, QuoteCalls)
      BY <1>2, <2>1 DEF Kind
    <3>4. QuoteInv(n, E)
      BY <3>3 DEF QuoteInv
    <3>5. \A e \in (calls[t] \ E) \cup (E \ calls[t]) : e.at \in QuoteCalls
      BY <1>2, <1>3, <2>1
    <3> HIDE DEF n, E
    <3> QED
      BY <3>1, <3>2, <3>4, <3>5, QuotePart
  <2> QED
    BY <1>2, <1>3, <1>4, <2>2, MakerGoesOnKeeps DEF k
<1>5. CASE MakerStops(t, c, [s4 |-> "idle"])
  BY <1>3, <1>5, MakerSees, NotQuotedShows, QuoteStops
<1> QED
  BY <1>1, <1>4, <1>5

LEMMA RunQuote ==
  ASSUME IInv, NEW t \in Tabs, runQuote(t), UNCHANGED <<taker, account, desk>>
  PROVE  IInv'
<1> DEFINE accepted(c) == [s4 |-> "done", quoteAccepted |-> TRUE, nonce |-> c.with + 1]
<1>1. PICK c \in Awaited(t, "quote") :
        \/ submitQuote(t, c.deal, c.with) /\ MakerStops(t, c, accepted(c))
        \/ Fails(submitQuote(t, c.deal, c.with)) /\ MakerStops(t, c, [s4 |-> "idle"])
        \/ UNCHANGED world /\ MakerStops(t, c, [s4 |-> "idle"] @@ [enabled |-> FALSE])
  BY DEF runQuote, MakerSleeps
<1>2. "quote" \in QuoteCalls /\ "quote" \in MakerCalls /\ "quote" \notin Dealless
  BY DEF QuoteCalls, MakerCalls, Dealless
<1>3. /\ c \in calls[t] /\ c.at \in QuoteCalls /\ ~T(t).mounted /\ WorldTypeOK
      /\ c.deal \in Deals /\ c.with \in 1..MAX_NONCE
  BY <1>1, <1>2, MakerFinds DEF CallOK
<1>4. CASE submitQuote(t, c.deal, c.with) /\ MakerStops(t, c, accepted(c))
  <2>1. c.with + 1 \in 1..MAX_NONCE + 1
    BY <1>3, DeskApiAssumption
  <2>2. M(t).mounted => QuoteMoves(M(t), accepted(c) @@ M(t), "done")
    BY <2>1, MakerSees, QuotedShows
  <2> HIDE DEF accepted
  <2> QED
    BY <1>3, <1>4, <2>2, SubmitQuoteKeeps, QuoteStops
<1>5. CASE Fails(submitQuote(t, c.deal, c.with)) /\ MakerStops(t, c, [s4 |-> "idle"])
  BY <1>3, <1>5, MakerSees, SubmitQuoteKeeps, FailsKeeps, NotQuotedShows, QuoteStops
<1>6. CASE UNCHANGED world /\ MakerStops(t, c, [s4 |-> "idle"] @@ [enabled |-> FALSE])
  BY <1>3, <1>6, MakerSees, StillKeeps, QuoteSleptShows, QuoteStops
<1> QED
  BY <1>1, <1>4, <1>5, <1>6

\* A match that was asked for is answered: nothing else was asked for, and there is none yet.
LEMMA MatchStops ==
  ASSUME IInv, NEW t \in Tabs, NEW c \in calls[t], c.at = "match", ~T(t).mounted,
         NEW changes, NEW d \in Deals \cup {None},
         WorldStep, MakerStops(t, c, changes), UNCHANGED <<taker, account, desk>>,
         M(t).mounted => LET n == changes @@ M(t)
                         IN  /\ ~n.matching
                             /\ MatchMoves(M(t), n, M(t).matchId) \/ MatchMoves(M(t), n, d)
  PROVE  IInv'
<1> DEFINE n == changes @@ M(t)
           E == calls[t] \ {c}
<1>1. c.at \in MakerCalls
  BY DEF MakerCalls
<1>2. ASSUME M(t).mounted PROVE MakerShows(n, E, deal')
  <2>1. MakerInv(M(t), calls[t]) /\ MakerTrue(M(t), deal')
    BY <1>2, MakerSees, StepTrue
  <2>2. \A e \in (calls[t] \ E) \cup (E \ calls[t]) : e.at \in {"match"}
    OBVIOUS
  <2>3. c \in Kind(calls[t], {"match"})
    BY DEF Kind
  <2>4. M(t).matchId = None /\ Kind(calls[t], {"match"}) = {c}
    BY <2>1, <2>3 DEF MakerInv, MatchInv
  <2>5. Kind(E, {"match"}) = {}
    BY <2>4 DEF Kind
  <2>6. MatchInv(n, E)
    BY <1>2, <2>5 DEF MatchInv
  <2> HIDE DEF n, E
  <2> QED
    BY <1>2, <2>1, <2>2, <2>4, <2>6, MatchPart DEF n
<1> QED
  BY <1>1, <1>2, MakerStopsKeeps

LEMMA PressMatch ==
  ASSUME IInv, NEW t \in Tabs, pressMatch(t), UNCHANGED <<taker, account, desk>>
  PROVE  IInv'
<1> DEFINE changes == [matching |-> TRUE]
           n == changes @@ M(t)
           k == NewCall("match", M(t).rfqData, None)
           E == calls[t] \cup {k}
<1>1. /\ M(t).mounted /\ makerStep(t) = 3 /\ ~M(t).matching
      /\ MakerPresses(t, "match", M(t).rfqData, None, changes)
  BY DEF pressMatch, MakerShown, MakerThere
<1>2. /\ M(t) \in MakerState /\ MakerInv(M(t), calls[t]) /\ MakerTrue(M(t), deal')
  BY <1>1, MakerSees, StepTrue, StillKeeps DEF MakerPresses
<1>3. M(t).s3 = "done" /\ M(t).matchId = None
  BY <1>1 DEF makerStep
<1>4. M(t).rfqData \in Deals
  BY <1>2, <1>3 DEF MakerInv, BondInv
<1>5. "match" \in MakerCalls /\ "match" \notin QuoteCalls /\ k.at = "match"
  BY DEF MakerCalls, QuoteCalls, NewCall
<1>6. MatchMoves(M(t), n, M(t).matchId) /\ n.matching
  BY <1>1, <1>2, MatchingShows
<1> HIDE DEF k
<1>7. MatchInv(n, E)
  <2>1. Kind(calls[t], {"match"}) = {}
    BY <1>1, <1>2 DEF MakerInv, MatchInv
  <2>2. Kind(E, {"match"}) = {k}
    BY <1>5, <2>1 DEF Kind
  <2> QED
    BY <1>3, <1>6, <2>2 DEF MatchInv, MatchMoves
<1>8. \A e \in (calls[t] \ E) \cup (E \ calls[t]) : e.at \in {"match"}
  BY <1>5
<1>9. MakerShows(n, E, deal')
  <2> HIDE DEF n, E
  <2> QED
    BY <1>2, <1>6, <1>7, <1>8, MatchPart
<1> HIDE DEF changes
<1> QED
  BY <1>1, <1>4, <1>5, <1>9, MakerPressKeeps DEF k

LEMMA RunMatch ==
  ASSUME IInv, NEW t \in Tabs, runMatch(t), UNCHANGED <<taker, account, desk>>
  PROVE  IInv'
<1>1. PICK c \in Awaited(t, "match") :
        \/ /\ decides(c.deal, None)
           /\ MakerStops(t, c, [matching |-> FALSE] @@ [quoteAccepted |-> FALSE])
        \/ \E m \in Tabs :
             \/ /\ matchAndLock(c.deal, m)
                /\ MakerStops(t, c, [matching |-> FALSE] @@ [matchId |-> c.deal])
             \/ /\ Fails(decides(c.deal, m) \/ matchAndLock(c.deal, m))
                /\ MakerStops(t, c, matched)
        \/ UNCHANGED world /\ MakerStops(t, c, [matching |-> FALSE] @@ [enabled |-> FALSE])
  BY DEF runMatch, MakerSleeps, matched
<1>2. "match" \in MakerCalls /\ "match" \notin Dealless
  BY DEF MakerCalls, Dealless
<1>3. c \in calls[t] /\ c.at = "match" /\ ~T(t).mounted /\ WorldTypeOK /\ c.deal \in Deals
  BY <1>1, <1>2, MakerFinds DEF CallOK
<1>4. CASE /\ decides(c.deal, None)
           /\ MakerStops(t, c, [matching |-> FALSE] @@ [quoteAccepted |-> FALSE])
  BY <1>3, <1>4, DecidesKeeps, MakerSees, NoMatchShows, MatchStops
<1>5. ASSUME NEW m \in Tabs, matchAndLock(c.deal, m),
             MakerStops(t, c, [matching |-> FALSE] @@ [matchId |-> c.deal])
      PROVE  IInv'
  BY <1>3, <1>5, MatchAndLockKeeps, MakerSees, MatchedShows, MatchStops
<1>6. ASSUME NEW m \in Tabs, Fails(decides(c.deal, m) \/ matchAndLock(c.deal, m)),
             MakerStops(t, c, matched)
      PROVE  IInv'
  <2>1. WorldStep
    BY <1>3, <1>6, DecidesKeeps, MatchAndLockKeeps, FailsKeeps
  <2> QED
    BY <1>3, <1>6, <2>1, MakerSees, MatchEndsShows, MatchStops
<1>7. CASE UNCHANGED world /\ MakerStops(t, c, [matching |-> FALSE] @@ [enabled |-> FALSE])
  BY <1>3, <1>7, StillKeeps, MakerSees, MatchSleptShows, MatchStops
<1> QED
  BY <1>1, <1>4, <1>5, <1>6, <1>7
-----------------------------------------------------------------------------
(***************************************************************************)
(* The payment.                                                            *)
(***************************************************************************)

LEMMA AutoShows ==
  ASSUME NEW m \in MakerState, m.mounted
  PROVE  LET n == [payMethod |-> "auto", s6 |-> "funding", s6Error |-> FALSE] @@ m
         IN  PayMoves(m, n, "funding", "auto") /\ ~n.s6Error
<1>1. PICK n : n = [payMethod |-> "auto", s6 |-> "funding", s6Error |-> FALSE] @@ m
  OBVIOUS
<1>2. n \in MakerState
  BY <1>1, ZenonT(30) DEF MakerState, @@
<1>3. BondSame(m, n) /\ QuoteSame(m, n) /\ MatchSame(m, n) /\ SettleSame(m, n)
  BY <1>1 DEF MakerState, BondSame, QuoteSame, MatchSame, SettleSame, @@
<1>4. n.mounted /\ n.s6 = "funding" /\ n.payMethod = "auto" /\ ~n.s6Error
  BY <1>1 DEF MakerState, @@
<1> QED
  BY <1>1, <1>2, <1>3, <1>4 DEF PayMoves, Stays

LEMMA ManualShows ==
  ASSUME NEW m \in MakerState, m.mounted
  PROVE  LET n == [payMethod |-> "manual", s6 |-> "polling", s6Error |-> FALSE] @@ m
         IN  PayMoves(m, n, "polling", "manual") /\ ~n.s6Error
<1>1. PICK n : n = [payMethod |-> "manual", s6 |-> "polling", s6Error |-> FALSE] @@ m
  OBVIOUS
<1>2. n \in MakerState
  BY <1>1, ZenonT(30) DEF MakerState, @@
<1>3. BondSame(m, n) /\ QuoteSame(m, n) /\ MatchSame(m, n) /\ SettleSame(m, n)
  BY <1>1 DEF MakerState, BondSame, QuoteSame, MatchSame, SettleSame, @@
<1>4. n.mounted /\ n.s6 = "polling" /\ n.payMethod = "manual" /\ ~n.s6Error
  BY <1>1 DEF MakerState, @@
<1> QED
  BY <1>1, <1>2, <1>3, <1>4 DEF PayMoves, Stays

LEMMA FundedShows ==
  ASSUME NEW m \in MakerState, m.mounted
  PROVE  LET n == [s6 |-> "paying"] @@ m
         IN  PayMoves(m, n, "paying", m.payMethod) /\ n.s6Error = m.s6Error
<1>1. PICK n : n = [s6 |-> "paying"] @@ m
  OBVIOUS
<1>2. n \in MakerState
  BY <1>1, ZenonT(30) DEF MakerState, @@
<1>3. BondSame(m, n) /\ QuoteSame(m, n) /\ MatchSame(m, n) /\ SettleSame(m, n)
  BY <1>1 DEF MakerState, BondSame, QuoteSame, MatchSame, SettleSame, @@
<1>4. n.mounted /\ n.s6 = "paying" /\ n.payMethod = m.payMethod /\ n.s6Error = m.s6Error
  BY <1>1 DEF MakerState, @@
<1> QED
  BY <1>1, <1>2, <1>3, <1>4 DEF PayMoves, Stays

LEMMA PayFailedShows ==
  ASSUME NEW m \in MakerState, m.mounted
  PROVE  LET n == s6Failed @@ m IN PayMoves(m, n, "idle", m.payMethod) /\ n.s6Error
<1>1. PICK n : n = s6Failed @@ m
  OBVIOUS
<1>2. n \in MakerState
  BY <1>1, ZenonT(30) DEF s6Failed, MakerState, @@
<1>3. BondSame(m, n) /\ QuoteSame(m, n) /\ MatchSame(m, n) /\ SettleSame(m, n)
  BY <1>1 DEF s6Failed, MakerState, BondSame, QuoteSame, MatchSame, SettleSame, @@
<1>4. n.mounted /\ n.s6 = "idle" /\ n.payMethod = m.payMethod /\ n.s6Error
  BY <1>1 DEF s6Failed, MakerState, @@
<1> QED
  BY <1>1, <1>2, <1>3, <1>4 DEF PayMoves, Stays

LEMMA XrpSleptShows ==
  ASSUME NEW m \in MakerState, m.mounted
  PROVE  LET n == (sleptThrough @@ [enabled |-> FALSE]) @@ m
         IN  PayMoves(m, n, "idle", m.payMethod) /\ n.slept
<1>1. PICK n : n = (sleptThrough @@ [enabled |-> FALSE]) @@ m
  OBVIOUS
<1>2. n \in MakerState
  BY <1>1, ZenonT(30) DEF sleptThrough, MakerState, @@
<1>3. BondSame(m, n) /\ QuoteSame(m, n) /\ MatchSame(m, n) /\ SettleSame(m, n)
  BY <1>1 DEF sleptThrough, MakerState, BondSame, QuoteSame, MatchSame, SettleSame, @@
<1>4. n.mounted /\ n.s6 = "idle" /\ n.payMethod = m.payMethod /\ n.slept
  BY <1>1 DEF sleptThrough, MakerState, @@
<1> QED
  BY <1>1, <1>2, <1>3, <1>4 DEF PayMoves, Stays

LEMMA XrpPaidShows ==
  ASSUME NEW m \in MakerState, m.mounted
  PROVE  LET n == [s6 |-> "done"] @@ m
         IN  PayMoves(m, n, "done", m.payMethod) /\ n.s6Error = m.s6Error
<1>1. PICK n : n = [s6 |-> "done"] @@ m
  OBVIOUS
<1>2. n \in MakerState
  BY <1>1, ZenonT(30) DEF MakerState, @@
<1>3. BondSame(m, n) /\ QuoteSame(m, n) /\ MatchSame(m, n) /\ SettleSame(m, n)
  BY <1>1 DEF MakerState, BondSame, QuoteSame, MatchSame, SettleSame, @@
<1>4. n.mounted /\ n.s6 = "done" /\ n.payMethod = m.payMethod /\ n.s6Error = m.s6Error
  BY <1>1 DEF MakerState, @@
<1> QED
  BY <1>1, <1>2, <1>3, <1>4 DEF PayMoves, Stays

LEMMA ExpiredShows ==
  ASSUME NEW m \in MakerState, m.mounted
  PROVE  LET n == [s6 |-> "idle"] @@ m
         IN  PayMoves(m, n, "idle", m.payMethod) /\ n.s6Error = m.s6Error
<1>1. PICK n : n = [s6 |-> "idle"] @@ m
  OBVIOUS
<1>2. n \in MakerState
  BY <1>1, ZenonT(30) DEF MakerState, @@
<1>3. BondSame(m, n) /\ QuoteSame(m, n) /\ MatchSame(m, n) /\ SettleSame(m, n)
  BY <1>1 DEF MakerState, BondSame, QuoteSame, MatchSame, SettleSame, @@
<1>4. n.mounted /\ n.s6 = "idle" /\ n.payMethod = m.payMethod /\ n.s6Error = m.s6Error
  BY <1>1 DEF MakerState, @@
<1> QED
  BY <1>1, <1>2, <1>3, <1>4 DEF PayMoves, Stays

\* One payment is under way at most, and its call tells the stage.
LEMMA PayAt ==
  ASSUME NEW m, NEW C, PayInv(m, C), NEW c \in C, c.at \in PayCalls
  PROVE  /\ Kind(C, PayCalls) = {c} /\ c.deal = m.matchId /\ m.matchId \in Deals
         /\ m.payMethod # "none" /\ ~m.s6Error
         /\ c.at = "xrpl-account" => m.s6 = "funding"
         /\ c.at = "maker-pay" => m.s6 = "paying"
         /\ c.at = "payment-status" => m.s6 = "polling"
         /\ m.s6 \in {"funding", "paying", "polling"}
<1>1. c \in PayAwaits(m)
  BY DEF PayInv, Kind
<1>2. PayAwaits(m) = {c}
  BY <1>1 DEF PayAwaits
<1> QED
  BY <1>1, <1>2 DEF PayAwaits, PayInv, NewCall

LEMMA PayStops ==
  ASSUME IInv, NEW t \in Tabs, NEW c \in calls[t], c.at \in PayCalls, ~T(t).mounted,
         NEW changes, NEW s6 \in {"idle", "done"},
         WorldStep, MakerStops(t, c, changes), UNCHANGED <<taker, account, desk>>,
         M(t).mounted => LET n == changes @@ M(t)
                         IN  /\ PayMoves(M(t), n, s6, M(t).payMethod)
                             /\ \/ s6 = "done" /\ n.s6Error = M(t).s6Error
                                \/ s6 = "idle" /\ (n.s6Error \/ n.slept \/ deal'[c.deal].closed)
  PROVE  IInv'
<1> DEFINE n == changes @@ M(t)
           E == calls[t] \ {c}
<1>1. c.at \in MakerCalls
  BY DEF MakerCalls
<1>2. ASSUME M(t).mounted PROVE MakerShows(n, E, deal')
  <2>1. MakerInv(M(t), calls[t]) /\ MakerTrue(M(t), deal')
    BY <1>2, MakerSees, StepTrue
  <2>2. \A e \in (calls[t] \ E) \cup (E \ calls[t]) : e.at \in PayCalls
    OBVIOUS
  <2>3. /\ Kind(calls[t], PayCalls) = {c} /\ c.deal = M(t).matchId /\ M(t).matchId \in Deals
        /\ M(t).payMethod # "none" /\ ~M(t).s6Error /\ M(t).s6 # "done"
    BY <2>1, PayAt DEF MakerInv
  <2>4. Kind(E, PayCalls) = {}
    BY <2>3 DEF Kind
  <2>5. n.matchId = M(t).matchId /\ n.s6 = s6 /\ n.payMethod = M(t).payMethod
    BY <1>2 DEF PayMoves, MatchSame
  <2>6. PayInv(n, E)
    BY <1>2, <2>3, <2>4, <2>5 DEF PayInv, PayAwaits
  <2> HIDE DEF n, E
  <2>7. n.s6 = "idle" /\ n.payMethod # "none" /\ ~n.s6Error /\ ~n.slept => deal'[n.matchId].closed
    BY <1>2, <2>3, <2>5 DEF n
  <2> QED
    BY <1>2, <2>1, <2>2, <2>3, <2>6, <2>7, PayPart DEF n
<1> QED
  BY <1>1, <1>2, MakerStopsKeeps

\* Both buttons start from a screen that has not paid and awaits no payment.
LEMMA PayPress ==
  ASSUME IInv, NEW t \in Tabs, NEW method \in {"auto", "manual"}, payOffered(t, method),
         NEW at \in PayCalls, NEW s6 \in {"funding", "polling"}, NEW changes,
         at = IF s6 = "funding" THEN "xrpl-account" ELSE "payment-status",
         MakerPresses(t, at, M(t).matchId, None, changes), UNCHANGED <<taker, account, desk>>,
         LET n == changes @@ M(t) IN PayMoves(M(t), n, s6, method) /\ ~n.s6Error
  PROVE  IInv'
<1> DEFINE n == changes @@ M(t)
           k == NewCall(at, M(t).matchId, None)
           E == calls[t] \cup {k}
<1>1. /\ M(t).mounted /\ makerStep(t) = 4 /\ (M(t).payMethod = "none" \/ M(t).s6Error)
  BY DEF payOffered, MakerShown, MakerThere
<1>2. /\ M(t) \in MakerState /\ MakerInv(M(t), calls[t]) /\ MakerTrue(M(t), deal')
  BY <1>1, MakerSees, StepTrue, StillKeeps DEF MakerPresses
<1>3. M(t).matchId \in Deals /\ M(t).s6 # "done"
  BY <1>1, <1>2 DEF makerStep, MakerState
<1>4. M(t).s6 = "idle" /\ Kind(calls[t], PayCalls) = {}
  BY <1>1, <1>2 DEF MakerInv, PayInv, PayAwaits
<1>5. at \in MakerCalls /\ at \notin QuoteCalls /\ k.at = at
  BY DEF MakerCalls, PayCalls, QuoteCalls, NewCall
<1>6. n.matchId = M(t).matchId /\ n.s6 = s6 /\ n.payMethod = method
  BY DEF PayMoves, MatchSame
<1>7. PayAwaits(n) = {k}
  BY <1>6 DEF PayAwaits
<1> HIDE DEF k
<1>8. Kind(E, PayCalls) = {k}
  BY <1>4, <1>5 DEF Kind
<1>9. PayInv(n, E)
  BY <1>3, <1>6, <1>7, <1>8 DEF PayInv
<1>10. \A e \in (calls[t] \ E) \cup (E \ calls[t]) : e.at \in PayCalls
  BY <1>5
<1>11. MakerShows(n, E, deal')
  <2> HIDE DEF n, E
  <2> QED
    BY <1>2, <1>3, <1>6, <1>9, <1>10, PayPart DEF n
<1> QED
  BY <1>1, <1>3, <1>5, <1>11, MakerPressKeeps DEF k

LEMMA PressAutoPay ==
  ASSUME IInv, NEW t \in Tabs, pressAutoPay(t), UNCHANGED <<taker, account, desk>>
  PROVE  IInv'
<1> DEFINE changes == [payMethod |-> "auto", s6 |-> "funding", s6Error |-> FALSE]
<1>1. /\ payOffered(t, "auto") /\ MakerPresses(t, "xrpl-account", M(t).matchId, None, changes)
      /\ M(t).mounted
  BY DEF pressAutoPay, payOffered, MakerShown, MakerThere
<1>2. LET n == changes @@ M(t) IN PayMoves(M(t), n, "funding", "auto") /\ ~n.s6Error
  BY <1>1, MakerSees, AutoShows
<1>3. "xrpl-account" \in PayCalls
  BY DEF PayCalls
<1> HIDE DEF changes
<1> QED
  BY <1>1, <1>2, <1>3, PayPress

LEMMA PressManualPay ==
  ASSUME IInv, NEW t \in Tabs, pressManualPay(t), UNCHANGED <<taker, account, desk>>
  PROVE  IInv'
<1> DEFINE changes == [payMethod |-> "manual", s6 |-> "polling", s6Error |-> FALSE]
<1>1. /\ payOffered(t, "manual") /\ MakerPresses(t, "payment-status", M(t).matchId, None, changes)
      /\ M(t).mounted
  BY DEF pressManualPay, payOffered, MakerShown, MakerThere
<1>2. LET n == changes @@ M(t) IN PayMoves(M(t), n, "polling", "manual") /\ ~n.s6Error
  BY <1>1, MakerSees, ManualShows
<1>3. "payment-status" \in PayCalls
  BY DEF PayCalls
<1> HIDE DEF changes
<1> QED
  BY <1>1, <1>2, <1>3, PayPress

LEMMA PayFails ==
  ASSUME IInv, NEW t \in Tabs, NEW c \in calls[t], c.at \in PayCalls, ~T(t).mounted,
         WorldStep, MakerStops(t, c, s6Failed), UNCHANGED <<taker, account, desk>>
  PROVE  IInv'
<1>1. M(t).mounted => LET n == s6Failed @@ M(t)
                      IN  PayMoves(M(t), n, "idle", M(t).payMethod) /\ n.s6Error
  BY MakerSees, PayFailedShows
<1> QED
  BY <1>1, PayStops

LEMMA PaySleeps ==
  ASSUME IInv, NEW t \in Tabs, NEW c \in calls[t], c.at \in PayCalls, ~T(t).mounted,
         MakerSleeps(t, c, sleptThrough), UNCHANGED <<taker, account, desk>>
  PROVE  IInv'
<1> DEFINE changes == sleptThrough @@ [enabled |-> FALSE]
<1>1. MakerStops(t, c, changes) /\ WorldStep
  BY IInvWorld, StillKeeps DEF MakerSleeps
<1>2. M(t).mounted => LET n == changes @@ M(t)
                      IN  PayMoves(M(t), n, "idle", M(t).payMethod) /\ n.slept
  BY MakerSees, XrpSleptShows
<1> HIDE DEF changes
<1> QED
  BY <1>1, <1>2, PayStops

LEMMA PayPaid ==
  ASSUME IInv, NEW t \in Tabs, NEW c \in calls[t], c.at \in PayCalls, ~T(t).mounted,
         WorldStep, MakerStops(t, c, [s6 |-> "done"]), UNCHANGED <<taker, account, desk>>
  PROVE  IInv'
<1>1. M(t).mounted => LET n == [s6 |-> "done"] @@ M(t)
                      IN  PayMoves(M(t), n, "done", M(t).payMethod) /\ n.s6Error = M(t).s6Error
  BY MakerSees, XrpPaidShows
<1> QED
  BY <1>1, PayStops

LEMMA AccountFunded ==
  ASSUME IInv, NEW t \in Tabs, accountFunded(t), UNCHANGED <<taker, account, desk>>
  PROVE  IInv'
<1>1. PICK c \in Awaited(t, "xrpl-account") :
        \/ UNCHANGED world /\ MakerGoesOn(t, c, [s6 |-> "paying"], "maker-pay", c.deal, None)
        \/ UNCHANGED world /\ MakerStops(t, c, s6Failed)
        \/ MakerSleeps(t, c, sleptThrough)
  BY DEF accountFunded, generateAndFundXrplAccount, Answers
<1>2. /\ {"xrpl-account", "maker-pay"} \subseteq PayCalls
      /\ {"xrpl-account", "maker-pay"} \subseteq MakerCalls /\ "xrpl-account" \notin Dealless
      /\ "maker-pay" \notin QuoteCalls
  BY DEF PayCalls, MakerCalls, Dealless, QuoteCalls
<1>3. /\ c \in calls[t] /\ c.at = "xrpl-account" /\ c.at \in PayCalls /\ c.at \in MakerCalls
      /\ ~T(t).mounted /\ WorldTypeOK /\ c.deal \in Deals
  BY <1>1, <1>2, MakerFinds DEF CallOK
<1>4. CASE UNCHANGED world /\ MakerGoesOn(t, c, [s6 |-> "paying"], "maker-pay", c.deal, None)
  <2> DEFINE n == [s6 |-> "paying"] @@ M(t)
             k == NewCall("maker-pay", c.deal, None)
             E == (calls[t] \ {c}) \cup {k}
  <2>1. WorldStep
    BY <1>3, <1>4, StillKeeps
  <2>2. ASSUME M(t).mounted PROVE MakerShows(n, E, deal')
    <3>1. /\ M(t) \in MakerState /\ MakerInv(M(t), calls[t]) /\ MakerTrue(M(t), deal')
      BY <2>1, <2>2, MakerSees, StepTrue
    <3>2. /\ Kind(calls[t], PayCalls) = {c} /\ c.deal = M(t).matchId /\ M(t).matchId \in Deals
          /\ M(t).payMethod # "none" /\ ~M(t).s6Error /\ M(t).s6 = "funding"
      BY <1>3, <3>1, PayAt DEF MakerInv
    <3>3. PayMoves(M(t), n, "paying", M(t).payMethod) /\ n.s6Error = M(t).s6Error
      BY <2>2, <3>1, FundedShows
    <3>4. n.matchId = M(t).matchId /\ n.s6 = "paying" /\ n.payMethod = M(t).payMethod
      BY <3>3 DEF PayMoves, MatchSame
    <3>5. PayAwaits(n) = {k} /\ k.at = "maker-pay"
      BY <3>2, <3>4 DEF PayAwaits, NewCall
    <3> HIDE DEF k
    <3>6. Kind(E, PayCalls) = {k}
      BY <1>2, <3>2, <3>5 DEF Kind
    <3>7. PayInv(n, E)
      BY <3>2, <3>3, <3>4, <3>5, <3>6 DEF PayInv
    <3>8. \A e \in (calls[t] \ E) \cup (E \ calls[t]) : e.at \in PayCalls
      BY <1>2, <1>3, <3>5
    <3> HIDE DEF n, E
    <3> QED
      BY <3>1, <3>2, <3>3, <3>4, <3>7, <3>8, PayPart
  <2> QED
    BY <1>2, <1>3, <1>4, <2>1, <2>2, MakerGoesOnKeeps
<1>5. CASE UNCHANGED world /\ MakerStops(t, c, s6Failed)
  BY <1>3, <1>5, StillKeeps, PayFails
<1>6. CASE MakerSleeps(t, c, sleptThrough)
  BY <1>3, <1>6, PaySleeps
<1> QED
  BY <1>1, <1>4, <1>5, <1>6

LEMMA RunAutoPay ==
  ASSUME IInv, NEW t \in Tabs, runAutoPay(t), UNCHANGED <<taker, account, desk>>
  PROVE  IInv'
<1>1. PICK c \in Awaited(t, "maker-pay") :
        \/ makerPay(c.deal) /\ MakerStops(t, c, [s6 |-> "done"])
        \/ Fails(makerPay(c.deal)) /\ MakerStops(t, c, s6Failed)
        \/ MakerSleeps(t, c, sleptThrough)
  BY DEF runAutoPay
<1>2. "maker-pay" \in PayCalls /\ "maker-pay" \in MakerCalls /\ "maker-pay" \notin Dealless
  BY DEF PayCalls, MakerCalls, Dealless
<1>3. /\ c \in calls[t] /\ c.at \in PayCalls /\ ~T(t).mounted /\ WorldTypeOK /\ c.deal \in Deals
  BY <1>1, <1>2, MakerFinds DEF CallOK
<1>4. makerPay(c.deal) => WorldStep
  BY <1>3, PaysKeeps DEF makerPay
<1> QED
  BY <1>1, <1>3, <1>4, FailsKeeps, PayPaid, PayFails, PaySleeps

LEMMA RunManualPay ==
  ASSUME IInv, NEW t \in Tabs, runManualPay(t), UNCHANGED <<taker, account, desk>>
  PROVE  IInv'
<1>1. PICK c \in Awaited(t, "payment-status") :
        /\ UNCHANGED world
        /\ \/ MakerStops(t, c, [s6 |-> "done"])
           \/ deal[c.deal].closed /\ MakerStops(t, c, [s6 |-> "idle"])
           \/ MakerStops(t, c, s6Failed)
  BY DEF runManualPay, pollPaymentStatus, paymentStatus, Answers, afterPoll
<1>2. /\ "payment-status" \in PayCalls /\ "payment-status" \in MakerCalls
      /\ "payment-status" \notin Dealless
  BY DEF PayCalls, MakerCalls, Dealless
<1>3. /\ c \in calls[t] /\ c.at \in PayCalls /\ ~T(t).mounted /\ WorldStep /\ c.deal \in Deals
  BY <1>1, <1>2, MakerFinds, StillKeeps DEF CallOK
<1>4. CASE deal[c.deal].closed /\ MakerStops(t, c, [s6 |-> "idle"])
  <2>1. M(t).mounted => PayMoves(M(t), [s6 |-> "idle"] @@ M(t), "idle", M(t).payMethod)
    BY MakerSees, ExpiredShows
  <2>2. deal'[c.deal].closed
    BY <1>1, <1>4 DEF world
  <2> QED
    BY <1>3, <1>4, <2>1, <2>2, PayStops
<1> QED
  BY <1>1, <1>3, <1>4, PayPaid, PayFails

\* A payment by hand changes the deal, and nothing on the screen.
LEMMA PaysByHand ==
  ASSUME IInv, NEW t \in Tabs, paysByHand(t), UNCHANGED <<taker, account, desk>>
  PROVE  IInv'
<1>1. M(t).mounted /\ M(t).matchId # None /\ Pays(M(t).matchId) /\ UNCHANGED <<maker, calls>>
  BY DEF paysByHand
<1>2. M(t).matchId \in Deals
  BY <1>1, MakerSees DEF MakerState
<1>3. WorldStep
  BY <1>1, <1>2, IInvWorld, PaysKeeps
<1>4. ScreensTypeOK'
  BY <1>1, <1>3 DEF IInv, ScreensTypeOK, ApiTypeOK, WorldStep, WorldTypeOK
<1>5. ASSUME NEW u \in Tabs PROVE TabInv(u)'
  BY <1>1, <1>3, TabUntouched DEF IInv, WorldStep
<1> QED
  BY <1>4, <1>5 DEF IInv
-----------------------------------------------------------------------------
(***************************************************************************)
(* The settlement of a maker.                                              *)
(***************************************************************************)

LEMMA SettlingShows ==
  ASSUME NEW m \in MakerState, m.mounted
  PROVE  LET n == [s7 |-> "settling", s7Error |-> FALSE] @@ m
         IN  SettleMoves(m, n, "settling", m.attestRound, m.proofData) /\ ~n.s7Error
<1>1. PICK n : n = [s7 |-> "settling", s7Error |-> FALSE] @@ m
  OBVIOUS
<1>2. n \in MakerState
  BY <1>1, ZenonT(30) DEF MakerState, @@
<1>3. BondSame(m, n) /\ QuoteSame(m, n) /\ MatchSame(m, n) /\ PaySame(m, n)
  BY <1>1 DEF MakerState, BondSame, QuoteSame, MatchSame, PaySame, @@
<1>4. n.mounted /\ n.s7 = "settling" /\ n.attestRound = m.attestRound /\ n.proofData = m.proofData
      /\ ~n.s7Error
  BY <1>1 DEF MakerState, @@
<1> QED
  BY <1>1, <1>2, <1>3, <1>4 DEF SettleMoves, Stays

LEMMA SettleRetryShows ==
  ASSUME NEW m \in MakerState, m.mounted
  PROVE  LET n == [s7Error |-> FALSE] @@ m
         IN  SettleMoves(m, n, m.s7, m.attestRound, m.proofData) /\ ~n.s7Error
<1>1. PICK n : n = [s7Error |-> FALSE] @@ m
  OBVIOUS
<1>2. n \in MakerState
  BY <1>1, ZenonT(30) DEF MakerState, @@
<1>3. BondSame(m, n) /\ QuoteSame(m, n) /\ MatchSame(m, n) /\ PaySame(m, n)
  BY <1>1 DEF MakerState, BondSame, QuoteSame, MatchSame, PaySame, @@
<1>4. n.mounted /\ n.s7 = m.s7 /\ n.attestRound = m.attestRound /\ n.proofData = m.proofData
      /\ ~n.s7Error
  BY <1>1 DEF MakerState, @@
<1> QED
  BY <1>1, <1>2, <1>3, <1>4 DEF SettleMoves, Stays

LEMMA SettledShows ==
  ASSUME NEW m \in MakerState, m.mounted, NEW d \in Deals
  PROVE  LET n == [s7 |-> "proving", s7Error |-> FALSE, attestRound |-> d] @@ m
         IN  SettleMoves(m, n, "proving", d, m.proofData) /\ ~n.s7Error
<1>1. PICK n : n = [s7 |-> "proving", s7Error |-> FALSE, attestRound |-> d] @@ m
  OBVIOUS
<1>2. n \in MakerState
  BY <1>1, ZenonT(30) DEF MakerState, @@
<1>3. BondSame(m, n) /\ QuoteSame(m, n) /\ MatchSame(m, n) /\ PaySame(m, n)
  BY <1>1 DEF MakerState, BondSame, QuoteSame, MatchSame, PaySame, @@
<1>4. n.mounted /\ n.s7 = "proving" /\ n.attestRound = d /\ n.proofData = m.proofData /\ ~n.s7Error
  BY <1>1 DEF MakerState, @@
<1> QED
  BY <1>1, <1>2, <1>3, <1>4 DEF SettleMoves, Stays

LEMMA SettleFailedShows ==
  ASSUME NEW m \in MakerState, m.mounted
  PROVE  LET n == s7Failed @@ m IN SettleMoves(m, n, m.s7, m.attestRound, m.proofData) /\ n.s7Error
<1>1. PICK n : n = s7Failed @@ m
  OBVIOUS
<1>2. n \in MakerState
  BY <1>1, ZenonT(30) DEF s7Failed, MakerState, @@
<1>3. BondSame(m, n) /\ QuoteSame(m, n) /\ MatchSame(m, n) /\ PaySame(m, n)
  BY <1>1 DEF s7Failed, MakerState, BondSame, QuoteSame, MatchSame, PaySame, @@
<1>4. n.mounted /\ n.s7 = m.s7 /\ n.attestRound = m.attestRound /\ n.proofData = m.proofData
      /\ n.s7Error
  BY <1>1 DEF s7Failed, MakerState, @@
<1> QED
  BY <1>1, <1>2, <1>3, <1>4 DEF SettleMoves, Stays

LEMMA SettleSleptShows ==
  ASSUME NEW m \in MakerState, m.mounted
  PROVE  SettleMoves(m, ([s7 |-> "idle"] @@ [enabled |-> FALSE]) @@ m, "idle", m.attestRound,
                     m.proofData)
<1>1. PICK n : n = ([s7 |-> "idle"] @@ [enabled |-> FALSE]) @@ m
  OBVIOUS
<1>2. n \in MakerState
  BY <1>1, ZenonT(30) DEF MakerState, @@
<1>3. BondSame(m, n) /\ QuoteSame(m, n) /\ MatchSame(m, n) /\ PaySame(m, n)
  BY <1>1 DEF MakerState, BondSame, QuoteSame, MatchSame, PaySame, @@
<1>4. n.mounted /\ n.s7 = "idle" /\ n.attestRound = m.attestRound /\ n.proofData = m.proofData
  BY <1>1 DEF MakerState, @@
<1> QED
  BY <1>1, <1>2, <1>3, <1>4 DEF SettleMoves, Stays

LEMMA ProvenShows ==
  ASSUME NEW m \in MakerState, m.mounted, NEW d \in Deals
  PROVE  LET n == [s7 |-> "releasing", s7Error |-> FALSE, proofData |-> d] @@ m
         IN  SettleMoves(m, n, "releasing", m.attestRound, d) /\ ~n.s7Error
<1>1. PICK n : n = [s7 |-> "releasing", s7Error |-> FALSE, proofData |-> d] @@ m
  OBVIOUS
<1>2. n \in MakerState
  BY <1>1, ZenonT(30) DEF MakerState, @@
<1>3. BondSame(m, n) /\ QuoteSame(m, n) /\ MatchSame(m, n) /\ PaySame(m, n)
  BY <1>1 DEF MakerState, BondSame, QuoteSame, MatchSame, PaySame, @@
<1>4. n.mounted /\ n.s7 = "releasing" /\ n.attestRound = m.attestRound /\ n.proofData = d
      /\ ~n.s7Error
  BY <1>1 DEF MakerState, @@
<1> QED
  BY <1>1, <1>2, <1>3, <1>4 DEF SettleMoves, Stays

LEMMA MakerReleasedShows ==
  ASSUME NEW m \in MakerState, m.mounted
  PROVE  SettleMoves(m, [s7 |-> "balance"] @@ m, "balance", m.attestRound, m.proofData)
<1>1. PICK n : n = [s7 |-> "balance"] @@ m
  OBVIOUS
<1>2. n \in MakerState
  BY <1>1, ZenonT(30) DEF MakerState, @@
<1>3. BondSame(m, n) /\ QuoteSame(m, n) /\ MatchSame(m, n) /\ PaySame(m, n)
  BY <1>1 DEF MakerState, BondSame, QuoteSame, MatchSame, PaySame, @@
<1>4. n.mounted /\ n.s7 = "balance" /\ n.attestRound = m.attestRound /\ n.proofData = m.proofData
  BY <1>1 DEF MakerState, @@
<1> QED
  BY <1>1, <1>2, <1>3, <1>4 DEF SettleMoves, Stays

LEMMA MakerBalanceShows ==
  ASSUME NEW m \in MakerState, m.mounted
  PROVE  SettleMoves(m, [s7 |-> "done"] @@ m, "done", m.attestRound, m.proofData)
<1>1. PICK n : n = [s7 |-> "done"] @@ m
  OBVIOUS
<1>2. n \in MakerState
  BY <1>1, ZenonT(30) DEF MakerState, @@
<1>3. BondSame(m, n) /\ QuoteSame(m, n) /\ MatchSame(m, n) /\ PaySame(m, n)
  BY <1>1 DEF MakerState, BondSame, QuoteSame, MatchSame, PaySame, @@
<1>4. n.mounted /\ n.s7 = "done" /\ n.attestRound = m.attestRound /\ n.proofData = m.proofData
  BY <1>1 DEF MakerState, @@
<1> QED
  BY <1>1, <1>2, <1>3, <1>4 DEF SettleMoves, Stays

\* One call of the settlement is awaited at most, and it tells the stage.
LEMMA SettleAt ==
  ASSUME NEW m, NEW C, PayInv(m, C), SettleInv(m, C), NEW c \in C, c.at \in SettleCalls
  PROVE  /\ Kind(C, SettleCalls) = {c} /\ c.deal = m.matchId /\ m.matchId \in Deals
         /\ m.s6 = "done"
         /\ c.at = "settle" => m.s7 = "settling"
         /\ c.at = "maker-proof" => m.s7 = "proving" /\ c.with = m.matchId
         /\ c.at = "maker-release" => m.s7 = "releasing" /\ c.with = m.matchId
         /\ c.at = "maker-balance" => m.s7 = "balance"
<1>1. c \in SettleAwaits(m)
  BY DEF SettleInv, Kind
<1>2. SettleAwaits(m) = {c}
  BY <1>1 DEF SettleAwaits
<1>3. m.s6 = "done"
  BY <1>1 DEF SettleAwaits, SettleInv
<1> QED
  BY <1>1, <1>2, <1>3 DEF SettleAwaits, SettleInv, PayInv, NewCall

\* A call of the settlement is answered, and N is asked on.
LEMMA SettleShows ==
  ASSUME IInv, NEW t \in Tabs, M(t).mounted, NEW c \in calls[t], c.at \in SettleCalls,
         NEW n, NEW N, NEW s7, NEW round, NEW proof, WorldStep,
         SettleMoves(M(t), n, s7, round, proof), SettleAwaits(n) = N,
         \A k \in N : k.at \in SettleCalls,
         round = IF s7 \in {"idle", "settling"} THEN None ELSE M(t).matchId,
         proof = IF s7 \in {"releasing", "balance", "done"} THEN M(t).matchId ELSE None,
         s7 \in {"balance", "done"} => deal'[M(t).matchId].phase = "released"
  PROVE  MakerShows(n, (calls[t] \ {c}) \cup N, deal')
<1> DEFINE E == (calls[t] \ {c}) \cup N
<1>1. /\ M(t) \in MakerState /\ MakerInv(M(t), calls[t]) /\ MakerTrue(M(t), deal')
  BY MakerSees, StepTrue
<1>2. Kind(calls[t], SettleCalls) = {c} /\ M(t).s6 = "done"
  BY <1>1, SettleAt DEF MakerInv
<1>3. Kind(E, SettleCalls) = N
  BY <1>2 DEF Kind
<1>4. \A e \in (calls[t] \ E) \cup (E \ calls[t]) : e.at \in SettleCalls
  OBVIOUS
<1> HIDE DEF E
<1>5. n.matchId = M(t).matchId /\ n.s6 = "done" /\ n.s7 = s7 /\ n.attestRound = round
      /\ n.proofData = proof
  BY <1>2 DEF SettleMoves, MatchSame, PaySame
<1>6. SettleInv(n, E)
  BY <1>3, <1>5 DEF SettleInv
<1>7. MakerShows(n, E, deal')
  BY <1>1, <1>4, <1>6, SettlePart
<1> QED
  BY <1>7 DEF E

LEMMA SettlePress ==
  ASSUME IInv, NEW t \in Tabs, MakerShown(t, {5}), NEW changes,
         NEW at \in SettleCalls, NEW x \in Deals \cup {None},
         MakerPresses(t, at, M(t).matchId, x, changes), UNCHANGED <<taker, account, desk>>,
         SettleAwaits(M(t)) = {}, NEW s7,
         LET n == changes @@ M(t)
         IN  /\ SettleMoves(M(t), n, s7, M(t).attestRound, M(t).proofData)
             /\ M(t).s6 = "done" => SettleAwaits(n) = {NewCall(at, M(t).matchId, x)},
         s7 = M(t).s7 \/ (M(t).s7 = "idle" /\ s7 = "settling")
  PROVE  IInv'
<1> DEFINE n == changes @@ M(t)
           k == NewCall(at, M(t).matchId, x)
           E == calls[t] \cup {k}
<1>1. M(t).mounted /\ M(t).s6 = "done" /\ M(t).matchId # None
  BY DEF MakerShown, MakerThere, makerStep
<1>2. /\ M(t) \in MakerState /\ MakerInv(M(t), calls[t]) /\ MakerTrue(M(t), deal')
  BY <1>1, MakerSees, StepTrue, StillKeeps DEF MakerPresses
<1>3. M(t).matchId \in Deals
  BY <1>1, <1>2 DEF MakerState
<1>4. at \in MakerCalls /\ at \notin QuoteCalls /\ k.at = at
  BY DEF MakerCalls, SettleCalls, QuoteCalls, NewCall
<1>5. SettleAwaits(n) = {k}
  BY <1>1
<1>6. /\ n.matchId = M(t).matchId /\ n.s6 = "done" /\ n.s7 = s7
      /\ n.attestRound = M(t).attestRound /\ n.proofData = M(t).proofData
  BY <1>1 DEF SettleMoves, MatchSame, PaySame
<1> HIDE DEF k
<1>7. Kind(E, SettleCalls) = {k}
  BY <1>2, <1>4 DEF Kind, MakerInv, SettleInv
<1>8. SettleInv(n, E)
  BY <1>2, <1>5, <1>6, <1>7 DEF SettleInv, MakerInv
<1>9. \A e \in (calls[t] \ E) \cup (E \ calls[t]) : e.at \in SettleCalls
  BY <1>4
<1>10. s7 \in {"balance", "done"} => deal'[M(t).matchId].phase = "released"
  BY <1>2 DEF MakerTrue
<1>11. MakerShows(n, E, deal')
  <2> HIDE DEF n, E
  <2> QED
    BY <1>2, <1>8, <1>9, <1>10, SettlePart DEF n
<1> QED
  BY <1>1, <1>3, <1>4, <1>11, MakerPressKeeps DEF k

LEMMA PressSettle ==
  ASSUME IInv, NEW t \in Tabs, pressSettle(t), UNCHANGED <<taker, account, desk>>
  PROVE  IInv'
<1> DEFINE changes == [s7 |-> "settling", s7Error |-> FALSE]
           n == changes @@ M(t)
<1>1. /\ MakerShown(t, {5}) /\ (M(t).s7 = "idle" \/ (M(t).s7 = "settling" /\ M(t).s7Error))
      /\ MakerPresses(t, "settle", M(t).matchId, None, changes) /\ M(t).mounted
  BY DEF pressSettle, MakerShown, MakerThere
<1>2. SettleMoves(M(t), n, "settling", M(t).attestRound, M(t).proofData) /\ ~n.s7Error
  BY <1>1, MakerSees, SettlingShows
<1>3. "settle" \in SettleCalls /\ SettleAwaits(M(t)) = {}
  BY <1>1 DEF SettleCalls, SettleAwaits
<1>4. SettleAwaits(n) = {NewCall("settle", M(t).matchId, None)}
  BY <1>2 DEF SettleAwaits, SettleMoves, MatchSame
<1> HIDE DEF changes
<1> QED
  BY <1>1, <1>2, <1>3, <1>4, SettlePress

LEMMA RetryProof ==
  ASSUME IInv, NEW t \in Tabs, retryProof(t) \/ retryRelease(t), UNCHANGED <<taker, account, desk>>
  PROVE  IInv'
<1> DEFINE changes == [s7Error |-> FALSE]
           n == changes @@ M(t)
           at == IF M(t).s7 = "proving" THEN "maker-proof" ELSE "maker-release"
<1>1. /\ MakerShown(t, {5}) /\ M(t).s7 \in {"proving", "releasing"} /\ M(t).s7Error /\ M(t).mounted
      /\ MakerPresses(t, at, M(t).matchId,
                      IF M(t).s7 = "proving" THEN M(t).attestRound ELSE M(t).proofData, changes)
  BY DEF retryProof, retryRelease, MakerShown, MakerThere
<1>2. /\ M(t).s7 = "proving" => M(t).attestRound = M(t).matchId
      /\ M(t).s7 = "releasing" => M(t).proofData = M(t).matchId
      /\ M(t).matchId \in Deals \cup {None}
  BY <1>1, MakerSees DEF MakerInv, SettleInv, MakerState
<1>3. MakerPresses(t, at, M(t).matchId, M(t).matchId, changes)
  BY <1>1, <1>2
<1>4. SettleMoves(M(t), n, M(t).s7, M(t).attestRound, M(t).proofData) /\ ~n.s7Error
  BY <1>1, MakerSees, SettleRetryShows
<1>5. at \in SettleCalls /\ SettleAwaits(M(t)) = {}
  BY <1>1 DEF SettleCalls, SettleAwaits
<1>6. SettleAwaits(n) = {NewCall(at, M(t).matchId, M(t).matchId)}
  BY <1>1, <1>4 DEF SettleAwaits, SettleMoves, MatchSame
<1> HIDE DEF changes, at
<1> QED
  BY <1>1, <1>2, <1>3, <1>4, <1>5, <1>6, SettlePress

LEMMA SettleFails ==
  ASSUME IInv, NEW t \in Tabs, NEW c \in calls[t], ~T(t).mounted,
         c.at \in SettleCalls \ {"maker-balance"},
         WorldStep, MakerStops(t, c, s7Failed), UNCHANGED <<taker, account, desk>>
  PROVE  IInv'
<1> DEFINE n == s7Failed @@ M(t)
<1>1. ASSUME M(t).mounted PROVE MakerShows(n, (calls[t] \ {c}) \cup {}, deal')
  <2>1. /\ M(t) \in MakerState /\ MakerInv(M(t), calls[t])
    BY <1>1, MakerSees
  <2>2. SettleMoves(M(t), n, M(t).s7, M(t).attestRound, M(t).proofData) /\ n.s7Error
    BY <1>1, <2>1, SettleFailedShows
  <2>3. M(t).s7 \in {"settling", "proving", "releasing"}
    BY <2>1, SettleAt DEF MakerInv, SettleCalls
  <2>4. SettleAwaits(n) = {}
    BY <2>2, <2>3 DEF SettleAwaits, SettleMoves
  <2>5. /\ M(t).attestRound = IF M(t).s7 \in {"idle", "settling"} THEN None ELSE M(t).matchId
        /\ M(t).proofData = IF M(t).s7 \in {"releasing", "balance", "done"}
                            THEN M(t).matchId ELSE None
    BY <2>1 DEF MakerInv, SettleInv
  <2> HIDE DEF n
  <2> QED
    BY <1>1, <2>2, <2>3, <2>4, <2>5, SettleShows
<1>2. c.at \in MakerCalls /\ (calls[t] \ {c}) \cup {} = calls[t] \ {c}
  BY DEF MakerCalls
<1> QED
  BY <1>1, <1>2, MakerStopsKeeps

LEMMA RunSettle ==
  ASSUME IInv, NEW t \in Tabs, runSettle(t), UNCHANGED <<taker, account, desk>>
  PROVE  IInv'
<1> DEFINE goes(c) == [s7 |-> "proving", s7Error |-> FALSE, attestRound |-> c.deal]
           sleeps == [s7 |-> "idle"] @@ [enabled |-> FALSE]
<1>1. PICK c \in Awaited(t, "settle") :
        \/ /\ UNCHANGED world /\ M(t).mounted
           /\ MakerGoesOn(t, c, goes(c), "maker-proof", c.deal, c.deal)
        \/ UNCHANGED world /\ MakerStops(t, c, s7Failed)
        \/ UNCHANGED world /\ MakerStops(t, c, sleeps)
  BY DEF runSettle, settle, Answers, makerPollsProof, MakerSleeps
<1>2. /\ {"settle", "maker-proof"} \subseteq SettleCalls \ {"maker-balance"}
      /\ {"settle", "maker-proof"} \subseteq MakerCalls /\ "settle" \notin Dealless
      /\ "maker-proof" \notin QuoteCalls
  BY DEF SettleCalls, MakerCalls, Dealless, QuoteCalls
<1>3. /\ c \in calls[t] /\ c.at = "settle" /\ c.at \in SettleCalls /\ c.at \in MakerCalls
      /\ ~T(t).mounted /\ WorldStep /\ c.deal \in Deals
  BY <1>1, <1>2, MakerFinds, StillKeeps DEF CallOK
<1>4. ASSUME M(t).mounted
      PROVE  /\ M(t) \in MakerState /\ M(t).s7 = "settling" /\ c.deal = M(t).matchId
             /\ M(t).attestRound = None /\ M(t).proofData = None
  <2>1. M(t) \in MakerState /\ MakerInv(M(t), calls[t])
    BY <1>4, MakerSees
  <2>2. M(t).s7 = "settling" /\ c.deal = M(t).matchId
    BY <1>3, <2>1, SettleAt DEF MakerInv
  <2> QED
    BY <2>1, <2>2 DEF MakerInv, SettleInv
<1>5. CASE M(t).mounted /\ MakerGoesOn(t, c, goes(c), "maker-proof", c.deal, c.deal)
  <2> DEFINE n == goes(c) @@ M(t)
             k == NewCall("maker-proof", c.deal, c.deal)
  <2>1. SettleMoves(M(t), n, "proving", c.deal, M(t).proofData) /\ ~n.s7Error
    BY <1>3, <1>4, <1>5, SettledShows
  <2>2. SettleAwaits(n) = {k} /\ k.at = "maker-proof"
    BY <1>4, <1>5, <2>1 DEF SettleAwaits, SettleMoves, MatchSame, NewCall
  <2> HIDE DEF n, k
  <2>3. MakerShows(n, (calls[t] \ {c}) \cup {k}, deal')
    BY <1>2, <1>3, <1>4, <1>5, <2>1, <2>2, SettleShows
  <2> HIDE DEF goes
  <2> QED
    BY <1>2, <1>3, <1>5, <2>3, MakerGoesOnKeeps DEF n, k
<1>6. CASE MakerStops(t, c, s7Failed)
  BY <1>2, <1>3, <1>6, SettleFails
<1>7. CASE MakerStops(t, c, sleeps)
  <2> DEFINE n == sleeps @@ M(t)
  <2>1. ASSUME M(t).mounted PROVE MakerShows(n, (calls[t] \ {c}) \cup {}, deal')
    <3>1. SettleMoves(M(t), n, "idle", M(t).attestRound, M(t).proofData)
      BY <1>4, <2>1, SettleSleptShows
    <3>2. SettleAwaits(n) = {}
      BY <3>1 DEF SettleAwaits, SettleMoves
    <3> HIDE DEF n
    <3> QED
      BY <1>3, <1>4, <2>1, <3>1, <3>2, SettleShows
  <2>2. (calls[t] \ {c}) \cup {} = calls[t] \ {c}
    OBVIOUS
  <2> HIDE DEF sleeps
  <2> QED
    BY <1>3, <1>7, <2>1, <2>2, MakerStopsKeeps
<1> QED
  BY <1>1, <1>5, <1>6, <1>7

LEMMA RunMakerProve ==
  ASSUME IInv, NEW t \in Tabs, runMakerProve(t), UNCHANGED <<taker, account, desk>>
  PROVE  IInv'
<1> DEFINE goes(c) == [s7 |-> "releasing", s7Error |-> FALSE, proofData |-> c.with]
<1>1. PICK c \in Awaited(t, "maker-proof") :
        /\ UNCHANGED world
        /\ \/ MakerGoesOn(t, c, goes(c), "maker-release", c.deal, c.with)
           \/ MakerStops(t, c, s7Failed)
  BY DEF runMakerProve, proofRoute, checkProofOnce, Answers
<1>2. /\ {"maker-proof", "maker-release"} \subseteq SettleCalls \ {"maker-balance"}
      /\ {"maker-proof", "maker-release"} \subseteq MakerCalls /\ "maker-proof" \notin Dealless
      /\ "maker-release" \notin QuoteCalls
  BY DEF SettleCalls, MakerCalls, Dealless, QuoteCalls
<1>3. /\ c \in calls[t] /\ c.at = "maker-proof" /\ c.at \in SettleCalls /\ c.at \in MakerCalls
      /\ ~T(t).mounted /\ WorldStep /\ c.deal \in Deals
      /\ c.with \in Deals \cup {None} \cup 1..MAX_NONCE
  BY <1>1, <1>2, MakerFinds, StillKeeps DEF CallOK, Call
<1>4. ASSUME M(t).mounted
      PROVE  /\ M(t) \in MakerState /\ M(t).s7 = "proving" /\ c.deal = M(t).matchId
             /\ c.with = M(t).matchId
             /\ M(t).attestRound = M(t).matchId /\ M(t).matchId \in Deals
  <2>1. M(t) \in MakerState /\ MakerInv(M(t), calls[t])
    BY <1>4, MakerSees
  <2>2. M(t).s7 = "proving" /\ c.deal = M(t).matchId /\ c.with = M(t).matchId
        /\ M(t).matchId \in Deals
    BY <1>3, <2>1, SettleAt DEF MakerInv
  <2> QED
    BY <2>1, <2>2 DEF MakerInv, SettleInv
<1>5. CASE MakerGoesOn(t, c, goes(c), "maker-release", c.deal, c.with)
  <2> DEFINE n == goes(c) @@ M(t)
             k == NewCall("maker-release", c.deal, c.with)
  <2>1. k.at = "maker-release"
    BY DEF NewCall
  <2>2. ASSUME M(t).mounted PROVE MakerShows(n, (calls[t] \ {c}) \cup {k}, deal')
    <3>1. SettleMoves(M(t), n, "releasing", M(t).attestRound, c.with) /\ ~n.s7Error
      BY <1>3, <1>4, <2>2, ProvenShows
    <3>2. SettleAwaits(n) = {k}
      BY <1>4, <2>2, <3>1 DEF SettleAwaits, SettleMoves, MatchSame
    <3> HIDE DEF n, k
    <3> QED
      BY <1>2, <1>3, <1>4, <2>1, <2>2, <3>1, <3>2, SettleShows
  <2> HIDE DEF goes
  <2> QED
    BY <1>2, <1>3, <1>5, <2>2, MakerGoesOnKeeps DEF n, k
<1>6. CASE MakerStops(t, c, s7Failed)
  BY <1>2, <1>3, <1>6, SettleFails
<1> QED
  BY <1>1, <1>5, <1>6

LEMMA RunMakerRelease ==
  ASSUME IInv, NEW t \in Tabs, runMakerRelease(t), UNCHANGED <<taker, account, desk>>
  PROVE  IInv'
<1> DEFINE goes == [s7 |-> "balance"]
<1>1. PICK c \in Awaited(t, "maker-release") :
        \/ release(c.deal, c.with) /\ MakerGoesOn(t, c, goes, "maker-balance", c.deal, None)
        \/ Fails(release(c.deal, c.with)) /\ MakerStops(t, c, s7Failed)
  BY DEF runMakerRelease
<1>2. /\ "maker-release" \in SettleCalls \ {"maker-balance"} /\ "maker-balance" \in SettleCalls
      /\ {"maker-release", "maker-balance"} \subseteq MakerCalls /\ "maker-release" \notin Dealless
      /\ "maker-balance" \notin QuoteCalls
  BY DEF SettleCalls, MakerCalls, Dealless, QuoteCalls
<1>3. /\ c \in calls[t] /\ c.at = "maker-release" /\ c.at \in SettleCalls /\ c.at \in MakerCalls
      /\ ~T(t).mounted /\ WorldTypeOK /\ c.deal \in Deals
  BY <1>1, <1>2, MakerFinds DEF CallOK
<1>4. ASSUME M(t).mounted
      PROVE  /\ M(t) \in MakerState /\ M(t).s7 = "releasing" /\ c.deal = M(t).matchId
             /\ M(t).attestRound = M(t).matchId /\ M(t).proofData = M(t).matchId
  <2>1. M(t) \in MakerState /\ MakerInv(M(t), calls[t])
    BY <1>4, MakerSees
  <2>2. M(t).s7 = "releasing" /\ c.deal = M(t).matchId
    BY <1>3, <2>1, SettleAt DEF MakerInv
  <2> QED
    BY <2>1, <2>2 DEF MakerInv, SettleInv
<1>5. CASE release(c.deal, c.with) /\ MakerGoesOn(t, c, goes, "maker-balance", c.deal, None)
  <2> DEFINE n == goes @@ M(t)
             k == NewCall("maker-balance", c.deal, None)
  <2>1. WorldStep /\ deal'[c.deal].phase = "released"
    BY <1>3, <1>5, ReleaseKeeps, ReleaseReleases
  <2>2. k.at = "maker-balance"
    BY DEF NewCall
  <2>3. ASSUME M(t).mounted PROVE MakerShows(n, (calls[t] \ {c}) \cup {k}, deal')
    <3>1. SettleMoves(M(t), n, "balance", M(t).attestRound, M(t).proofData)
      BY <1>4, <2>3, MakerReleasedShows
    <3>2. SettleAwaits(n) = {k}
      BY <1>4, <2>3, <3>1 DEF SettleAwaits, SettleMoves, MatchSame
    <3> HIDE DEF n, k
    <3> QED
      BY <1>2, <1>3, <1>4, <2>1, <2>2, <2>3, <3>1, <3>2, SettleShows
  <2> HIDE DEF goes
  <2> QED
    BY <1>2, <1>3, <1>5, <2>1, <2>3, MakerGoesOnKeeps DEF n, k
<1>6. CASE Fails(release(c.deal, c.with)) /\ MakerStops(t, c, s7Failed)
  BY <1>2, <1>3, <1>6, ReleaseKeeps, FailsKeeps, SettleFails
<1> QED
  BY <1>1, <1>5, <1>6

LEMMA RunMakerBalance ==
  ASSUME IInv, NEW t \in Tabs, runMakerBalance(t), UNCHANGED <<taker, account, desk>>
  PROVE  IInv'
<1> DEFINE ends == [s7 |-> "done"]
           n == ends @@ M(t)
<1>1. PICK c \in Awaited(t, "maker-balance") : UNCHANGED world /\ MakerStops(t, c, ends)
  BY DEF runMakerBalance, pollFinalFxrp, Answers
<1>2. "maker-balance" \in SettleCalls /\ "maker-balance" \in MakerCalls
  BY DEF SettleCalls, MakerCalls
<1>3. /\ c \in calls[t] /\ c.at = "maker-balance" /\ c.at \in SettleCalls /\ c.at \in MakerCalls
      /\ ~T(t).mounted /\ WorldStep
  BY <1>1, <1>2, MakerFinds, StillKeeps
<1>4. ASSUME M(t).mounted PROVE MakerShows(n, (calls[t] \ {c}) \cup {}, deal')
  <2>1. M(t) \in MakerState /\ MakerInv(M(t), calls[t]) /\ MakerTrue(M(t), deal')
    BY <1>3, <1>4, MakerSees, StepTrue
  <2>2. M(t).s7 = "balance"
    BY <1>3, <2>1, SettleAt DEF MakerInv
  <2>3. /\ M(t).attestRound = M(t).matchId /\ M(t).proofData = M(t).matchId
        /\ deal'[M(t).matchId].phase = "released"
    BY <2>1, <2>2 DEF MakerInv, SettleInv, MakerTrue
  <2>4. SettleMoves(M(t), n, "done", M(t).attestRound, M(t).proofData)
    BY <1>4, <2>1, MakerBalanceShows
  <2>5. SettleAwaits(n) = {}
    BY <2>4 DEF SettleAwaits, SettleMoves
  <2> HIDE DEF n
  <2> QED
    BY <1>3, <1>4, <2>3, <2>4, <2>5, SettleShows
<1>5. (calls[t] \ {c}) \cup {} = calls[t] \ {c}
  OBVIOUS
<1> HIDE DEF ends
<1> QED
  BY <1>1, <1>3, <1>4, <1>5, MakerStopsKeeps

LEMMA MakerActs ==
  ASSUME IInv, NEW t \in Tabs, MakerPress(t) \/ MakerAnswer(t) \/ paysByHand(t),
         UNCHANGED <<taker, account, desk>>
  PROVE  IInv'
<1>1. CASE MakerPress(t)
  BY <1>1, PressGas, PressOpenRfq, PressJoinRfq, RetryBond, PressQuote, PressMatch, PressAutoPay,
     PressManualPay, PressSettle, RetryProof DEF MakerPress
<1>2. CASE MakerAnswer(t)
  BY <1>2, RunOpenRfq, RunJoinRfq, RunMakerApprove, RunDepositBond, QuoteSigned, RunQuote,
     RunMatch,
     AccountFunded, RunAutoPay, RunManualPay, RunSettle, RunMakerProve, RunMakerRelease,
     RunMakerBalance DEF MakerAnswer
<1> QED
  BY <1>1, <1>2, PaysByHand
-----------------------------------------------------------------------------
(***************************************************************************)
(* The console: a trade is opened or left, the account goes and comes.     *)
(***************************************************************************)

\* What a screen starts from.
LEMMA ShownCases ==
  ASSUME NEW shown \in FreshAccount
  PROVE  /\ shown \in [mounted : BOOLEAN, enabled : BOOLEAN, funded : BOOLEAN] /\ shown.mounted
<1>1. PICK status \in StatusRead : shown = [mounted |-> TRUE] @@ status @@ NoStatus
  BY DEF FreshAccount
<1>2. CASE status = <<>>
  <2>1. PICK r : r = [mounted |-> TRUE]
    OBVIOUS
  <2>2. r @@ <<>> = r
    BY <2>1, NothingAdded
  <2>3. shown = r @@ NoStatus
    BY <1>1, <1>2, <2>1, <2>2
  <2> QED
    BY <2>1, <2>3 DEF NoStatus, @@
<1>3. CASE status = [enabled |-> FALSE]
  BY <1>1, <1>3 DEF NoStatus, @@
<1>4. ASSUME NEW b \in BOOLEAN, status = [enabled |-> TRUE, funded |-> b]
      PROVE  /\ shown \in [mounted : BOOLEAN, enabled : BOOLEAN, funded : BOOLEAN] /\ shown.mounted
  BY <1>1, <1>4 DEF NoStatus, @@
<1> QED
  BY <1>2, <1>3, <1>4, StatusCases

LEMMA AbsentIs ==
  Absent \in [mounted : BOOLEAN, enabled : BOOLEAN, funded : BOOLEAN] /\ ~Absent.mounted
BY DEF Absent, NoStatus, @@

LEMMA NewTakerShows ==
  ASSUME NEW shown \in [mounted : BOOLEAN, enabled : BOOLEAN, funded : BOOLEAN]
  PROVE  LET w == shown @@ NewTaker
         IN  /\ w \in TakerState /\ w.mounted = shown.mounted
             /\ w.s4 = "idle" /\ w.s5 = "idle" /\ w.publishStage = "idle"
             /\ w.xrplPayTx = None /\ w.attestRound = None /\ w.proofData = None
<1>1. PICK w : w = shown @@ NewTaker
  OBVIOUS
<1>2. w \in TakerState
  BY <1>1, ZenonT(60) DEF NewTaker, TakerState, @@
<1>3. /\ w.mounted = shown.mounted
      /\ w.s4 = "idle" /\ w.s5 = "idle" /\ w.publishStage = "idle"
      /\ w.xrplPayTx = None /\ w.attestRound = None /\ w.proofData = None
  BY <1>1 DEF NewTaker, @@
<1> QED
  BY <1>1, <1>2, <1>3

LEMMA NewMakerShows ==
  ASSUME NEW shown \in [mounted : BOOLEAN, enabled : BOOLEAN, funded : BOOLEAN]
  PROVE  LET m == shown @@ NewMaker
         IN  /\ m \in MakerState /\ m.mounted = shown.mounted
             /\ m.s3 = "idle" /\ m.s4 = "idle" /\ ~m.matching /\ m.payMethod = "none"
             /\ m.s6 = "idle" /\ ~m.s6Error /\ m.s7 = "idle"
             /\ m.attestRound = None /\ m.proofData = None
<1>1. PICK m : m = shown @@ NewMaker
  OBVIOUS
<1>2. 1 \in 1..MAX_NONCE + 1
  BY DeskApiAssumption
<1>3. m \in MakerState
  BY <1>1, <1>2, ZenonT(60) DEF NewMaker, MakerState, @@
<1>4. /\ m.mounted = shown.mounted
      /\ m.s3 = "idle" /\ m.s4 = "idle" /\ ~m.matching /\ m.payMethod = "none"
      /\ m.s6 = "idle" /\ ~m.s6Error /\ m.s7 = "idle"
      /\ m.attestRound = None /\ m.proofData = None
  BY <1>1 DEF NewMaker, @@
<1> QED
  BY <1>1, <1>3, <1>4

\* A screen that starts from nothing awaits nothing of a trade or of a quote.
LEMMA StartsFromNothing ==
  ASSUME NEW w, NEW m, NEW C, NEW mode \in Modes, NEW D, \A c \in C : CallOK(c),
         w.s4 = "idle", w.s5 = "idle", w.publishStage = "idle",
         w.xrplPayTx = None, w.attestRound = None, w.proofData = None,
         m.s3 = "idle", m.s4 = "idle", ~m.matching, m.payMethod = "none",
         m.s6 = "idle", ~m.s6Error, m.s7 = "idle", m.attestRound = None, m.proofData = None,
         w.mounted <=> mode = "wallet", m.mounted <=> mode = "maker",
         mode = "wallet" => C = {},
         mode = "maker" => \A c \in C : c.at \in PublishCalls
  PROVE  TabOK(w, m, C, mode, D)
<1>1. ASSUME w.mounted PROVE TakerInv(w, C) /\ TakerTrue(w, D) /\ \A c \in C : c.at \in TakerCalls
  <2>1. Kind(C, TradeCalls) = {} /\ TradeAwaits(w) = {}
    BY <1>1 DEF Kind, TradeAwaits
  <2>2. TradeSaved(w)
    BY DEF TradeSaved
  <2> QED
    BY <1>1, <2>1, <2>2 DEF TakerInv, TradeInv, PublishInv, TakerTrue
<1>2. ASSUME m.mounted PROVE /\ MakerInv(m, C) /\ MakerTrue(m, D)
                             /\ \A c \in C : c.at \in MakerCalls \cup PublishCalls
  <2>1. \A c \in C : c.at \notin TakingCalls \cup BondCalls \cup QuoteCalls \cup {"match"}
                                 \cup PayCalls \cup SettleCalls
    BY <1>2 DEF PublishCalls, TakingCalls, BondCalls, QuoteCalls, PayCalls, SettleCalls
  <2>2. /\ Kind(C, BondCalls) = {} /\ Kind(C, {"match"}) = {}
        /\ Kind(C, PayCalls) = {} /\ Kind(C, SettleCalls) = {}
    BY <2>1 DEF Kind
  <2>3. PayAwaits(m) = {} /\ SettleAwaits(m) = {}
    BY DEF PayAwaits, SettleAwaits
  <2>4. BondInv(m, C) /\ QuoteInv(m, C) /\ MatchInv(m, C)
    BY <2>2 DEF BondInv, QuoteInv, MatchInv
  <2>5. PayInv(m, C) /\ SettleInv(m, C)
    BY <2>2, <2>3 DEF PayInv, SettleInv
  <2> QED
    BY <1>2, <2>4, <2>5 DEF MakerInv, MakerTrue
<1> QED
  BY <1>1, <1>2 DEF TabOK, TakerGone, MakerGone

LEMMA OpensKeeps ==
  ASSUME IInv, NEW t \in Tabs, NEW mode \in Modes, Opens(t, mode), account' \in [Tabs -> BOOLEAN],
         mode = "closed" => desk[t].losses < MAX_LOSSES,
         mode = "wallet" => calls[t] = {},
         mode = "maker" => \A c \in calls[t] : c.at \in PublishCalls
  PROVE  IInv'
<1>1. /\ ScreensTypeOK /\ \A u \in Tabs : TabInv(u)
      /\ taker \in [Tabs -> TakerState] /\ maker \in [Tabs -> MakerState]
      /\ desk \in [Tabs -> Console]
  BY DEF IInv, ScreensTypeOK
<1>2. PICK shown \in FreshAccount :
        /\ taker' = [taker EXCEPT ![t] = (IF mode = "wallet" THEN shown ELSE Absent) @@ NewTaker]
        /\ maker' = [maker EXCEPT ![t] = (IF mode = "maker" THEN shown ELSE Absent) @@ NewMaker]
  BY DEF Opens
<1> DEFINE w == (IF mode = "wallet" THEN shown ELSE Absent) @@ NewTaker
           m == (IF mode = "maker" THEN shown ELSE Absent) @@ NewMaker
<1>3. /\ w \in TakerState /\ (w.mounted <=> mode = "wallet")
      /\ w.s4 = "idle" /\ w.s5 = "idle" /\ w.publishStage = "idle"
      /\ w.xrplPayTx = None /\ w.attestRound = None /\ w.proofData = None
  BY ShownCases, AbsentIs, NewTakerShows
<1>4. /\ m \in MakerState /\ (m.mounted <=> mode = "maker")
      /\ m.s3 = "idle" /\ m.s4 = "idle" /\ ~m.matching /\ m.payMethod = "none"
      /\ m.s6 = "idle" /\ ~m.s6Error /\ m.s7 = "idle"
      /\ m.attestRound = None /\ m.proofData = None
  BY ShownCases, AbsentIs, NewMakerShows
<1> HIDE DEF w, m
<1>5. /\ taker' = [taker EXCEPT ![t] = w] /\ maker' = [maker EXCEPT ![t] = m]
      /\ UNCHANGED <<world, calls>>
  BY <1>2 DEF w, m, Opens
<1>6. desk' \in [Tabs -> Console] /\ desk'[t].mode = mode
      /\ \A u \in Tabs \ {t} : desk'[u] = desk[u]
  <2>1. reportedWalletBusy(t) \in BOOLEAN /\ reportedMakerBusy(t) \in BOOLEAN
    BY <1>1 DEF reportedWalletBusy, reportedMakerBusy, walletBusy, makerBusy, Console, Awaiting
  <2>2. desk[t].losses + (IF mode = "closed" THEN 1 ELSE 0) \in 0..MAX_LOSSES
    BY <1>1, ConsoleAssumption DEF Console
  <2> QED
    BY <1>1, <2>1, <2>2 DEF Opens, Console
<1>7. ScreensTypeOK'
  BY <1>1, <1>3, <1>4, <1>5, <1>6 DEF ScreensTypeOK, ApiTypeOK, world
<1>8. ASSUME NEW u \in Tabs \ {t} PROVE TabInv(u)'
  <2>1. Lasting
    BY <1>5 DEF Lasting, world
  <2> QED
    BY <1>1, <1>5, <1>6, <2>1, TabUntouched
<1>9. TabInv(t)'
  <2>1. \A c \in calls[t] : CallOK(c)
    BY <1>1 DEF TabInv, TabOK
  <2>2. TabOK(w, m, calls[t], mode, deal)
    BY <1>3, <1>4, <2>1, StartsFromNothing
  <2> QED
    BY <1>1, <1>5, <1>6, <2>2 DEF TabInv, T, M, world
<1> QED
  BY <1>7, <1>8, <1>9 DEF IInv

LEMMA PlaceOrder == ASSUME IInv, NEW t \in Tabs, placeOrder(t) PROVE IInv'
BY OpensKeeps DEF placeOrder, Modes, IInv, ScreensTypeOK

\* "Quote it" is pressed beside a trade only when nothing is awaited but what was published.
LEMMA QuietTrade ==
  ASSUME IInv, NEW t \in Tabs, desk[t].mode = "wallet", ~switcherDisabled(t)
  PROVE  ~Awaiting(t, TradeCalls) /\ \A c \in calls[t] : c.at \in PublishCalls
<1>1. TabOK(T(t), M(t), calls[t], desk[t].mode, deal)
  BY DEF IInv, TabInv
<1>2. T(t).mounted /\ TradeInv(T(t), calls[t]) /\ \A c \in calls[t] : c.at \in TakerCalls
  BY <1>1 DEF TabOK, TakerInv
<1>3. ~Awaiting(t, {"generate"}) /\ T(t).s4 \in {"idle", "done"} /\ T(t).s5 \in {"idle", "done"}
  BY <1>2 DEF switcherDisabled, reportedWalletBusy, walletBusy
<1>4. Kind(calls[t], TradeCalls) = {}
  BY <1>2, <1>3 DEF TradeInv, TradeAwaits
<1> QED
  BY <1>2, <1>3, <1>4 DEF Kind, Awaiting, TakerCalls

LEMMA FillOrder == ASSUME IInv, NEW t \in Tabs, fillOrder(t) PROVE IInv'
<1>1. \A c \in calls[t] : c.at \in PublishCalls
  BY QuietTrade DEF fillOrder
<1> QED
  BY <1>1, OpensKeeps DEF fillOrder, Modes, IInv, ScreensTypeOK

LEMMA Disconnect == ASSUME IInv, NEW t \in Tabs, disconnect(t) PROVE IInv'
BY OpensKeeps DEF disconnect, Modes, IInv, ScreensTypeOK

LEMMA AccountVanishes == ASSUME IInv, NEW t \in Tabs, accountVanishes(t) PROVE IInv'
<1>1. /\ ScreensTypeOK /\ \A u \in Tabs : TabInv(u)
      /\ account' = [account EXCEPT ![t] = FALSE] /\ desk' = [desk EXCEPT ![t].losses = @ + 1]
      /\ UNCHANGED <<world, calls, taker, maker>> /\ desk[t].losses < MAX_LOSSES
  BY DEF IInv, accountVanishes, screens
<1>2. desk' \in [Tabs -> Console] /\ \A u \in Tabs : desk'[u].mode = desk[u].mode
  <2>1. desk[t].losses + 1 \in 0..MAX_LOSSES
    BY <1>1, ConsoleAssumption DEF ScreensTypeOK, Console
  <2> QED
    BY <1>1, <2>1 DEF ScreensTypeOK, Console
<1>3. ScreensTypeOK'
  BY <1>1, <1>2 DEF ScreensTypeOK, ApiTypeOK, world
<1>4. Lasting
  BY <1>1 DEF Lasting, world
<1>5. ASSUME NEW u \in Tabs PROVE TabInv(u)'
  BY <1>1, <1>2, <1>4, TabUntouched
<1> QED
  BY <1>3, <1>5 DEF IInv

LEMMA PassingTime == ASSUME IInv, TimePasses PROVE IInv'
<1>1. WorldStep /\ UNCHANGED <<calls, account, taker, maker, desk>>
  BY IInvWorld, ElapseKeeps DEF TimePasses, screens
<1>2. ScreensTypeOK'
  BY <1>1 DEF IInv, ScreensTypeOK, ApiTypeOK, WorldStep, WorldTypeOK
<1>3. ASSUME NEW u \in Tabs PROVE TabInv(u)'
  BY <1>1, TabUntouched DEF IInv, WorldStep
<1> QED
  BY <1>2, <1>3 DEF IInv

LEMMA ReadShows ==
  ASSUME NEW w \in TakerState, w.mounted, NEW b \in BOOLEAN
  PROVE  Placing(w, [enabled |-> TRUE, funded |-> b] @@ w, w.publishStage)
<1>1. PICK v : v = [enabled |-> TRUE, funded |-> b] @@ w
  OBVIOUS
<1>2. v \in TakerState
  BY <1>1, ZenonT(30) DEF TakerState, @@
<1>3. v.mounted /\ v.publishStage = w.publishStage
  BY <1>1 DEF TakerState, @@
<1>4. SameTrade(w, v)
  BY <1>1 DEF TakerState, SameTrade, @@
<1> QED
  BY <1>1, <1>2, <1>3, <1>4 DEF Placing

LEMMA MakerReadShows ==
  ASSUME NEW m \in MakerState, m.mounted, NEW b \in BOOLEAN
  PROVE  LET n == [enabled |-> TRUE, funded |-> b] @@ m
         IN  BondMoves(m, n, m.s3, m.rfqData) /\ n.s3Error = m.s3Error
<1>1. PICK n : n = [enabled |-> TRUE, funded |-> b] @@ m
  OBVIOUS
<1>2. n \in MakerState
  BY <1>1, ZenonT(30) DEF MakerState, @@
<1>3. QuoteSame(m, n) /\ MatchSame(m, n) /\ PaySame(m, n) /\ SettleSame(m, n)
  BY <1>1 DEF MakerState, QuoteSame, MatchSame, PaySame, SettleSame, @@
<1>4. n.mounted /\ n.s3 = m.s3 /\ n.rfqData = m.rfqData /\ n.s3Error = m.s3Error
  BY <1>1 DEF MakerState, @@
<1> QED
  BY <1>1, <1>2, <1>3, <1>4 DEF BondMoves, Stays

LEMMA MakerSameShows ==
  ASSUME NEW m \in MakerState, m.mounted
  PROVE  LET n == <<>> @@ m IN BondMoves(m, n, m.s3, m.rfqData) /\ n.s3Error = m.s3Error
<1>1. <<>> @@ m = m
  BY NoChange DEF MakerState
<1> QED
  BY <1>1 DEF BondMoves, Stays, QuoteSame, MatchSame, PaySame, SettleSame

LEMMA Connects == ASSUME IInv, NEW t \in Tabs, connects(t) PROVE IInv'
<1>1. CASE desk[t].mode = "closed"
  <2>1. UNCHANGED <<world, calls, taker, maker, desk>> /\ account' = [account EXCEPT ![t] = TRUE]
    BY <1>1 DEF connects, screens
  <2>2. ScreensTypeOK' /\ Lasting
    BY <2>1 DEF IInv, ScreensTypeOK, ApiTypeOK, world, Lasting
  <2>3. ASSUME NEW u \in Tabs PROVE TabInv(u)'
    BY <2>1, <2>2, TabUntouched DEF IInv
  <2> QED
    BY <2>2, <2>3 DEF IInv
<1>2. ASSUME NEW status \in StatusRead, accountAppears(t, T(t)), ShowTaker(t, status),
             UNCHANGED <<maker, desk>>
      PROVE  IInv'
  <2>1. /\ T(t).mounted /\ UNCHANGED <<world, calls>> /\ account' \in [Tabs -> BOOLEAN]
        /\ WorldStep
    BY <1>2, IInvWorld, StillKeeps DEF accountAppears, IInv, ScreensTypeOK
  <2>2. Placing(T(t), status @@ T(t), T(t).publishStage)
    BY <2>1, StatusCases, TakerSees, SameShows, NotEnabledShows, ReadShows
  <2>3. TabOK(T(t), M(t), calls[t], desk[t].mode, deal)
    BY DEF IInv, TabInv
  <2>4. TakerInv(T(t), calls[t]) /\ TakerTrue(T(t), deal')
    BY <2>1, <2>3, TakerStillTrue DEF TabOK, WorldStep
  <2>5. TradeInv(status @@ T(t), calls[t])
    BY <2>2, <2>4, TradeUntouched DEF Placing, SameTrade, TakerInv
  <2>6. /\ TakerInv(status @@ T(t), calls[t]) /\ TakerTrue(status @@ T(t), deal')
    BY <2>2, <2>4, <2>5 DEF Placing, SameTrade, TakerInv, PublishInv, TakerTrue
  <2>7. calls' = [calls EXCEPT ![t] = calls[t]]
    BY <2>1, TakerSees
  <2> QED
    BY <1>2, <2>1, <2>2, <2>6, <2>7, TakerStepAnyAccount DEF Placing
<1>3. ASSUME NEW status \in StatusRead, accountAppears(t, M(t)), ShowMaker(t, status),
             UNCHANGED <<taker, desk>>
      PROVE  IInv'
  <2> DEFINE n == status @@ M(t)
  <2>1. /\ M(t).mounted /\ UNCHANGED <<world, calls>> /\ account' \in [Tabs -> BOOLEAN]
        /\ WorldStep
    BY <1>3, IInvWorld, StillKeeps DEF accountAppears, IInv, ScreensTypeOK
  <2>2. BondMoves(M(t), n, M(t).s3, M(t).rfqData) /\ n.s3Error = M(t).s3Error
    BY <2>1, StatusCases, MakerSees, MakerSameShows, GasSleptShows, MakerReadShows
  <2> HIDE DEF n
  <2>3. MakerInv(M(t), calls[t]) /\ MakerTrue(M(t), deal')
    BY <2>1, MakerSees, StepTrue
  <2>4. BondInv(n, calls[t])
    BY <2>2, <2>3 DEF MakerInv, BondInv, BondMoves
  <2>5. MakerShows(n, calls[t], deal')
    BY <2>2, <2>3, <2>4, BondPart
  <2>6. calls' = [calls EXCEPT ![t] = calls[t]] /\ ~T(t).mounted
    BY <2>1, MakerSees
  <2> QED
    BY <1>3, <2>1, <2>5, <2>6, MakerStepAnyAccount DEF MakerShows, Stays, n
<1> QED
  BY <1>1, <1>2, <1>3 DEF connects

-----------------------------------------------------------------------------
(***************************************************************************)
(* The theorems.                                                           *)
(***************************************************************************)
LEMMA InitOK == ASSUME ConsoleInit PROVE IInv
<1>1. /\ deal = [d \in Deals |-> UnusedDeal] /\ armed = [t \in Tabs |-> 0]
      /\ bond = [t \in Tabs |-> 0]
      /\ calls = [t \in Tabs |-> {}]
  BY DEF ConsoleInit, ApiInit
<1>2. UnusedDeal \in Deal /\ 0 \in 0..MAX_ARMED
  BY DeskApiAssumption DEF UnusedDeal, Deal
<1>3. ApiTypeOK
  BY <1>1, <1>2 DEF ApiTypeOK
<1> DEFINE w == Absent @@ NewTaker
           m == Absent @@ NewMaker
<1>4. /\ w \in TakerState /\ ~w.mounted
      /\ w.s4 = "idle" /\ w.s5 = "idle" /\ w.publishStage = "idle"
      /\ w.xrplPayTx = None /\ w.attestRound = None /\ w.proofData = None
  BY AbsentIs, NewTakerShows
<1>5. /\ m \in MakerState /\ ~m.mounted
      /\ m.s3 = "idle" /\ m.s4 = "idle" /\ ~m.matching /\ m.payMethod = "none"
      /\ m.s6 = "idle" /\ ~m.s6Error /\ m.s7 = "idle"
      /\ m.attestRound = None /\ m.proofData = None
  BY AbsentIs, NewMakerShows
<1> HIDE DEF w, m
<1>6. taker = [t \in Tabs |-> w] /\ maker = [t \in Tabs |-> m]
  BY DEF ConsoleInit, w, m
<1>7. /\ account \in [Tabs -> BOOLEAN] /\ desk \in [Tabs -> Console]
      /\ \A t \in Tabs : desk[t].mode = "closed"
  BY ConsoleAssumption DEF ConsoleInit, Console, Modes
<1>8. ASSUME NEW t \in Tabs PROVE TabInv(t)
  <2>1. "closed" \in Modes
    BY DEF Modes
  <2>2. TabOK(w, m, {}, "closed", deal)
    BY <1>4, <1>5, <2>1, StartsFromNothing
  <2> QED
    BY <1>1, <1>6, <1>7, <2>2 DEF TabInv, T, M
<1> QED
  BY <1>3, <1>4, <1>5, <1>6, <1>7, <1>8 DEF IInv, ScreensTypeOK

LEMMA NextKeeps == ASSUME IInv, [Next]_vars PROVE IInv'
<1>1. CASE UNCHANGED vars
  <2>1. UNCHANGED <<world, calls, account, taker, maker, desk>>
    BY <1>1 DEF vars
  <2>2. ScreensTypeOK' /\ Lasting
    BY <2>1 DEF IInv, ScreensTypeOK, ApiTypeOK, world, Lasting
  <2>3. ASSUME NEW u \in Tabs PROVE TabInv(u)'
    BY <2>1, <2>2, TabUntouched DEF IInv
  <2> QED
    BY <2>2, <2>3 DEF IInv
<1>2. ASSUME NEW t \in Tabs, Screens(t) PROVE IInv'
  BY <1>2, TakerActs, MakerActs DEF Screens
<1> QED
  BY <1>1, <1>2, PlaceOrder, FillOrder, Disconnect, AccountVanishes, Connects, PassingTime DEF Next

\* Whatever is pressed, answered or lost, and whenever: what a tab awaits, what its
\* screens show and the stage they are at agree, and no screen says what is not so.
THEOREM ScreensInvariant == Spec => []IInv
BY InitOK, NextKeeps, PTL DEF Spec

\* The screens keep to the stages that their components have.
THEOREM ScreensTypes == Spec => []ScreensTypeOK
<1>1. IInv => ScreensTypeOK
  BY DEF IInv
<1> QED
  BY <1>1, ScreensInvariant, PTL

LEMMA TabFacts ==
  ASSUME IInv, NEW t \in Tabs
  PROVE  /\ TabOK(T(t), M(t), calls[t], desk[t].mode, deal)
         /\ T(t) \in TakerState /\ M(t) \in MakerState
BY DEF IInv, TabInv, ScreensTypeOK, T, M

LEMMA TakerGoesOnward ==
  ASSUME IInv, NEW t \in Tabs, T(t).mounted
  PROVE  ~TakerStalls(t)
<1>1. /\ TradeSaved(T(t)) /\ Kind(calls[t], TradeCalls) = TradeAwaits(T(t))
      /\ PublishInv(T(t), calls[t]) /\ T(t) \in TakerState
  BY TabFacts DEF TabOK, TakerInv, TradeInv
<1>2. ASSUME TradeAwaits(T(t)) # {} PROVE Awaiting(t, TradeCalls)
  BY <1>1, <1>2 DEF Kind, Awaiting
<1>3. ~(T(t).s4 = "done" /\ T(t).matchId = None)
  BY <1>1, DeskApiAssumption DEF TradeSaved
<1>4. T(t).s4 \notin {"idle", "done"} /\ ~T(t).s4Error => TradeAwaits(T(t)) # {}
  BY <1>1 DEF TakerState, TradeAwaits
<1>5. T(t).s5 \notin {"idle", "done"} /\ (~T(t).s5Error \/ T(t).s5 = "balance")
      => TradeAwaits(T(t)) # {}
  BY <1>1 DEF TakerState, TradeAwaits, TradeSaved
<1>6. T(t).publishStage \notin {"idle", "waiting"} => Awaiting(t, PublishCalls)
  BY <1>1 DEF PublishInv, Kind, Awaiting
<1> QED
  BY <1>2, <1>3, <1>4, <1>5, <1>6 DEF TakerStalls, PublishCalls

LEMMA MakerGoesOnward ==
  ASSUME IInv, NEW t \in Tabs, M(t).mounted
  PROVE  ~MakerStalls(t)
<1>1. /\ MakerInv(M(t), calls[t]) /\ MakerTrue(M(t), deal) /\ M(t) \in MakerState
  BY TabFacts DEF TabOK
<1>2. ASSUME NEW K, Kind(calls[t], K) # {} PROVE Awaiting(t, K)
  BY <1>2 DEF Kind, Awaiting
<1>3. M(t).s3 = "opening" => Awaiting(t, TakingCalls)
  BY <1>1, <1>2 DEF MakerInv, BondInv
<1>4. M(t).s3 \in {"bondApprove", "depositBond"} =>
        (M(t).s3Error /\ M(t).rfqData # None) \/ Awaiting(t, BondCalls)
  BY <1>1, <1>2, DeskApiAssumption DEF MakerInv, BondInv
<1>5. /\ M(t).s4 \notin {"idle", "done"} => Awaiting(t, QuoteCalls)
      /\ M(t).matching => Awaiting(t, {"match"})
  BY <1>1, <1>2 DEF MakerInv, QuoteInv, MatchInv
<1>6. M(t).s6 \notin {"idle", "done"} => Awaiting(t, PayCalls)
  <2>1. M(t).s6 \notin {"idle", "done"} => PayAwaits(M(t)) # {}
    BY <1>1 DEF PayAwaits, MakerState
  <2> QED
    BY <1>1, <1>2, <2>1 DEF MakerInv, PayInv
<1>7. M(t).s6 = "idle" /\ M(t).payMethod # "none" /\ ~M(t).s6Error /\ ~M(t).slept
      => paymentExpired(t)
  BY <1>1, DeskApiAssumption DEF MakerInv, PayInv, MakerTrue, paymentExpired
<1>8. M(t).s7 \notin {"idle", "done"} /\ (~M(t).s7Error \/ M(t).s7 = "balance")
      => Awaiting(t, SettleCalls)
  <2>1. M(t).s7 \notin {"idle", "done"} /\ (~M(t).s7Error \/ M(t).s7 = "balance")
        => SettleAwaits(M(t)) # {}
    BY <1>1 DEF SettleAwaits, MakerState
  <2> QED
    BY <1>1, <1>2, <2>1 DEF MakerInv, SettleInv
<1> QED
  BY <1>3, <1>4, <1>5, <1>6, <1>7, <1>8
     DEF MakerStalls, TakingCalls, BondCalls, QuoteCalls, PayCalls, SettleCalls

\* No stage of a screen is a dead end: something is awaited, or a retry is offered once
\* the server is awake, except for a payment that it slept through.
THEOREM ScreensGoOn == Spec => []NothingStalls
<1>1. IInv => NothingStalls
  BY TakerGoesOnward, MakerGoesOnward DEF NothingStalls
<1> QED
  BY <1>1, ScreensInvariant, PTL

\* What a retry sends is of the match on the screen.
THEOREM RetriesAreOfTheMatch == Spec => []RetryIsOfTheMatch
<1>1. ASSUME IInv, NEW t \in Tabs
      PROVE  LET w == T(t)  m == M(t) IN
             /\ w.s4Error /\ w.s4 # "idle" => w.prepareData = w.matchId /\ w.matchId # None
             /\ w.s5Error /\ w.s5 # "idle" =>
                  /\ w.matchId # None
                  /\ w.s5 # "paying" => w.xrplPayTx = w.matchId
                  /\ w.s5 \in {"proving", "releasing"} => w.attestRound = w.matchId
                  /\ w.s5 = "releasing" => w.proofData = w.matchId
             /\ m.s7Error /\ m.s7 # "idle" =>
                  /\ m.matchId # None
                  /\ m.s7 \in {"proving", "releasing"} => m.attestRound = m.matchId
                  /\ m.s7 = "releasing" => m.proofData = m.matchId
  <2>1. TabOK(T(t), M(t), calls[t], desk[t].mode, deal) /\ T(t) \in TakerState
        /\ M(t) \in MakerState
    BY <1>1, TabFacts
  <2>2. T(t).mounted => TradeSaved(T(t))
    BY <2>1 DEF TabOK, TakerInv, TradeInv
  <2>3. ~T(t).mounted => T(t).s4 = "idle" /\ T(t).s5 = "idle"
    BY <2>1 DEF TabOK, TakerGone
  <2>4. T(t).s4Error /\ T(t).s4 # "idle"
        => T(t).prepareData = T(t).matchId /\ T(t).matchId \in Deals
    BY <2>1, <2>2, <2>3 DEF TradeSaved, TakerState
  <2>5. T(t).s5 # "idle" => /\ T(t).matchId \in Deals
                            /\ T(t).s5 # "paying" => T(t).xrplPayTx = T(t).matchId
                            /\ T(t).s5 \in {"proving", "releasing"}
                               => T(t).attestRound = T(t).matchId
                            /\ T(t).s5 = "releasing" => T(t).proofData = T(t).matchId
    BY <2>2, <2>3 DEF TradeSaved
  <2>6. M(t).mounted => PayInv(M(t), calls[t]) /\ SettleInv(M(t), calls[t])
    BY <2>1 DEF TabOK, MakerInv
  <2>7. ~M(t).mounted => M(t).s7 = "idle"
    BY <2>1 DEF TabOK, MakerGone
  <2>8. M(t).s7 # "idle" => /\ M(t).matchId \in Deals
                            /\ M(t).s7 \in {"proving", "releasing"}
                               => M(t).attestRound = M(t).matchId
                            /\ M(t).s7 = "releasing" => M(t).proofData = M(t).matchId
    BY <2>6, <2>7 DEF PayInv, SettleInv
  <2> QED
    BY <2>4, <2>5, <2>8, DeskApiAssumption
<1>2. IInv => RetryIsOfTheMatch
  BY <1>1 DEF RetryIsOfTheMatch
<1> QED
  BY <1>2, ScreensInvariant, PTL

LEMMA TakerHears ==
  ASSUME IInv, NEW t \in Tabs, NEW c \in calls[t]
  PROVE  /\ c.at = "lock" => T(t).s4 # "done"
         /\ c.at = "wallet-pay" => T(t).xrplPayTx # c.deal
         /\ c.at = "attest" => T(t).attestRound # c.deal
         /\ c.at = "taker-proof" => T(t).proofData # c.deal
         /\ c.at = "release" => T(t).s5 \notin {"balance", "done"}
<1>1. TabOK(T(t), M(t), calls[t], desk[t].mode, deal)
  BY TabFacts
<1>2. c.at \in {"wallet-pay", "attest", "taker-proof"} => c.deal # None
  BY <1>1, DeskApiAssumption DEF TabOK, CallOK, Dealless
<1>3. CASE T(t).mounted
  BY <1>1, <1>2, <1>3, TradeAt DEF TabOK, TakerInv, TradeInv, TradeSaved, TradeCalls
<1>4. CASE ~T(t).mounted
  BY <1>1, <1>2, <1>4 DEF TabOK, TakerGone
<1> QED
  BY <1>3, <1>4

LEMMA MakerHears ==
  ASSUME IInv, NEW t \in Tabs, NEW c \in calls[t]
  PROVE  /\ c.at \in {"xrpl-account", "maker-pay", "payment-status"} => M(t).s6 # "done"
         /\ c.at = "settle" => M(t).attestRound # c.deal
         /\ c.at = "maker-proof" => M(t).proofData # c.deal
         /\ c.at = "maker-release" => M(t).s7 \notin {"balance", "done"}
<1>1. TabOK(T(t), M(t), calls[t], desk[t].mode, deal)
  BY TabFacts
<1>2. c.at \in {"settle", "maker-proof"} => c.deal # None
  BY <1>1, DeskApiAssumption DEF TabOK, CallOK, Dealless
<1>3. CASE M(t).mounted
  <2>1. PayInv(M(t), calls[t]) /\ SettleInv(M(t), calls[t])
    BY <1>1, <1>3 DEF TabOK, MakerInv
  <2>2. c.at \in PayCalls => M(t).s6 # "done"
    BY <2>1, PayAt
  <2>3. c.at \in SettleCalls => /\ c.at = "settle" => M(t).s7 = "settling"
                                /\ c.at = "maker-proof" => M(t).s7 = "proving"
                                /\ c.at = "maker-release" => M(t).s7 = "releasing"
    BY <2>1, SettleAt
  <2> QED
    BY <1>2, <2>1, <2>2, <2>3 DEF SettleInv, PayCalls, SettleCalls
<1>4. CASE ~M(t).mounted
  BY <1>1, <1>2, <1>4 DEF TabOK, MakerGone
<1> QED
  BY <1>3, <1>4

\* Nothing that a screen has heard to succeed is asked for again.
THEOREM HeardOnce == Spec => []HeardIsNotSentAgain
<1>1. IInv => HeardIsNotSentAgain
  BY TakerHears, MakerHears DEF HeardIsNotSentAgain
<1> QED
  BY <1>1, ScreensInvariant, PTL

\* A screen that says "settled" shows a match that was released.
THEOREM SettledIsReleased == Spec => []SettledMeansReleased
<1>1. ASSUME IInv, NEW t \in Tabs
      PROVE  /\ T(t).s5 \in {"balance", "done"} => deal[T(t).matchId].phase = "released"
             /\ M(t).s7 \in {"balance", "done"} => deal[M(t).matchId].phase = "released"
  BY <1>1, TabFacts DEF TabOK, TakerTrue, MakerTrue, TakerGone, MakerGone
<1>2. IInv => SettledMeansReleased
  BY <1>1 DEF SettledMeansReleased
<1> QED
  BY <1>2, ScreensInvariant, PTL

\* A maker's screen takes the place of a taker's only by "Quote it", when it is quiet.
LEMMA ModeChanges ==
  ASSUME IInv, [Next]_vars, NEW t \in Tabs, desk[t].mode = "wallet", desk'[t].mode = "maker"
  PROVE  ~switcherDisabled(t)
<1>1. desk \in [Tabs -> Console]
  BY DEF IInv, ScreensTypeOK
<1>2. desk' # desk
  OBVIOUS
<1>3. PICK u \in Tabs : placeOrder(u) \/ fillOrder(u) \/ disconnect(u) \/ accountVanishes(u)
  BY <1>2 DEF Next, vars, connects, Screens, TimePasses
<1>4. ASSUME accountVanishes(u) PROVE FALSE
  <2>1. desk' = [desk EXCEPT ![u].losses = @ + 1]
    BY <1>4 DEF accountVanishes
  <2>2. desk'[t].mode = desk[t].mode
    BY <1>1, <2>1 DEF Console
  <2> QED
    BY <2>2
<1>5. PICK mode \in Modes : Opens(u, mode) /\ (mode = "maker" => fillOrder(u))
  BY <1>3, <1>4 DEF placeOrder, fillOrder, disconnect, Modes
<1>6. u = t /\ mode = "maker"
  BY <1>1, <1>5 DEF Opens
<1> QED
  BY <1>5, <1>6 DEF fillOrder

\* "Quote it" never takes away the screen of a trade that is waiting.
THEOREM TradesAreWaitedFor == Spec => QuoteItWaitsForTheTrade
<1>1. ASSUME IInv, IInv', [Next]_vars, NEW t \in Tabs, T(t).mounted, maker'[t].mounted
      PROVE  ~Awaiting(t, TradeCalls)
  <2>1. desk[t].mode = "wallet"
    BY <1>1, TabFacts DEF TabOK
  <2>2. desk'[t].mode = "maker"
    BY <1>1 DEF IInv, TabInv, TabOK, M
  <2> QED
    BY <1>1, <2>1, <2>2, ModeChanges, QuietTrade
<1>2. IInv /\ IInv' /\ [Next]_vars =>
        [\A t \in Tabs : T(t).mounted /\ maker'[t].mounted => ~Awaiting(t, TradeCalls)]_vars
  BY <1>1
<1> QED
  BY <1>2, ScreensInvariant, PTL DEF Spec, QuoteItWaitsForTheTrade
=============================================================================
