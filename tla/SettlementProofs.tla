-------------------------- MODULE SettlementProofs --------------------------
(***************************************************************************)
(* DvPEscrow implements Settlement, for every value of the constants: its  *)
(* initial states are initial states of Settlement under the mapping, and  *)
(* each of its steps is a step of Settlement or changes nothing there.     *)
(***************************************************************************)
EXTENDS DvPEscrowProofs

-----------------------------------------------------------------------------
(***************************************************************************)
(* The mapped state.                                                       *)
(***************************************************************************)
\* A claim is a natural number, of which the uncommitted deposit and the free bond
\* are parts.
LEMMA ClaimTypes ==
  ASSUME Inv, NEW p \in Parties
  PROVE  /\ fxrp[p] \in Nat /\ balances[p].armed \in Nat /\ balances[p].committed \in Nat
         /\ freeBond[p] \in Nat
         /\ Available(p) \in Nat
         /\ Claims[p] = fxrp[p] + Available(p) + freeBond[p]
         /\ Claims[p] \in Nat
<1>1. p \in Accounts
  BY DEF Accounts
<1>2. /\ fxrp[p] \in Nat /\ balances[p].armed \in Nat /\ balances[p].committed \in Nat
      /\ freeBond[p] \in Nat /\ balances[p].committed <= balances[p].armed
  BY <1>1 DEF Inv, TypeOK, LedgerTypeOK, TakerBalance, CommittedIsOpen
<1> QED
  BY <1>2 DEF Claims, Available

\* Claims agree when the three parts add up to the same for every party.
LEMMA ClaimsSame ==
  ASSUME \A p \in Parties :
           fxrp'[p] + (balances'[p].armed - balances'[p].committed) + freeBond'[p]
             = fxrp[p] + (balances[p].armed - balances[p].committed) + freeBond[p]
  PROVE  Claims' = Claims
BY DEF Claims, Available

\* With the matches and the payments, the deals and what funds them stay.
LEMMA DealsSame ==
  ASSUME UNCHANGED <<matches, payments>>
  PROVE  Deals' = Deals /\ Funded' = Funded
BY DEF Deals, Funded, PaysFor

\* A deal is what its match says.
LEMMA DealOf ==
  ASSUME NEW id \in MatchIds
  PROVE  Deals[id] = [phase |-> Phase[matches[id].state],
                      taker |-> matches[id].taker, maker |-> matches[id].maker,
                      amount |-> matches[id].amountFxrp, bond |-> matches[id].bondAmount,
                      payBy |-> matches[id].paymentDeadline]
BY DEF Deals

\* The four states of a match are the four phases of a deal.
LEMMA Phases ==
  /\ Phase["None"] = "none" /\ Phase["Locked"] = "open"
  /\ Phase["Released"] = "delivered" /\ Phase["Refunded"] = "returned"
BY DEF Phase

-----------------------------------------------------------------------------
(***************************************************************************)
(* Initial states.                                                         *)
(***************************************************************************)
\* Nothing is deposited: everybody's claim is what they hold.
LEMMA InitMaps == Init => Promise!SInit
<1> SUFFICES ASSUME Init PROVE Promise!SInit
  OBVIOUS
<1>1. Inv
  BY InitInv
<1>2. Claims \in [Parties -> Nat]
  BY <1>1, ClaimTypes DEF Claims
<1>3. \A id \in MatchIds : Deals[id].phase = "none" /\ Funded[id] = {}
  BY Phases DEF Init, NoMatch, Deals, Funded
<1> QED
  BY <1>2, <1>3 DEF Init, Promise!SInit

-----------------------------------------------------------------------------
(***************************************************************************)
(* Steps that change nobody's claim.                                       *)
(***************************************************************************)
\* What a taker deposits or withdraws was and stays theirs.
LEMMA TakerMaps ==
  ASSUME Inv, AnyTaker
  PROVE  UNCHANGED Promise!settlementVars
<1>1. PICK t \in Parties, a \in Nat :
        (\E u \in Nat : deposit(t, a, u)) \/ withdraw(t, a)
  BY DEF AnyTaker
<1>2. a \in Nat /\ balances \in [Parties -> TakerBalance] /\ fxrp \in [Accounts -> Nat]
  BY EscrowAssumption DEF Inv, TypeOK, LedgerTypeOK
<1>3. UNCHANGED <<now, matches, payments, usedTxId, freeBond>>
  BY <1>1 DEF deposit, withdraw, ledgerVars, worldVars
<1>4. \A p \in Parties :
        fxrp'[p] + (balances'[p].armed - balances'[p].committed)
          = fxrp[p] + (balances[p].armed - balances[p].committed)
  <2>1. CASE \E u \in Nat : deposit(t, a, u)
    <3>1. fxrp' = Moved(fxrp, t, EscrowAddr, a) /\ a <= fxrp[t]
      BY <1>2, <2>1, AccountTypes DEF deposit, CanPay
    <3>2. /\ balances'[t].armed = balances[t].armed + a
          /\ balances'[t].committed = balances[t].committed
          /\ \A p \in Parties \ {t} : balances'[p] = balances[p]
      BY <1>2, <2>1 DEF deposit, TakerBalance
    <3>3. /\ fxrp'[t] = fxrp[t] - a
          /\ \A p \in Parties \ {t} : fxrp'[p] = fxrp[p]
      BY <1>2, <3>1, MovedType, AccountTypes
    <3>4. /\ fxrp[t] \in Nat /\ balances[t].armed \in Nat /\ balances[t].committed \in Nat
      BY <1>1, ClaimTypes
    <3>5. fxrp'[t] + (balances'[t].armed - balances'[t].committed)
            = fxrp[t] + (balances[t].armed - balances[t].committed)
      BY <1>2, <3>2, <3>3, <3>4
    <3> QED
      BY <3>2, <3>3, <3>5
  <2>2. CASE withdraw(t, a)
    <3>1. fxrp' = Moved(fxrp, EscrowAddr, t, a) /\ a <= fxrp[EscrowAddr]
      BY <1>2, <2>2, AccountTypes DEF withdraw, CanPay
    <3>2. /\ balances'[t].armed = balances[t].armed - a
          /\ balances'[t].committed = balances[t].committed
          /\ \A p \in Parties \ {t} : balances'[p] = balances[p]
      BY <1>2, <2>2 DEF withdraw, TakerBalance
    <3>3. /\ fxrp'[t] = fxrp[t] + a
          /\ \A p \in Parties \ {t} : fxrp'[p] = fxrp[p]
      BY <1>2, <3>1, MovedType, AccountTypes
    <3>4. /\ fxrp[t] \in Nat /\ balances[t].armed \in Nat /\ balances[t].committed \in Nat
      BY <1>1, ClaimTypes
    <3>5. fxrp'[t] + (balances'[t].armed - balances'[t].committed)
            = fxrp[t] + (balances[t].armed - balances[t].committed)
      BY <1>2, <3>2, <3>3, <3>4
    <3> QED
      BY <3>2, <3>3, <3>5
  <2> QED
    BY <1>1, <2>1, <2>2
<1>5. Claims' = Claims
  BY <1>3, <1>4, ClaimsSame
<1> QED
  BY <1>3, <1>5, DealsSame DEF Promise!settlementVars

\* Nor does a maker's bond change hands when it is posted or taken back.
LEMMA MakerMaps ==
  ASSUME Inv, AnyMaker
  PROVE  UNCHANGED Promise!settlementVars
<1>1. PICK m \in Parties, a \in Nat : depositBond(m, a) \/ withdrawBond(m, a)
  BY DEF AnyMaker
<1>2. a \in Nat /\ freeBond \in [Parties -> Nat] /\ fxrp \in [Accounts -> Nat]
  BY EscrowAssumption DEF Inv, TypeOK, LedgerTypeOK
<1>3. UNCHANGED <<now, matches, payments, usedTxId, balances>>
  BY DEF AnyMaker, Unescrowed, escrowVars, worldVars
<1>4. \A p \in Parties : fxrp'[p] + freeBond'[p] = fxrp[p] + freeBond[p]
  <2>1. CASE depositBond(m, a)
    <3>1. /\ fxrp' = Moved(fxrp, m, LedgerAddr, a) /\ a <= fxrp[m]
          /\ freeBond'[m] = freeBond[m] + a
          /\ \A p \in Parties \ {m} : freeBond'[p] = freeBond[p]
      BY <1>2, <2>1, AccountTypes DEF depositBond, CanPay
    <3>2. /\ fxrp'[m] = fxrp[m] - a
          /\ \A p \in Parties \ {m} : fxrp'[p] = fxrp[p]
      BY <1>2, <3>1, MovedType, AccountTypes
    <3> QED
      BY <3>1, <3>2, ClaimTypes, <1>2
  <2>2. CASE withdrawBond(m, a)
    <3>1. /\ fxrp' = Moved(fxrp, LedgerAddr, m, a) /\ a <= fxrp[LedgerAddr]
          /\ freeBond'[m] = freeBond[m] - a
          /\ \A p \in Parties \ {m} : freeBond'[p] = freeBond[p]
      BY <1>2, <2>2, AccountTypes DEF withdrawBond, CanPay
    <3>2. /\ fxrp'[m] = fxrp[m] + a
          /\ \A p \in Parties \ {m} : fxrp'[p] = fxrp[p]
      BY <1>2, <3>1, MovedType, AccountTypes
    <3> QED
      BY <3>1, <3>2, ClaimTypes, <1>2
  <2> QED
    BY <1>1, <2>1, <2>2
<1>5. \A p \in Parties :
        fxrp'[p] + (balances'[p].armed - balances'[p].committed) + freeBond'[p]
          = fxrp[p] + (balances[p].armed - balances[p].committed) + freeBond[p]
  <2> TAKE p \in Parties
  <2>1. PICK n \in Int : n = balances[p].armed - balances[p].committed
    BY ClaimTypes
  <2>2. fxrp'[p] \in Nat /\ freeBond'[p] \in Nat
    BY AnyInv, AccountTypes DEF AnyNext, Inv, TypeOK, LedgerTypeOK
  <2>3. fxrp'[p] + n + freeBond'[p] = fxrp[p] + n + freeBond[p]
    BY <1>4, <2>2, ClaimTypes
  <2> QED
    BY <1>3, <2>1, <2>3
<1>6. Claims' = Claims
  BY <1>5, ClaimsSame
<1> QED
  BY <1>3, <1>6, DealsSame DEF Promise!settlementVars

\* The owner's steps are about keys, addresses and the pause.
LEMMA OwnerMaps ==
  ASSUME OwnerStep
  PROVE  UNCHANGED Promise!settlementVars
<1>1. UNCHANGED <<now, fxrp, freeBond, balances, matches, payments, usedTxId>>
  BY DEF OwnerStep, setTeeSigner, setFeeTreasury, setLockPaused, setEscrow, Unescrowed,
         ledgerVars, escrowVars, worldVars
<1>2. Claims' = Claims
  BY <1>1 DEF Claims, Available
<1> QED
  BY <1>1, <1>2, DealsSame DEF Promise!settlementVars

-----------------------------------------------------------------------------
(***************************************************************************)
(* The four steps that are not stutters of Settlement.                     *)
(***************************************************************************)
\* A function of the parties is known by its values.
LEMMA ClaimsAre ==
  ASSUME Inv, Inv'
  PROVE  /\ Claims \in [Parties -> Nat] /\ Claims' \in [Parties -> Nat]
         /\ \A p \in Parties :
              /\ Claims[p] = fxrp[p] + (balances[p].armed - balances[p].committed) + freeBond[p]
              /\ Claims'[p]
                   = fxrp'[p] + (balances'[p].armed - balances'[p].committed) + freeBond'[p]
<1>1. Claims \in [Parties -> Nat]
  BY ClaimTypes DEF Claims
<1>2. Claims' \in [Parties -> Nat]
  <2>1. \A p \in Parties :
          /\ fxrp'[p] \in Nat /\ freeBond'[p] \in Nat
          /\ balances'[p].armed \in Nat /\ balances'[p].committed \in Nat
          /\ balances'[p].committed <= balances'[p].armed
    BY AccountTypes DEF Inv, TypeOK, LedgerTypeOK, TakerBalance, CommittedIsOpen
  <2> QED
    BY <2>1 DEF Claims, Available
<1> QED
  BY <1>1, <1>2 DEF Claims, Available

\* A lock opens the deal: the amount leaves the taker's claim and the bond the
\* maker's, and no payment made so far carries the tag it takes.
LEMMA LockMaps ==
  ASSUME Inv, Inv', NEW mi \in MatchInstruction, NEW sig, NEW value, lock(mi, sig, value)
  PROVE  Promise!Open(mi.matchId)
<1> DEFINE id == mi.matchId
           t == mi.taker
           k == mi.maker
           a == mi.amountFxrp
           b == BondFor(mi.amountFxrp)
<1>1. /\ id \in MatchIds /\ t \in Parties /\ k \in Parties /\ a \in Nat /\ b \in Nat
      /\ matches[id].state = "None" /\ matches'[id] = NewMatch(mi)
      /\ \A j \in MatchIds \ {id} : matches'[j] = matches[j]
      /\ balances'[t].committed = balances[t].committed + a
      /\ balances'[t].armed = balances[t].armed
      /\ \A p \in Parties \ {t} : balances'[p] = balances[p]
  BY LockEffect DEF Inv
<1>2. /\ t # k /\ b <= freeBond[k] /\ a <= balances[t].armed - balances[t].committed
      /\ UNCHANGED <<fxrp, now, usedTxId, payments>>
  BY DEF lock, lockBond, WellFormed, Available, worldVars
<1>3. /\ freeBond'[k] = freeBond[k] - b
      /\ \A p \in Parties \ {k} : freeBond'[p] = freeBond[p]
  BY <1>1 DEF lock, lockBond, Inv, TypeOK, LedgerTypeOK
<1>4. /\ NewMatch(mi).state = "Locked" /\ NewMatch(mi).taker = t /\ NewMatch(mi).maker = k
      /\ NewMatch(mi).amountFxrp = a /\ NewMatch(mi).bondAmount = b
      /\ NewMatch(mi).destinationTag = nextDestinationTag
      /\ NewMatch(mi).paymentDeadline = now + PAYMENT_WINDOW
  BY DEF NewMatch, MatchWithTag
<1> HIDE DEF id, t, k, a, b
<1>5. /\ Claims' = [Claims EXCEPT ![t] = @ - a, ![k] = @ - b]
      /\ a <= Claims[t] /\ b <= Claims[k]
  <2>1. /\ Claims \in [Parties -> Nat] /\ Claims' \in [Parties -> Nat]
        /\ a <= Claims[t] /\ b <= Claims[k]
    BY <1>1, <1>2, ClaimsAre, ClaimTypes
  <2>2. /\ Claims'[t] = Claims[t] - a
        /\ Claims'[k] = Claims[k] - b
        /\ \A p \in Parties \ {t, k} : Claims'[p] = Claims[p]
    BY <1>1, <1>2, <1>3, ClaimsAre, ClaimTypes
  <2> QED
    BY <1>1, <1>2, <2>1, <2>2
<1>6. /\ Deals[id].phase = "none"
      /\ Deals'[id] \in Promise!Deal /\ Deals'[id].phase = "open"
      /\ Deals'[id].taker = t /\ Deals'[id].maker = k
      /\ Deals'[id].amount = a /\ Deals'[id].bond = b
  <2>1. now + PAYMENT_WINDOW \in Nat
    BY EscrowAssumption DEF PAYMENT_WINDOW, Inv, TypeOK
  <2>2. Deals[id].phase = "none"
    BY <1>1, Phases DEF Deals
  <2>3. Deals'[id] = [phase |-> "open", taker |-> t, maker |-> k, amount |-> a, bond |-> b,
                      payBy |-> now + PAYMENT_WINDOW]
    BY <1>1, <1>4, Phases DEF Deals
  <2> QED
    BY <1>1, <2>1, <2>2, <2>3 DEF Promise!Deal
<1>7. Promise!OnlyDeal(id)
  BY <1>1, <1>2 DEF Promise!OnlyDeal, Deals, Funded
<1>8. \A tx \in Funded'[id] : Promise!Funding(tx) = {} /\ tx \notin usedTxId
  <2> SUFFICES ASSUME NEW tx \in Funded'[id]
               PROVE  Promise!Funding(tx) = {} /\ tx \notin usedTxId
    OBVIOUS
  <2>1. tx \in TxIds /\ payments[tx].form.destinationTag = nextDestinationTag
    BY <1>1, <1>2, <1>4 DEF Funded, PaysFor
  <2>2. \A j \in MatchIds : matches[j].state # "None" =>
          /\ matches[j].destinationTag < nextDestinationTag
          /\ matches[j].destinationTag \in Nat /\ nextDestinationTag \in Nat
    BY DEF Inv, TypeOK, TagsFresh, Match
  <2>3. \A j \in MatchIds : matches[j].state # "None" => ~PaysFor(payments[tx], matches[j])
    BY <2>1, <2>2 DEF PaysFor
  <2>4. Promise!Funding(tx) = {}
    BY <2>3 DEF Promise!Funding, Funded
  <2>5. tx \notin usedTxId
    BY <2>3 DEF Inv, UsedFundsRelease, ReleasedMatches
  <2> QED
    BY <2>4, <2>5
<1>9. id = mi.matchId
  BY DEF id
<1> QED
  BY <1>2, <1>5, <1>6, <1>7, <1>8, <1>9 DEF Promise!Open

\* Uncommitting takes as much out of both counters of the taker.
LEMMA UncommitClaims ==
  ASSUME Inv, NEW t \in Parties, NEW a \in Nat, Uncommit(t, a)
  PROVE  \A p \in Parties :
           balances'[p].armed - balances'[p].committed = balances[p].armed - balances[p].committed
<1>1. /\ balances'[t].committed = balances[t].committed - a
      /\ balances'[t].armed = balances[t].armed - a
      /\ \A p \in Parties \ {t} : balances'[p] = balances[p]
  BY UncommitType DEF Inv
<1> QED
  BY <1>1, ClaimTypes

\* A settled match changes the phase of its deal, no other term, and what funds it.
LEMMA SettleDeal ==
  ASSUME Inv, NEW id \in MatchIds, NEW s \in {"Released", "Refunded"},
         matches[id].state = "Locked", matches' = [matches EXCEPT ![id].state = s],
         payments' = payments
  PROVE  /\ Deals[id].phase = "open"
         /\ Deals' = [Deals EXCEPT ![id].phase = Phase[s]]
         /\ Funded' = Funded
<1>1. /\ matches'[id].state = s
      /\ \A j \in MatchIds \ {id} : matches'[j] = matches[j]
      /\ \A j \in MatchIds :
           /\ matches'[j].taker = matches[j].taker /\ matches'[j].maker = matches[j].maker
           /\ matches'[j].amountFxrp = matches[j].amountFxrp
           /\ matches'[j].bondAmount = matches[j].bondAmount
           /\ matches'[j].paymentDeadline = matches[j].paymentDeadline
           /\ matches'[j].state # "None" <=> matches[j].state # "None"
  BY DEF Inv, TypeOK, Match
<1>2. Deals' = [Deals EXCEPT ![id].phase = Phase[s]]
  <2> DEFINE settled == [phase |-> Phase[s],
                         taker |-> matches[id].taker, maker |-> matches[id].maker,
                         amount |-> matches[id].amountFxrp, bond |-> matches[id].bondAmount,
                         payBy |-> matches[id].paymentDeadline]
  <2>1. Deals' = [j \in MatchIds |-> IF j = id THEN settled ELSE Deals[j]]
    <3> DEFINE dealOf(m) == [phase |-> Phase[m.state], taker |-> m.taker, maker |-> m.maker,
                             amount |-> m.amountFxrp, bond |-> m.bondAmount,
                             payBy |-> m.paymentDeadline]
    <3>1. Deals' = [j \in MatchIds |-> dealOf(matches'[j])]
      BY DEF Deals
    <3>2. dealOf(matches'[id]) = settled
      BY <1>1
    <3>3. \A j \in MatchIds \ {id} : dealOf(matches'[j]) = Deals[j]
      BY <1>1, DealOf
    <3> HIDE DEF dealOf, settled
    <3> QED
      BY <3>1, <3>2, <3>3
  <2>2. [Deals[id] EXCEPT !.phase = Phase[s]] = settled
    <3> DEFINE open == [phase |-> Phase[matches[id].state],
                        taker |-> matches[id].taker, maker |-> matches[id].maker,
                        amount |-> matches[id].amountFxrp, bond |-> matches[id].bondAmount,
                        payBy |-> matches[id].paymentDeadline]
    <3>1. Deals[id] = open
      BY DealOf
    <3>2. [open EXCEPT !.phase = Phase[s]] = settled
      OBVIOUS
    <3> HIDE DEF open, settled
    <3> QED
      BY <3>1, <3>2, Zenon
  <2>3. Deals = [j \in MatchIds |-> Deals[j]]
    BY DEF Deals
  <2> HIDE DEF settled
  <2> QED
    BY <2>1, <2>2, <2>3, Zenon
<1>3. \A j \in MatchIds, tx \in TxIds :
        PaysFor(payments[tx], matches'[j]) <=> PaysFor(payments[tx], matches[j])
  BY SettleTerms DEF MatchState
<1>4. Funded' = Funded
  BY <1>1, <1>3 DEF Funded
<1> QED
  BY <1>2, <1>4, Phases DEF Deals

\* A release delivers: the maker's claim grows by the amount and the bond, and the
\* payment it was proved with is one that funds the deal.
LEMMA ReleaseMaps ==
  ASSUME Inv, Inv', NEW id \in MatchIds, NEW tx \in TxIds, NEW o, release(id, tx, o)
  PROVE  Promise!Deliver(id, tx)
<1>1. /\ matches[id].state = "Locked"
      /\ matches' = [matches EXCEPT ![id].state = "Released"]
      /\ Uncommit(matches[id].taker, matches[id].amountFxrp)
      /\ freeBond' = [freeBond EXCEPT ![lockedBonds[id].maker] = @ + lockedBonds[id].amount]
      /\ fxrp' = Moved(fxrp, EscrowAddr, matches[id].maker, matches[id].amountFxrp)
      /\ matches[id].amountFxrp <= fxrp[EscrowAddr]
      /\ usedTxId' = usedTxId \cup {tx} /\ tx \notin usedTxId
      /\ UNCHANGED <<now, payments>>
      /\ payments[tx].made /\ PaysFor(payments[tx], matches[id])
  BY AccountTypes
     DEF release, ProofAccepted, releaseBond, worldVars, CanPay, Inv, TypeOK, LedgerTypeOK
<1>2. PICK k \in Parties, t \in Parties, a \in Nat, b \in Nat :
        /\ k = matches[id].maker /\ t = matches[id].taker
        /\ a = matches[id].amountFxrp /\ b = matches[id].bondAmount
        /\ lockedBonds[id].maker = k /\ lockedBonds[id].amount = b
  BY <1>1 DEF Inv, BondBacksMatch, TypeOK, Match
<1>3. /\ fxrp'[k] = fxrp[k] + a /\ \A p \in Parties \ {k} : fxrp'[p] = fxrp[p]
      /\ freeBond'[k] = freeBond[k] + b /\ \A p \in Parties \ {k} : freeBond'[p] = freeBond[p]
  <2>1. fxrp \in [Accounts -> Nat] /\ freeBond \in [Parties -> Nat]
    BY DEF Inv, TypeOK, LedgerTypeOK
  <2>2. fxrp' = Moved(fxrp, EscrowAddr, k, a) /\ a <= fxrp[EscrowAddr]
    BY <1>1, <1>2
  <2>3. freeBond' = [freeBond EXCEPT ![k] = @ + b]
    BY <1>1, <1>2
  <2> QED
    BY <2>1, <2>2, <2>3, MovedType, AccountTypes
<1>4. \A p \in Parties :
        balances'[p].armed - balances'[p].committed = balances[p].armed - balances[p].committed
  BY <1>1, <1>2, UncommitClaims
<1>5. Claims' = [Claims EXCEPT ![k] = @ + a + b]
  <2>1. Claims \in [Parties -> Nat] /\ Claims' \in [Parties -> Nat]
    BY ClaimsAre
  <2>2. Claims'[k] = Claims[k] + a + b /\ \A p \in Parties \ {k} : Claims'[p] = Claims[p]
    BY <1>3, <1>4, ClaimsAre, ClaimTypes
  <2> QED
    BY <2>1, <2>2
<1>6. /\ Deals[id].phase = "open" /\ Funded' = Funded
      /\ Deals' = [Deals EXCEPT ![id].phase = "delivered"]
  BY <1>1, SettleDeal, Phases
<1>7. Deals[id].maker = k /\ Deals[id].amount = a /\ Deals[id].bond = b
  BY <1>2 DEF Deals
<1>8. tx \in Funded[id]
  BY <1>1 DEF Funded
<1> QED
  BY <1>1, <1>5, <1>6, <1>7, <1>8 DEF Promise!Deliver

\* A refund returns: the taker's claim grows by the same, after the last moment to pay,
\* the attestation budget and the grace.
LEMMA RefundMaps ==
  ASSUME Inv, Inv', DeadlinesApart, NEW id \in MatchIds, refund(id)
  PROVE  Promise!Return(id)
<1>1. /\ matches[id].state = "Locked"
      /\ matches' = [matches EXCEPT ![id].state = "Refunded"]
      /\ Uncommit(matches[id].taker, matches[id].amountFxrp)
      /\ fxrp' = Moved(Moved(fxrp, LedgerAddr, matches[id].taker, lockedBonds[id].amount),
                       EscrowAddr, matches[id].taker, matches[id].amountFxrp)
      /\ CanPay(LedgerAddr, lockedBonds[id].amount) /\ CanPay(EscrowAddr, matches[id].amountFxrp)
      /\ UNCHANGED <<now, payments, usedTxId, freeBond>>
      /\ now > matches[id].refundAfter + REFUND_GRACE
  BY DEF refund, slashBond, worldVars
<1>2. PICK t \in Parties, a \in Nat, b \in Nat :
        /\ t = matches[id].taker /\ a = matches[id].amountFxrp /\ b = matches[id].bondAmount
        /\ lockedBonds[id].amount = b
  BY <1>1 DEF Inv, BondBacksMatch, TypeOK, Match
<1>3. fxrp'[t] = fxrp[t] + b + a /\ \A p \in Parties \ {t} : fxrp'[p] = fxrp[p]
  BY <1>1, <1>2, RefundMoves DEF Inv
<1>4. \A p \in Parties :
        balances'[p].armed - balances'[p].committed = balances[p].armed - balances[p].committed
  BY <1>1, <1>2, UncommitClaims
<1>5. Claims' = [Claims EXCEPT ![t] = @ + a + b]
  <2>1. Claims \in [Parties -> Nat] /\ Claims' \in [Parties -> Nat]
    BY ClaimsAre
  <2>2. Claims'[t] = Claims[t] + a + b /\ \A p \in Parties \ {t} : Claims'[p] = Claims[p]
    BY <1>1, <1>3, <1>4, ClaimsAre, ClaimTypes
  <2> QED
    BY <2>1, <2>2
<1>6. /\ Deals[id].phase = "open" /\ Funded' = Funded
      /\ Deals' = [Deals EXCEPT ![id].phase = "returned"]
  BY <1>1, SettleDeal, Phases
<1>7. Deals[id].taker = t /\ Deals[id].amount = a /\ Deals[id].bond = b
  BY <1>2 DEF Deals
<1>8. now > Deals[id].payBy + (ATTESTATION_BUDGET + REFUND_GRACE)
  <2>1. Deals[id].payBy = matches[id].paymentDeadline
    BY DEF Deals
  <2>2. matches[id].refundAfter = matches[id].paymentDeadline + ATTESTATION_BUDGET
    BY <1>1 DEF DeadlinesApart
  <2>3. /\ matches[id].paymentDeadline \in Nat /\ now \in Nat
        /\ ATTESTATION_BUDGET \in Nat /\ REFUND_GRACE \in Nat
    BY EscrowAssumption DEF Inv, TypeOK, Match
  <2> QED
    BY <1>1, <2>1, <2>2, <2>3
<1> QED
  BY <1>1, <1>5, <1>6, <1>7, <1>8 DEF Promise!Return

\* A payment on the XRP Ledger funds the one deal whose tag, address and terms it
\* meets, and otherwise nothing: it is of no other, and nobody has spent it.
LEMMA XrplPayMaps ==
  ASSUME Inv, NEW tx \in TxIds, NEW form, NEW ts, XrplPay(tx, form, ts)
  PROVE  \/ \E id \in MatchIds : Promise!Pay(id, tx)
         \/ UNCHANGED Promise!settlementVars
<1>1. /\ UNCHANGED <<now, fxrp, freeBond, balances, matches, usedTxId>>
      /\ ~payments[tx].made /\ payments'[tx].made
      /\ \A x \in TxIds \ {tx} : payments'[x] = payments[x]
  BY DEF XrplPay, ledgerVars, escrowVars, Inv, TypeOK
<1>2. Claims' = Claims /\ Deals' = Deals
  BY <1>1 DEF Claims, Available, Deals
<1>3. Promise!Funding(tx) = {} /\ tx \notin usedTxId
  BY <1>1 DEF Promise!Funding, Funded, Inv, UsedFundsRelease
<1>4. CASE \A id \in MatchIds : matches[id].state # "None" => ~PaysFor(payments'[tx], matches[id])
  <2>1. Funded' = Funded
    BY <1>1, <1>4 DEF Funded
  <2> QED
    BY <1>1, <1>2, <2>1 DEF Promise!settlementVars
<1>5. CASE \E id \in MatchIds : matches[id].state # "None" /\ PaysFor(payments'[tx], matches[id])
  <2>1. PICK id \in MatchIds : matches[id].state # "None" /\ PaysFor(payments'[tx], matches[id])
    BY <1>5
  <2>2. \A j \in MatchIds \ {id} :
          matches[j].state # "None" => ~PaysFor(payments'[tx], matches[j])
    BY <2>1 DEF PaysFor, Inv, TagsFresh
  <2>3. Funded' = [Funded EXCEPT ![id] = @ \cup {tx}]
    <3>1. Funded'[id] = Funded[id] \cup {tx}
      BY <1>1, <2>1 DEF Funded
    <3>2. \A j \in MatchIds \ {id} : Funded'[j] = Funded[j]
      BY <1>1, <2>2 DEF Funded
    <3>3. /\ Funded = [j \in MatchIds |-> Funded[j]]
          /\ Funded' = [j \in MatchIds |-> Funded'[j]]
      BY DEF Funded
    <3> QED
      BY <3>1, <3>2, <3>3
  <2>4. Deals[id].phase # "none"
    BY <2>1 DEF Deals, Phase, Inv, TypeOK, Match, MatchState
  <2> QED
    BY <1>1, <1>2, <1>3, <2>3, <2>4 DEF Promise!Pay
<1> QED
  BY <1>4, <1>5

\* Of the other services only the clock is seen.
LEMMA WorldMaps ==
  ASSUME Inv, AnyWorld
  PROVE  Promise!SNext \/ UNCHANGED Promise!settlementVars
<1>1. CASE Tick
  <2>1. /\ now' > now
        /\ UNCHANGED <<fxrp, freeBond, balances, matches, payments, usedTxId>>
    BY <1>1 DEF Tick, ledgerVars, escrowVars, worldVars, Inv, TypeOK
  <2>2. Claims' = Claims
    BY <2>1 DEF Claims, Available
  <2>3. Promise!Elapse
    BY <2>1, <2>2, DealsSame DEF Promise!Elapse
  <2> QED
    BY <2>3 DEF Promise!SNext
<1>2. CASE \E tx \in TxIds, form \in PaymentForm, ts \in Nat : XrplPay(tx, form, ts)
  BY <1>2, XrplPayMaps DEF Promise!SNext
<1>3. CASE \/ \E mid \in Nat : OracleUpdate(mid)
           \/ \E tx \in TxIds, o \in Escrows : FdcAttest(tx, o)
  <2>1. UNCHANGED <<now, fxrp, freeBond, balances, matches, payments, usedTxId>>
    BY <1>3 DEF OracleUpdate, FdcAttest, ledgerVars, escrowVars
  <2>2. Claims' = Claims
    BY <2>1 DEF Claims, Available
  <2> QED
    BY <2>1, <2>2, DealsSame DEF Promise!settlementVars
<1> QED
  BY <1>1, <1>2, <1>3 DEF AnyWorld

-----------------------------------------------------------------------------
(***************************************************************************)
(* The refinement.                                                         *)
(***************************************************************************)
\* Every step is a step of Settlement or changes nothing there, whatever its inputs.
LEMMA StepMaps ==
  ASSUME Inv, Inv', DeadlinesApart, AnyNext \/ UNCHANGED vars
  PROVE  Promise!SNext \/ UNCHANGED Promise!settlementVars
<1>1. CASE AnyTaker
  BY <1>1, TakerMaps
<1>2. CASE AnyMaker
  BY <1>2, MakerMaps
<1>3. CASE AnyLock
  <2>1. PICK mi \in MatchInstruction, sig \in Signers \cup {Nobody, Malformed},
             value \in Nat : lock(mi, sig, value)
    BY <1>3 DEF AnyLock
  <2>2. Promise!Open(mi.matchId) /\ mi.matchId \in MatchIds
    BY <2>1, LockMaps, InstructionTypes
  <2> QED
    BY <2>2 DEF Promise!SNext
<1>4. CASE ReleaseStep
  BY <1>4, ReleaseMaps DEF ReleaseStep, Promise!SNext
<1>5. CASE RefundStep
  BY <1>5, RefundMaps DEF RefundStep, Promise!SNext
<1>6. CASE OwnerStep
  BY <1>6, OwnerMaps
<1>7. CASE AnyWorld
  BY <1>7, WorldMaps
<1>8. CASE UNCHANGED vars
  <2>1. UNCHANGED <<now, fxrp, freeBond, balances, matches, payments, usedTxId>>
    BY <1>8 DEF vars, ledgerVars, escrowVars, worldVars
  <2>2. Claims' = Claims
    BY <2>1 DEF Claims, Available
  <2> QED
    BY <2>1, <2>2, DealsSame DEF Promise!settlementVars
<1> QED
  BY <1>1, <1>2, <1>3, <1>4, <1>5, <1>6, <1>7, <1>8 DEF AnyNext

\* The invariants a step needs, it keeps.
PromiseInv == Inv /\ DeadlinesApart

LEMMA PromiseInit == Init => PromiseInv /\ Promise!SInit
<1>1. Init => DeadlinesApart
  BY DEF Init, DeadlinesApart, NoMatch
<1> QED
  BY <1>1, InitInv, InitMaps DEF PromiseInv

LEMMA PromiseStep ==
  ASSUME PromiseInv, AnyNext \/ UNCHANGED vars
  PROVE  /\ PromiseInv'
         /\ Promise!SNext \/ UNCHANGED Promise!settlementVars
         /\ [NoHastyRefund]_vars
<1>1. [NoHastyRefund]_vars
  BY HonestMakerStep DEF PromiseInv, NoHastyRefund
<1> QED
  BY <1>1, AnyInv, DeadlinesStep, StepMaps DEF PromiseInv

\* The two contracts keep the promise of Settlement: a claim changes only when a
\* deal opens, is delivered against a payment of its own, or is returned late.
THEOREM EscrowImplementsSettlement == Spec => ImplementsSettlement
<1>1. PromiseInv /\ [Next]_vars => PromiseInv' /\ [Promise!SNext]_(Promise!settlementVars)
  BY NextIsAny, PromiseStep DEF PromiseInv, Inv
<1> QED
  BY <1>1, PromiseInit, PTL DEF Spec, ImplementsSettlement, Promise!SSpec
=============================================================================
