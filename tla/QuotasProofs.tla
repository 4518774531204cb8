---------------------------- MODULE QuotasProofs ----------------------------
(***************************************************************************)
(* What the server gives away, for any limits, budgets and numbers of      *)
(* requests in flight: the rolling quotas, the faucet and gas claims, and  *)
(* the gas the desk keeps.                                                 *)
(***************************************************************************)
EXTENDS Quotas, FiniteSetTheorems, TLAPS

-----------------------------------------------------------------------------
(***************************************************************************)
(* Types.                                                                  *)
(***************************************************************************)
Claim == [scope : Scopes, address : Addresses, at : Nat, n : Nat]

\* QuotasTypeOK without the lists of ratelimit.ts.
ClaimTypeOK ==
  /\ now \in Nat
  /\ lastClaim \in [Scopes -> [Addresses -> Nat \cup {Never}]]
  /\ gasSpentToday \in 0..GAS_DAILY_BUDGET /\ gasBudgetDay \in Nat \cup {Never}
  /\ gas \in [Addresses -> Nat] /\ ownerGas \in Nat /\ ownerFxrp \in Nat /\ settled \in Nat
  /\ calls \in [Calls -> Call]
  /\ claims \subseteq Claim /\ IsFiniteSet(claims)

claimState == <<now, claimVars, chainVars, calls>>

\* The day of a time is a natural number and never goes back.
LEMMA DayTypes ==
  \A t \in Nat : t \div DAY \in Nat /\ t \div DAY <= (t + 1) \div DAY
<1>1. \A t \in Nat, d \in Nat \ {0} : t \div d \in Nat /\ t \div d <= (t + 1) \div d
  OBVIOUS
<1> QED
  BY <1>1, QuotasAssumption

\* A route that is not in flight is a call.
LEMMA IdleType == IdleCall \in Call
<1>1. (CHOOSE a \in Addresses : TRUE) \in Addresses
  BY QuotasAssumption
<1> QED
  BY <1>1 DEF IdleCall, Call, Scopes

\* Whatever a route does to its own entry leaves every entry a call.
LEMMA CallTypes ==
  ASSUME calls \in [Calls -> Call], NEW c \in Calls
  PROVE  /\ Done(c) => calls' \in [Calls -> Call]
         /\ \A pc \in {"owner", "claim", "reserve", "send"} :
              /\ Goto(c, pc) => calls' \in [Calls -> Call]
              /\ \A s \in Scopes, a \in Addresses : Begin(c, pc, s, a) => calls' \in [Calls -> Call]
BY IdleType DEF Done, Goto, Begin, Call

\* The count of an address's claims is a number.
LEMMA NewClaimTypes ==
  ASSUME ClaimTypeOK, NEW s \in Scopes, NEW a \in Addresses
  PROVE  /\ NewClaim(s, a) \in Claim /\ IsFiniteSet(claims \cup {NewClaim(s, a)})
         /\ NewClaim(s, a).scope = s /\ NewClaim(s, a).address = a /\ NewClaim(s, a).at = now
<1> DEFINE earlier == {c \in claims : c.scope = s /\ c.address = a}
<1>1. earlier \in SUBSET claims /\ IsFiniteSet(claims) /\ now \in Nat
  BY DEF ClaimTypeOK
<1>2. Cardinality(earlier) \in Nat
  BY <1>1, FS_Subset, FS_CardinalityType
<1>3. IsFiniteSet(claims \cup {NewClaim(s, a)})
  BY <1>1, FS_AddElement
<1> QED
  BY <1>1, <1>2, <1>3 DEF NewClaim, Claim

\* A recorded claim is the last of its address at its faucet.
LEMMA RecordTypes ==
  ASSUME ClaimTypeOK, NEW s \in Scopes, NEW a \in Addresses, RecordClaim(s, a)
  PROVE  /\ lastClaim' \in [Scopes -> [Addresses -> Nat \cup {Never}]]
         /\ claims' \subseteq Claim /\ IsFiniteSet(claims')
         /\ lastClaim'[s][a] = now
         /\ \A t \in Scopes, b \in Addresses :
              <<t, b>> # <<s, a>> => lastClaim'[t][b] = lastClaim[t][b]
BY NewClaimTypes DEF ClaimTypeOK, RecordClaim

\* The counter of the day stays within the budget: zero on a new day, and a drip is
\* added only where it fits.
LEMMA SpentTypes ==
  ASSUME ClaimTypeOK
  PROVE  /\ SpentToday \in 0..GAS_DAILY_BUDGET
         /\ ~BudgetExhausted => SpentToday + GAS_DRIP \in 0..GAS_DAILY_BUDGET
         /\ now \div DAY \in Nat
<1>1. now \div DAY \in Nat
  BY DayTypes DEF ClaimTypeOK
<1>2. GAS_DAILY_BUDGET \in Nat /\ GAS_DRIP \in Nat
  BY QuotasAssumption
<1>3. SpentToday \in 0..GAS_DAILY_BUDGET
  BY <1>2 DEF ClaimTypeOK, SpentToday
<1>4. ~BudgetExhausted => SpentToday + GAS_DRIP \in 0..GAS_DAILY_BUDGET
  BY <1>2, <1>3 DEF BudgetExhausted
<1> QED
  BY <1>1, <1>3, <1>4

-----------------------------------------------------------------------------
(***************************************************************************)
(* The steps, by what they do to claims, balances and calls.               *)
(***************************************************************************)
\* A route starts.
BeginStep ==
  \E c \in Calls, pc \in {"owner", "claim"}, s \in Scopes, a \in Addresses :
    /\ Begin(c, pc, s, a) /\ (s = "gas" <=> pc = "owner")
    /\ UNCHANGED <<now, claimVars, chainVars>>

\* A route goes on, or ends, on what it has read.
ReadStep ==
  \E c \in Calls : (readOwnerGas(c) \/ readReserve(c) \/ fail(c))

\* A route asks for a claim.
ClaimStep ==
  \E c \in Calls : claimGas(c) \/ claimFaucet(c)

\* Gas or FXRP changes hands.
SpendStep ==
  \/ \E c \in Calls : sendGas(c) \/ sendFxrp(c)
  \/ \E a \in Addresses : visitorSpends(a)
  \/ deskSpends

\* There are no other steps but the metered routes and the clock.
LEMMA Steps ==
  ASSUME [QuotasNext]_vars
  PROVE  BeginStep \/ ReadStep \/ ClaimStep \/ SpendStep \/ Tick \/ UNCHANGED claimState
<1>1. CASE \E k \in Kinds, i \in Ips : meteredRequest(k, i)
  BY <1>1 DEF meteredRequest, claimState
<1>2. CASE \E c \in Calls, a \in Askers["gas"] : gasRequest(c, a)
  BY <1>2, QuotasAssumption DEF gasRequest, BeginStep, Scopes
<1>3. CASE \E c \in Calls, a \in Askers["wallet"] : walletFaucetRequest(c, a)
  BY <1>3, QuotasAssumption DEF walletFaucetRequest, BeginStep, Scopes
<1>4. CASE \E c \in Calls, a \in Askers["maker"], i \in Ips : makerFaucetRequest(c, i, a)
  BY <1>4, QuotasAssumption DEF makerFaucetRequest, BeginStep, Scopes
<1>5. CASE UNCHANGED vars
  BY <1>5 DEF vars, claimState, claimVars, chainVars
<1> QED
  BY <1>1, <1>2, <1>3, <1>4, <1>5 DEF QuotasNext, ReadStep, ClaimStep, SpendStep

\* Every step keeps the types.
LEMMA TypesStep == ClaimTypeOK /\ [QuotasNext]_vars => ClaimTypeOK'
<1> SUFFICES ASSUME ClaimTypeOK, [QuotasNext]_vars PROVE ClaimTypeOK'
  OBVIOUS
<1>0. calls \in [Calls -> Call]
  BY DEF ClaimTypeOK
<1>1. CASE BeginStep
  <2>1. calls' \in [Calls -> Call]
    BY <1>0, <1>1, CallTypes DEF BeginStep
  <2> QED
    BY <1>1, <2>1 DEF BeginStep, ClaimTypeOK, claimVars, chainVars
<1>2. CASE ReadStep
  <2>1. calls' \in [Calls -> Call]
    BY <1>0, <1>2, CallTypes DEF ReadStep, readOwnerGas, readReserve, fail
  <2> QED
    BY <1>2, <2>1
       DEF ReadStep, readOwnerGas, readReserve, fail, ClaimTypeOK, claimVars, chainVars
<1>3. CASE ClaimStep
  <2>1. PICK c \in Calls : claimGas(c) \/ claimFaucet(c)
    BY <1>3 DEF ClaimStep
  <2>2. calls' \in [Calls -> Call]
    BY <1>0, <2>1, CallTypes DEF claimGas, claimFaucet
  <2>3. calls[c].address \in Addresses /\ calls[c].scope \in Scopes /\ "gas" \in Scopes
    BY <1>0 DEF Call, Scopes
  <2>4. CASE UNCHANGED claimVars
    BY <2>1, <2>2, <2>4 DEF claimGas, claimFaucet, ClaimTypeOK, claimVars, chainVars
  <2>5. CASE checkAndRecordFaucetClaim(calls[c].address, calls[c].scope)
    BY <2>1, <2>2, <2>3, <2>5, RecordTypes
       DEF claimGas, claimFaucet, checkAndRecordFaucetClaim, ClaimTypeOK, chainVars
  <2>6. CASE checkAndRecordGasClaim(calls[c].address)
    BY <2>1, <2>2, <2>3, <2>6, RecordTypes, SpentTypes
       DEF claimGas, claimFaucet, checkAndRecordGasClaim, ClaimTypeOK, chainVars
  <2>7. CASE /\ gasBudgetDay' = now \div DAY /\ gasSpentToday' = SpentToday
             /\ UNCHANGED <<lastClaim, claims>>
    BY <2>1, <2>2, <2>7, SpentTypes DEF claimGas, claimFaucet, ClaimTypeOK, chainVars
  <2> QED
    BY <2>1, <2>4, <2>5, <2>6, <2>7 DEF claimGas, claimFaucet, refuseGasClaim
<1>4. CASE SpendStep
  <2>1. CASE \E c \in Calls : sendGas(c) \/ sendFxrp(c)
    <3>1. PICK c \in Calls : sendGas(c) \/ sendFxrp(c)
      BY <2>1
    <3>2. calls' \in [Calls -> Call] /\ calls[c].address \in Addresses
      BY <1>0, <3>1, CallTypes DEF sendGas, sendFxrp, Call
    <3> QED
      BY <3>1, <3>2, QuotasAssumption DEF sendGas, sendFxrp, ClaimTypeOK, claimVars
  <2>2. CASE (\E a \in Addresses : visitorSpends(a)) \/ deskSpends
    BY <2>2 DEF visitorSpends, deskSpends, ClaimTypeOK, claimVars
  <2> QED
    BY <1>4, <2>1, <2>2 DEF SpendStep
<1>5. CASE Tick
  BY <1>5 DEF Tick, ClaimTypeOK, claimVars, chainVars
<1>6. CASE UNCHANGED claimState
  BY <1>6 DEF claimState, ClaimTypeOK, claimVars, chainVars
<1> QED
  BY <1>1, <1>2, <1>3, <1>4, <1>5, <1>6, Steps

\* The types hold in every reachable state.
LEMMA TypesAlways == QuotasSpec => []ClaimTypeOK
<1>1. QuotasInit => ClaimTypeOK
  BY QuotasAssumption, IdleType, FS_EmptySet DEF QuotasInit, ClaimTypeOK, Scopes
<1> QED
  BY <1>1, TypesStep, PTL DEF QuotasSpec

-----------------------------------------------------------------------------
(***************************************************************************)
(* The reserve.  The bound alone is not kept by sendGas: what makes it so  *)
(* is that the calls that have seen enough gas and not yet sent it are at  *)
(* most as many as there are calls, and that when the last of them looked, *)
(* the owner held the reserve and one drip.                                *)
(***************************************************************************)
\* The requests for gas that have read the owner's balance and not yet sent.
Promised == {c \in Calls : calls[c].scope = "gas" /\ calls[c].pc \in {"claim", "send"}}

\* Only a request for gas reads the owner's balance, and only one for FXRP the reserve.
RoutesApart ==
  \A c \in Calls : /\ calls[c].pc = "owner" => calls[c].scope = "gas"
                   /\ calls[c].pc = "reserve" => calls[c].scope # "gas"

ReserveInv ==
  /\ RoutesApart
  /\ ownerGas + settled + GAS_DRIP * (Cardinality(Calls) - 1)
       >= GAS_OWNER_RESERVE + GAS_DRIP * Cardinality(Promised)

\* The promised requests are some of finitely many.
LEMMA PromisedTypes ==
  /\ Cardinality(Calls) \in Nat \ {0}
  /\ \A S \in SUBSET Calls :
       IsFiniteSet(S) /\ Cardinality(S) \in Nat /\ Cardinality(S) <= Cardinality(Calls)
<1>1. Cardinality(Calls) \in Nat /\ Cardinality(Calls) # 0
  BY QuotasAssumption, FS_CardinalityType, FS_EmptySet
<1> QED
  BY <1>1, QuotasAssumption, FS_Subset, FS_CardinalityType

\* A request that stops being promised makes them one fewer.
LEMMA OneFewer ==
  ASSUME NEW S \in SUBSET Calls, NEW c \in S
  PROVE  Cardinality(S \ {c}) = Cardinality(S) - 1
BY PromisedTypes, FS_RemoveElement

\* While as many are promised or fewer, and owner and desk hold and have spent the same
\* in all, the reserve is no worse off.
LEMMA FewerPromised ==
  ASSUME ClaimTypeOK, ReserveInv, Promised' \subseteq Promised,
         ownerGas' + settled' = ownerGas + settled
  PROVE  ownerGas' + settled' + GAS_DRIP * (Cardinality(Calls) - 1)
           >= GAS_OWNER_RESERVE + GAS_DRIP * Cardinality(Promised')
<1>1. Cardinality(Promised') \in Nat /\ Cardinality(Promised) \in Nat
      /\ Cardinality(Promised') <= Cardinality(Promised)
  <2>1. Promised \in SUBSET Calls /\ Promised' \in SUBSET Calls
    BY DEF Promised
  <2>2. IsFiniteSet(Promised)
    BY <2>1, PromisedTypes
  <2>3. Cardinality(Promised') <= Cardinality(Promised)
    BY <2>2, FS_Subset
  <2> QED
    BY <2>1, <2>3, PromisedTypes
<1>2. \A d, m, n \in Nat : m <= n => d * m <= d * n /\ d * m \in Nat /\ d * n \in Nat
  OBVIOUS
<1>3. /\ GAS_DRIP \in Nat /\ GAS_OWNER_RESERVE \in Nat
      /\ GAS_DRIP * (Cardinality(Calls) - 1) \in Nat
  BY QuotasAssumption, PromisedTypes
<1>4. /\ GAS_DRIP * Cardinality(Promised') <= GAS_DRIP * Cardinality(Promised)
      /\ GAS_DRIP * Cardinality(Promised') \in Nat /\ GAS_DRIP * Cardinality(Promised) \in Nat
  BY <1>1, <1>2, <1>3
<1> HIDE DEF Promised
<1> QED
  BY <1>3, <1>4 DEF ReserveInv, ClaimTypeOK

\* A request that sees the reserve and one drip is promised; whoever was before it,
\* there are no more of them than calls.
LEMMA ReadKeepsReserve ==
  ASSUME ClaimTypeOK, ReserveInv, NEW c \in Calls, readOwnerGas(c) \/ readReserve(c) \/ fail(c)
  PROVE  ReserveInv'
<1>1. /\ calls \in [Calls -> Call] /\ UNCHANGED <<ownerGas, settled>>
      /\ \A d \in Calls \ {c} : calls'[d] = calls[d]
  BY DEF ClaimTypeOK, readOwnerGas, readReserve, fail, chainVars, Done, Goto
<1>2. RoutesApart'
  BY <1>1 DEF ReserveInv, RoutesApart, readOwnerGas, readReserve, fail, Done, Goto, IdleCall, Call
<1>3. CASE Promised' \subseteq Promised
  BY <1>1, <1>2, <1>3, FewerPromised DEF ReserveInv, ClaimTypeOK
<1>4. CASE ownerGas - GAS_DRIP >= GAS_OWNER_RESERVE
  <2>1. Cardinality(Promised') \in Nat /\ Cardinality(Promised') <= Cardinality(Calls)
    BY PromisedTypes DEF Promised
  <2>2. \A d, m, n \in Nat : m <= n => d * m <= d * (n - 1) + d /\ d * m \in Nat /\ d * (n - 1) \in Int
    <3>1. \A d, m, n \in Nat : m <= n => d * m <= d * n
      OBVIOUS
    <3>2. \A d, n \in Nat : d * n = d * (n - 1) + d
      OBVIOUS
    <3> QED
      BY <3>1, <3>2
  <2>3. GAS_DRIP * Cardinality(Promised') <= GAS_DRIP * (Cardinality(Calls) - 1) + GAS_DRIP
        /\ GAS_DRIP * Cardinality(Promised') \in Nat
        /\ GAS_DRIP * (Cardinality(Calls) - 1) \in Int
    BY <2>1, <2>2, PromisedTypes, QuotasAssumption
  <2> HIDE DEF Promised
  <2>4. ownerGas' + settled' + GAS_DRIP * (Cardinality(Calls) - 1)
          >= GAS_OWNER_RESERVE + GAS_DRIP * Cardinality(Promised')
    BY <1>1, <1>4, <2>3, QuotasAssumption DEF ClaimTypeOK
  <2> QED
    BY <1>2, <2>4 DEF ReserveInv
<1>5. Promised' \subseteq Promised \/ ownerGas - GAS_DRIP >= GAS_OWNER_RESERVE
  <2>1. CASE readOwnerGas(c) /\ ownerGas - GAS_DRIP < GAS_OWNER_RESERVE
    BY <1>1, <2>1 DEF readOwnerGas, Done, IdleCall, Promised, Call
  <2>2. CASE readReserve(c) \/ fail(c)
    <3>1. c \notin Promised'
      BY <1>1, <2>2
         DEF readReserve, fail, Done, Goto, Promised, IdleCall, Call, ReserveInv, RoutesApart
    <3> QED
      BY <1>1, <3>1 DEF Promised
  <2>3. CASE readOwnerGas(c) /\ ~(ownerGas - GAS_DRIP < GAS_OWNER_RESERVE)
    BY <2>3, QuotasAssumption DEF ClaimTypeOK
  <2> QED
    BY <2>1, <2>2, <2>3
<1> QED
  BY <1>3, <1>4, <1>5

\* A drip leaves the balance and the promised requests together.
LEMMA SendKeepsReserve ==
  ASSUME ClaimTypeOK, ReserveInv, NEW c \in Calls, sendGas(c)
  PROVE  ReserveInv'
<1>1. /\ calls[c].pc = "send" /\ calls[c].scope = "gas"
      /\ calls' = [calls EXCEPT ![c] = IdleCall] /\ calls \in [Calls -> Call]
      /\ ownerGas' = ownerGas - GAS_DRIP /\ settled' = settled
  BY DEF sendGas, Done, ClaimTypeOK
<1>2. RoutesApart'
  BY <1>1 DEF ReserveInv, RoutesApart, IdleCall
<1>3. Promised' = Promised \ {c} /\ c \in Promised /\ Promised \in SUBSET Calls
  BY <1>1 DEF Promised, IdleCall
<1> HIDE DEF Promised
<1>4. Cardinality(Promised') = Cardinality(Promised) - 1
      /\ Cardinality(Promised) \in Nat /\ Cardinality(Promised') \in Nat
  BY <1>3, OneFewer, PromisedTypes
<1>5. \A d, n \in Nat : d * n = d * (n - 1) + d /\ d * n \in Nat
  OBVIOUS
<1>6. /\ GAS_DRIP * Cardinality(Promised) = GAS_DRIP * Cardinality(Promised') + GAS_DRIP
      /\ GAS_DRIP * Cardinality(Promised') \in Nat
  BY <1>4, <1>5, QuotasAssumption
<1>7. GAS_DRIP * (Cardinality(Calls) - 1) \in Nat /\ GAS_OWNER_RESERVE \in Nat /\ GAS_DRIP \in Nat
  BY PromisedTypes, QuotasAssumption
<1>8. ownerGas' + settled' + GAS_DRIP * (Cardinality(Calls) - 1)
        >= GAS_OWNER_RESERVE + GAS_DRIP * Cardinality(Promised')
  BY <1>1, <1>6, <1>7 DEF ReserveInv, ClaimTypeOK
<1> QED
  BY <1>2, <1>8 DEF ReserveInv

\* Every step keeps it.
LEMMA ReserveStep == ClaimTypeOK /\ ReserveInv /\ [QuotasNext]_vars => ReserveInv'
<1> SUFFICES ASSUME ClaimTypeOK, ReserveInv, [QuotasNext]_vars PROVE ReserveInv'
  OBVIOUS
<1>0. calls \in [Calls -> Call] /\ ownerGas \in Nat /\ settled \in Nat
  BY DEF ClaimTypeOK
<1>1. CASE BeginStep
  <2>1. PICK c \in Calls, pc \in {"owner", "claim"}, s \in Scopes, a \in Addresses :
          /\ calls' = [calls EXCEPT ![c] = [pc |-> pc, scope |-> s, address |-> a]]
          /\ s = "gas" <=> pc = "owner"
          /\ UNCHANGED <<ownerGas, settled>>
    BY <1>1 DEF BeginStep, Begin, chainVars
  <2>2. RoutesApart' /\ Promised' \subseteq Promised
    BY <1>0, <2>1 DEF ReserveInv, RoutesApart, Promised
  <2> QED
    BY <2>1, <2>2, FewerPromised DEF ReserveInv
<1>2. CASE ReadStep
  BY <1>2, ReadKeepsReserve DEF ReadStep
<1>3. CASE ClaimStep
  <2>1. PICK c \in Calls : claimGas(c) \/ claimFaucet(c)
    BY <1>3 DEF ClaimStep
  <2>2. UNCHANGED <<ownerGas, settled>>
    BY <2>1 DEF claimGas, claimFaucet, chainVars
  <2>3. RoutesApart' /\ Promised' \subseteq Promised
    BY <1>0, <2>1
       DEF claimGas, claimFaucet, Done, Goto, IdleCall, Call, ReserveInv, RoutesApart, Promised
  <2> QED
    BY <2>2, <2>3, FewerPromised DEF ReserveInv
<1>4. CASE \E c \in Calls : sendGas(c)
  BY <1>4, SendKeepsReserve
<1>5. CASE \E c \in Calls : sendFxrp(c)
  <2>1. PICK c \in Calls : sendFxrp(c)
    BY <1>5
  <2>2. RoutesApart' /\ Promised' \subseteq Promised /\ UNCHANGED <<ownerGas, settled>>
    BY <1>0, <2>1 DEF sendFxrp, Done, IdleCall, Call, ReserveInv, RoutesApart, Promised
  <2> QED
    BY <2>2, FewerPromised DEF ReserveInv
<1>6. CASE \/ \E a \in Addresses : visitorSpends(a)
           \/ deskSpends \/ Tick \/ UNCHANGED claimState
  <2>1. UNCHANGED calls /\ ownerGas' + settled' = ownerGas + settled
    BY <1>0, <1>6 DEF visitorSpends, deskSpends, Tick, claimState, chainVars
  <2>2. RoutesApart' /\ Promised' \subseteq Promised
    BY <2>1 DEF ReserveInv, RoutesApart, Promised
  <2> QED
    BY <2>1, <2>2, FewerPromised DEF ReserveInv
<1> QED
  BY <1>1, <1>2, <1>3, <1>4, <1>5, <1>6, Steps DEF SpendStep

\* However many requests for gas are in flight, drips cut into the gas the desk keeps
\* for settlements by at most one for every other request.
THEOREM ReserveBounded == QuotasSpec => []ReserveOvershootBounded
<1>1. QuotasInit => ReserveInv
  <2> SUFFICES ASSUME QuotasInit PROVE ReserveInv
    OBVIOUS
  <2>1. calls = [c \in Calls |-> IdleCall] /\ ownerGas = OwnerGas /\ settled = 0
    BY DEF QuotasInit
  <2>2. RoutesApart /\ Promised = {}
    BY <2>1 DEF RoutesApart, Promised, IdleCall
  <2>3. GAS_DRIP * Cardinality(Promised) = 0
    BY <2>2, FS_EmptySet, QuotasAssumption
  <2>4. GAS_DRIP * (Cardinality(Calls) - 1) \in Nat
    BY PromisedTypes, QuotasAssumption
  <2> QED
    BY <2>1, <2>2, <2>3, <2>4, QuotasAssumption DEF ReserveInv
<1>2. ClaimTypeOK /\ ReserveInv => ReserveOvershootBounded
  <2> SUFFICES ASSUME ClaimTypeOK, ReserveInv PROVE ReserveOvershootBounded
    OBVIOUS
  <2>1. Cardinality(Promised) \in Nat
    BY PromisedTypes DEF Promised
  <2>2. GAS_DRIP * Cardinality(Promised) \in Nat /\ GAS_DRIP * (Cardinality(Calls) - 1) \in Nat
    BY <2>1, PromisedTypes, QuotasAssumption
  <2> HIDE DEF Promised
  <2> QED
    BY <2>2, QuotasAssumption DEF ReserveInv, ReserveOvershootBounded, ClaimTypeOK
<1> QED
  BY <1>1, <1>2, ReserveStep, TypesAlways, PTL DEF QuotasSpec

-----------------------------------------------------------------------------
(***************************************************************************)
(* Claims.  The times the server remembers are those of the last claims,   *)
(* so that a claim it lets through is later than all before it, by enough. *)
(***************************************************************************)
Spaced ==
  \A c, d \in claims :
    (c # d /\ c.scope = d.scope /\ c.address = d.address /\ c.at <= d.at)
      => d.at - c.at >= CLAIM_GAP

\* What is remembered of an address at a faucet is its last claim there.
LastIsLatest ==
  /\ \A c \in claims : /\ lastClaim[c.scope][c.address] # Never
                        /\ c.at <= lastClaim[c.scope][c.address]
  /\ \A s \in Scopes, a \in Addresses : lastClaim[s][a] # Never =>
       /\ lastClaim[s][a] <= now
       /\ \E c \in claims : c.scope = s /\ c.address = a /\ c.at = lastClaim[s][a]

\* Claims change only where a claim is recorded.
LEMMA ClaimsChange ==
  ASSUME ClaimTypeOK, [QuotasNext]_vars
  PROVE  \/ UNCHANGED <<claims, lastClaim>> /\ now' >= now
         \/ \E s \in Scopes, a \in Addresses :
              ~RateLimited(s, a) /\ RecordClaim(s, a) /\ now' = now
<1>1. CASE ClaimStep
  <2>1. PICK c \in Calls : claimGas(c) \/ claimFaucet(c)
    BY <1>1 DEF ClaimStep
  <2>2. calls[c].address \in Addresses /\ calls[c].scope \in Scopes /\ "gas" \in Scopes
    BY DEF ClaimTypeOK, Call, Scopes
  <2>3. now' = now /\ now \in Nat
    BY <2>1 DEF claimGas, claimFaucet, ClaimTypeOK
  <2> QED
    BY <2>1, <2>2, <2>3
       DEF claimGas, claimFaucet, checkAndRecordGasClaim, checkAndRecordFaucetClaim,
           refuseGasClaim, claimVars
<1>2. CASE BeginStep \/ ReadStep \/ SpendStep \/ Tick \/ UNCHANGED claimState
  BY <1>2
     DEF BeginStep, ReadStep, SpendStep, Tick, claimState, readOwnerGas, readReserve, fail,
         sendGas, sendFxrp, visitorSpends, deskSpends, claimVars, ClaimTypeOK
<1> QED
  BY <1>1, <1>2, Steps

\* A claim let through is later than every earlier one of its address there by the gap.
LEMMA LetThrough ==
  ASSUME ClaimTypeOK, LastIsLatest, NEW s \in Scopes, NEW a \in Addresses, ~RateLimited(s, a),
         NEW c \in claims, c.scope = s, c.address = a
  PROVE  c.at + CLAIM_GAP <= now /\ c.at < now
<1>1. c.at \in Nat /\ now \in Nat /\ lastClaim[s][a] \in Nat \cup {Never} /\ CLAIM_GAP \in Nat \ {0}
  BY QuotasAssumption DEF ClaimTypeOK, Claim
<1>2. lastClaim[s][a] # Never /\ c.at <= lastClaim[s][a]
  BY DEF LastIsLatest
<1>3. now - lastClaim[s][a] >= CLAIM_GAP
  BY <1>1, <1>2 DEF RateLimited
<1> QED
  BY <1>1, <1>2, <1>3

\* Both facts are kept.
LEMMA SpacedStep ==
  ClaimTypeOK /\ LastIsLatest /\ Spaced /\ [QuotasNext]_vars => LastIsLatest' /\ Spaced'
<1> SUFFICES ASSUME ClaimTypeOK, LastIsLatest, Spaced, [QuotasNext]_vars
             PROVE  LastIsLatest' /\ Spaced'
  OBVIOUS
<1>1. CASE UNCHANGED <<claims, lastClaim>> /\ now' >= now
  <2>1. \A s \in Scopes, a \in Addresses : lastClaim[s][a] \in Nat \cup {Never}
    BY DEF ClaimTypeOK
  <2>2. now \in Nat /\ now' \in Nat
    BY TypesStep DEF ClaimTypeOK
  <2>3. LastIsLatest'
    BY <1>1, <2>1, <2>2 DEF LastIsLatest
  <2> QED
    BY <1>1, <2>3 DEF Spaced
<1>2. CASE \E s \in Scopes, a \in Addresses :
             ~RateLimited(s, a) /\ RecordClaim(s, a) /\ now' = now
  <2>1. PICK s \in Scopes, a \in Addresses :
               ~RateLimited(s, a) /\ RecordClaim(s, a) /\ now' = now
    BY <1>2
  <2> DEFINE new == NewClaim(s, a)
  <2>2. /\ claims' = claims \cup {new} /\ claims \subseteq Claim /\ now \in Nat
        /\ new.scope = s /\ new.address = a /\ new.at = now
    BY <2>1, NewClaimTypes DEF RecordClaim, ClaimTypeOK
  <2> HIDE DEF new
  <2>3. /\ lastClaim'[s][a] = now
        /\ \A t \in Scopes, b \in Addresses :
             <<t, b>> # <<s, a>> => lastClaim'[t][b] = lastClaim[t][b]
    BY <2>1, RecordTypes
  <2>4. \A c \in claims : /\ c.scope \in Scopes /\ c.address \in Addresses /\ c.at \in Nat
                          /\ c.scope = s /\ c.address = a =>
                               c.at + CLAIM_GAP <= now /\ c.at < now
    BY <2>1, <2>2, LetThrough DEF Claim
  <2>5. LastIsLatest'
    <3>1. \A c \in claims' : /\ lastClaim'[c.scope][c.address] # Never
                             /\ c.at <= lastClaim'[c.scope][c.address]
      BY <2>2, <2>3, <2>4 DEF LastIsLatest, Never
    <3>2. \A t \in Scopes, b \in Addresses : lastClaim'[t][b] # Never =>
            /\ lastClaim'[t][b] <= now'
            /\ \E c \in claims' : c.scope = t /\ c.address = b /\ c.at = lastClaim'[t][b]
      <4> SUFFICES ASSUME NEW t \in Scopes, NEW b \in Addresses, lastClaim'[t][b] # Never
                   PROVE  /\ lastClaim'[t][b] <= now'
                          /\ \E c \in claims' :
                               c.scope = t /\ c.address = b /\ c.at = lastClaim'[t][b]
        OBVIOUS
      <4>1. CASE t = s /\ b = a
        BY <2>1, <2>2, <2>3, <4>1
      <4>2. CASE ~(t = s /\ b = a)
        <5>1. lastClaim'[t][b] = lastClaim[t][b]
          BY <2>3, <4>2
        <5> QED
          BY <2>1, <2>2, <5>1 DEF LastIsLatest
      <4> QED
        BY <4>1, <4>2
    <3> QED
      BY <3>1, <3>2 DEF LastIsLatest
  <2>6. Spaced'
    <3> SUFFICES ASSUME NEW c \in claims', NEW d \in claims', c # d, c.scope = d.scope,
                        c.address = d.address, c.at <= d.at
                 PROVE  d.at - c.at >= CLAIM_GAP
      BY DEF Spaced
    <3>1. CASE c \in claims /\ d \in claims
      BY <3>1 DEF Spaced
    <3>2. CASE d = new /\ c \in claims
      BY <2>2, <2>4, <3>2, QuotasAssumption
    <3>3. CASE c = new
      BY <2>2, <2>4, <3>3
    <3> QED
      BY <2>2, <3>1, <3>2, <3>3
  <2> QED
    BY <2>5, <2>6
<1> QED
  BY <1>1, <1>2, ClaimsChange

\* Claims of one address at one faucet are the gap apart, with any number of its
\* requests in flight, and no faucet refuses for a claim made at another.
THEOREM ClaimsAreSpaced == QuotasSpec => []ClaimsSpaced
<1>1. QuotasInit => LastIsLatest /\ Spaced
  BY DEF QuotasInit, LastIsLatest, Spaced
<1>2. LastIsLatest /\ Spaced => ClaimsSpaced
  BY DEF LastIsLatest, Spaced, ClaimsSpaced, RateLimited
<1> QED
  BY <1>1, <1>2, SpacedStep, TypesAlways, PTL DEF QuotasSpec

-----------------------------------------------------------------------------
(***************************************************************************)
(* The daily budget.  The counter is that of the last day somebody got     *)
(* past the rate limit; it says how many claims that day has, and no later *)
(* day has any.                                                            *)
(***************************************************************************)
GasOn(day) == {c \in claims : c.scope = "gas" /\ c.at \div DAY = day}

DayInv ==
  /\ IsFiniteSet(claims)
  /\ gasBudgetDay <= now \div DAY
  /\ \A c \in claims : c.scope = "gas" => c.at \div DAY <= gasBudgetDay
  /\ gasSpentToday = GAS_DRIP * Cardinality(GasOn(gasBudgetDay))
  /\ \A day \in Nat : GAS_DRIP * Cardinality(GasOn(day)) <= GAS_DAILY_BUDGET

\* The claims of a day are finitely many.
LEMMA GasOnTypes ==
  ASSUME DayInv, NEW day
  PROVE  IsFiniteSet(GasOn(day)) /\ Cardinality(GasOn(day)) \in Nat
<1>1. GasOn(day) \in SUBSET claims
  BY DEF GasOn
<1> QED
  BY <1>1, FS_Subset, FS_CardinalityType DEF DayInv

\* What the counter of the current day stands for, whether or not it was reset.
LEMMA SpentIsClaims ==
  ASSUME ClaimTypeOK, DayInv
  PROVE  SpentToday = GAS_DRIP * Cardinality(GasOn(now \div DAY))
<1>1. CASE now \div DAY = gasBudgetDay
  BY <1>1 DEF SpentToday, DayInv
<1>2. CASE now \div DAY # gasBudgetDay
  <2>1. now \div DAY \in Nat /\ gasBudgetDay \in Nat \cup {Never}
    BY SpentTypes DEF ClaimTypeOK
  <2>2. now \div DAY > gasBudgetDay
    BY <1>2, <2>1 DEF DayInv, Never
  <2>3. GasOn(now \div DAY) = {}
    <3>1. \A c \in claims : c.scope = "gas" => c.at \div DAY \in Nat /\ c.at \div DAY <= gasBudgetDay
      BY DayTypes DEF DayInv, ClaimTypeOK, Claim
    <3> QED
      BY <2>1, <2>2, <3>1 DEF GasOn, Never
  <2>4. GAS_DRIP * Cardinality(GasOn(now \div DAY)) = 0
    <3>1. Cardinality(GasOn(now \div DAY)) = 0
      BY <2>3, FS_EmptySet, Zenon
    <3> QED
      BY <3>1, QuotasAssumption
  <2> QED
    BY <1>2, <2>4 DEF SpentToday
<1> QED
  BY <1>1, <1>2

\* A claim for gas is a new one, of today, and was checked to fit.
LEMMA GasClaimDay ==
  ASSUME ClaimTypeOK, DayInv, LastIsLatest, NEW a \in Addresses, checkAndRecordGasClaim(a),
         now' = now
  PROVE  DayInv'
<1>0. PICK today \in Nat, new \in {NewClaim("gas", a)} :
        /\ today = now \div DAY
        /\ new.scope = "gas" /\ new.address = a /\ new.at = now
  BY SpentTypes, NewClaimTypes DEF Scopes
<1>1. /\ claims' = claims \cup {new} /\ gasBudgetDay' = today
      /\ gasSpentToday' = SpentToday + GAS_DRIP /\ SpentToday + GAS_DRIP <= GAS_DAILY_BUDGET
      /\ ~RateLimited("gas", a)
  <2>1. SpentToday \in Nat /\ GAS_DAILY_BUDGET \in Nat /\ GAS_DRIP \in Nat
    BY SpentTypes, QuotasAssumption
  <2> QED
    BY <1>0, <2>1 DEF checkAndRecordGasClaim, RecordClaim, BudgetExhausted
<1>2. new \notin claims
  <2>1. "gas" \in Scopes /\ new.scope = "gas" /\ new.address = a /\ new.at = now
    BY <1>0 DEF Scopes
  <2>2. new \in claims => new.at < now
    BY <1>1, <2>1, LetThrough
  <2> QED
    BY <2>1, <2>2 DEF ClaimTypeOK
<1>3. new.scope = "gas" /\ new.at \div DAY = today
  BY <1>0
<1>4. /\ GasOn(today)' = GasOn(today) \cup {new} /\ new \notin GasOn(today)
      /\ \A day : day # today => GasOn(day)' = GasOn(day)
  BY <1>1, <1>2, <1>3 DEF GasOn
<1>5. Cardinality(GasOn(today)') = Cardinality(GasOn(today)) + 1
      /\ Cardinality(GasOn(today)) \in Nat
  BY <1>4, GasOnTypes, FS_AddElement
<1>6. GAS_DRIP * Cardinality(GasOn(today)') = SpentToday + GAS_DRIP
  <2>1. \A d, n \in Nat : d * (n + 1) = d * n + d
    OBVIOUS
  <2>2. SpentToday = GAS_DRIP * Cardinality(GasOn(today))
    BY <1>0, SpentIsClaims
  <2> QED
    BY <1>5, <2>1, <2>2, QuotasAssumption
<1>7. IsFiniteSet(claims')
  BY <1>1, FS_AddElement DEF DayInv
<1>8. \A c \in claims' : c.scope = "gas" => c.at \div DAY <= gasBudgetDay'
  <2>1. \A c \in claims : c.at \div DAY \in Nat
    BY DayTypes DEF ClaimTypeOK, Claim
  <2>2. gasBudgetDay <= today /\ gasBudgetDay \in Nat \cup {Never}
    BY <1>0 DEF DayInv, ClaimTypeOK
  <2> QED
    BY <1>1, <1>3, <2>1, <2>2 DEF DayInv, Never
<1>9. \A day \in Nat : GAS_DRIP * Cardinality(GasOn(day)') <= GAS_DAILY_BUDGET
  <2> TAKE day \in Nat
  <2>1. CASE day = today
    BY <1>1, <1>6, <2>1
  <2>2. CASE day # today
    <3>1. GasOn(day)' = GasOn(day)
      BY <1>4, <2>2
    <3>2. GAS_DRIP * Cardinality(GasOn(day)) <= GAS_DAILY_BUDGET
      BY DEF DayInv
    <3> QED
      BY <3>1, <3>2
  <2> QED
    BY <2>1, <2>2
<1>10. gasBudgetDay' <= now' \div DAY /\ gasSpentToday' = GAS_DRIP * Cardinality(GasOn(gasBudgetDay)')
  <2>1. GasOn(gasBudgetDay)' = GasOn(today)'
    BY <1>1 DEF GasOn
  <2>2. gasBudgetDay' = now' \div DAY
    BY <1>0, <1>1
  <2> QED
    BY <1>0, <1>1, <1>6, <2>1, <2>2
<1> QED
  BY <1>7, <1>8, <1>9, <1>10 DEF DayInv

\* A claim for FXRP is on no day of gas.
LEMMA FaucetClaimDay ==
  ASSUME ClaimTypeOK, DayInv, NEW s \in Scopes \ {"gas"}, NEW a \in Addresses, RecordClaim(s, a),
         UNCHANGED <<now, gasBudgetDay, gasSpentToday>>
  PROVE  DayInv'
<1>1. PICK new : claims' = claims \cup {new} /\ new.scope # "gas"
  <2> DEFINE claim == NewClaim(s, a)
  <2>1. claims' = claims \cup {claim} /\ claim.scope # "gas"
    BY NewClaimTypes DEF RecordClaim
  <2> HIDE DEF claim
  <2> QED
    BY <2>1
<1>2. \A day : GasOn(day)' = GasOn(day)
  <2> TAKE day
  <2>1. \A c : c \in GasOn(day)' <=> c \in GasOn(day)
    BY <1>1 DEF GasOn
  <2> QED
    BY <2>1
<1>3. IsFiniteSet(claims')
  BY <1>1, FS_AddElement DEF DayInv
<1>4. \A c \in claims' : c.scope = "gas" => c.at \div DAY <= gasBudgetDay'
  BY <1>1 DEF DayInv
<1>5. GasOn(gasBudgetDay)' = GasOn(gasBudgetDay)
  BY <1>2 DEF GasOn
<1>6. gasBudgetDay' <= now' \div DAY
  BY DEF DayInv
<1>7. gasSpentToday' = GAS_DRIP * Cardinality(GasOn(gasBudgetDay)')
  BY <1>5 DEF DayInv
<1>8. \A day \in Nat : GAS_DRIP * Cardinality(GasOn(day)') <= GAS_DAILY_BUDGET
  BY <1>2 DEF DayInv
<1> QED
  BY <1>3, <1>4, <1>6, <1>7, <1>8 DEF DayInv

\* The counter may be reset by a claim that is refused: a new day starts at zero.
LEMMA RefusedClaimDay ==
  ASSUME ClaimTypeOK, DayInv, gasBudgetDay' = now \div DAY, gasSpentToday' = SpentToday,
         UNCHANGED <<now, claims>>
  PROVE  DayInv'
<1>1. \A day : GasOn(day)' = GasOn(day)
  BY DEF GasOn
<1>2. PICK today \in Nat : today = now \div DAY
  BY SpentTypes
<1>3. GasOn(gasBudgetDay)' = GasOn(today)
  BY <1>2 DEF GasOn
<1>4. gasSpentToday' = GAS_DRIP * Cardinality(GasOn(gasBudgetDay)')
  BY <1>2, <1>3, SpentIsClaims
<1>5. \A c \in claims' : c.scope = "gas" => c.at \div DAY <= gasBudgetDay'
  <2>1. \A c \in claims : c.at \div DAY \in Nat
    BY DayTypes DEF ClaimTypeOK, Claim
  <2>2. gasBudgetDay <= today /\ gasBudgetDay \in Nat \cup {Never} /\ gasBudgetDay' = today
    BY <1>2 DEF DayInv, ClaimTypeOK
  <2> QED
    BY <1>2, <2>1, <2>2 DEF DayInv, Never
<1>6. IsFiniteSet(claims') /\ gasBudgetDay' <= now' \div DAY
  BY <1>2 DEF DayInv
<1>7. \A day \in Nat : GAS_DRIP * Cardinality(GasOn(day)') <= GAS_DAILY_BUDGET
  BY <1>1 DEF DayInv
<1> QED
  BY <1>4, <1>5, <1>6, <1>7 DEF DayInv

\* Time passes, and with it days.
LEMMA LaterDay ==
  ASSUME ClaimTypeOK, DayInv, UNCHANGED <<claims, gasBudgetDay, gasSpentToday>>,
         now' = now \/ now' = now + 1
  PROVE  DayInv'
<1>1. \A day : GasOn(day)' = GasOn(day)
  BY DEF GasOn
<1>2. GasOn(gasBudgetDay)' = GasOn(gasBudgetDay)
  BY DEF GasOn
<1>3. gasBudgetDay' <= now' \div DAY
  <2>1. /\ now \div DAY \in Nat /\ (now + 1) \div DAY \in Nat
        /\ now \div DAY <= (now + 1) \div DAY /\ gasBudgetDay <= now \div DAY
        /\ gasBudgetDay \in Nat \cup {Never}
    BY DayTypes DEF ClaimTypeOK, DayInv
  <2> QED
    BY <2>1 DEF Never
<1> QED
  BY <1>1, <1>2, <1>3 DEF DayInv

\* Every step keeps the account of the days.
LEMMA DayStep ==
  ClaimTypeOK /\ LastIsLatest /\ DayInv /\ [QuotasNext]_vars => DayInv'
<1> SUFFICES ASSUME ClaimTypeOK, LastIsLatest, DayInv, [QuotasNext]_vars
             PROVE  DayInv'
  OBVIOUS
<1>1. CASE ClaimStep
  <2>1. PICK c \in Calls : claimGas(c) \/ claimFaucet(c)
    BY <1>1 DEF ClaimStep
  <2>2. calls[c].address \in Addresses /\ calls[c].scope \in Scopes /\ now' = now
    BY <2>1 DEF ClaimTypeOK, Call, claimGas, claimFaucet
  <2>3. CASE claimGas(c)
    <3>1. CASE checkAndRecordGasClaim(calls[c].address)
      BY <2>2, <3>1, GasClaimDay
    <3>2. CASE refuseGasClaim(calls[c].address)
      BY <2>2, <3>2, RefusedClaimDay, LaterDay DEF refuseGasClaim, claimVars
    <3> QED
      BY <2>3, <3>1, <3>2 DEF claimGas
  <2>4. CASE claimFaucet(c)
    BY <2>2, <2>4, FaucetClaimDay, LaterDay
       DEF claimFaucet, checkAndRecordFaucetClaim, claimVars
  <2> QED
    BY <2>1, <2>3, <2>4
<1>2. CASE BeginStep \/ ReadStep \/ SpendStep \/ Tick \/ UNCHANGED claimState
  <2>1. UNCHANGED <<claims, gasBudgetDay, gasSpentToday>> /\ (now' = now \/ now' = now + 1)
    BY <1>2
       DEF BeginStep, ReadStep, SpendStep, Tick, claimState, readOwnerGas, readReserve, fail,
           sendGas, sendFxrp, visitorSpends, deskSpends, claimVars
  <2> QED
    BY <2>1, LaterDay
<1> QED
  BY <1>1, <1>2, Steps

\* On no day are more drips authorised than the budget allows, whichever calls came
\* first and whether the first of a day was granted or refused.
THEOREM DayBudgetKept == QuotasSpec => []GasDayBudget
<1>1. QuotasInit => DayInv
  <2> SUFFICES ASSUME QuotasInit PROVE DayInv
    OBVIOUS
  <2>1. claims = {} /\ gasSpentToday = 0 /\ gasBudgetDay = Never /\ now = 0
    BY DEF QuotasInit
  <2>2. \A day : GasOn(day) = {}
    BY <2>1 DEF GasOn
  <2>3. \A day : GAS_DRIP * Cardinality(GasOn(day)) = 0
    <3>1. \A day : Cardinality(GasOn(day)) = 0
      BY <2>2, FS_EmptySet
    <3> QED
      BY <3>1, QuotasAssumption
  <2>4. now \div DAY \in Nat
    BY <2>1, DayTypes
  <2> QED
    BY <2>1, <2>3, <2>4, FS_EmptySet, QuotasAssumption DEF DayInv, Never
<1>2. ClaimTypeOK /\ DayInv => GasDayBudget
  <2> SUFFICES ASSUME ClaimTypeOK, DayInv, NEW day \in 0..(now \div DAY)
               PROVE  GAS_DRIP * Cardinality(GasOn(day)) <= GAS_DAILY_BUDGET
    BY DEF GasDayBudget, GasOn
  <2> QED
    BY SpentTypes DEF DayInv
<1>3. QuotasInit => LastIsLatest /\ Spaced
  BY DEF QuotasInit, LastIsLatest, Spaced
<1> QED
  BY <1>1, <1>2, <1>3, DayStep, SpacedStep, TypesAlways, PTL DEF QuotasSpec

-----------------------------------------------------------------------------
(***************************************************************************)
(* The rolling quotas.  A list holds every hit that still counts, and no   *)
(* more hits than its limit; so when a hit is let through, the hits of any *)
(* window it falls in are all on the list that had room.                   *)
(***************************************************************************)
\* The granted hits of one caller.
HitsOf(k, i) == {h \in granted[k] : h.ip = i}

\* The hits in the WINDOW ticks from `from` on.
Within(hits, from) == {h \in hits : h.at \in from..(from + WINDOW - 1)}

\* A list of the hits that were granted.
Kept(list, hits, limit) ==
  /\ list \subseteq hits
  /\ \A h \in hits : now - h.at < WINDOW => h \in list
  /\ Cardinality(list) <= limit

\* The lists of one kind, and the numbers of its hits.
KindInv(k) ==
  /\ IsFiniteSet(granted[k])
  /\ \A h \in granted[k] : h.at <= now /\ h.n < Cardinality(HitsOf(k, h.ip))
  /\ Kept(globalHits[k], granted[k], Global[k])
  /\ \A i \in Ips : Kept(ipHits[k][i], HitsOf(k, i), PerIp[k])

\* RollingQuota, for the windows to come as well.
WindowsOK(k) ==
  \A from \in Nat :
    /\ Cardinality(Within(granted[k], from)) <= Global[k]
    /\ \A i \in Ips : Cardinality(Within(HitsOf(k, i), from)) <= PerIp[k]

LimitTypeOK ==
  /\ now \in Nat
  /\ ipHits \in [Kinds -> [Ips -> SUBSET Hit]]
  /\ globalHits \in [Kinds -> SUBSET Hit] /\ granted \in [Kinds -> SUBSET Hit]

LimitInv == LimitTypeOK /\ \A k \in Kinds : KindInv(k) /\ WindowsOK(k)

\* A limit is a positive number.
LEMMA LimitTypes ==
  ASSUME NEW k \in Kinds
  PROVE  PerIp[k] \in Nat \ {0} /\ Global[k] \in Nat \ {0} /\ WINDOW \in Nat \ {0}
BY QuotasAssumption

\* One element more makes a set larger by one at most.
LEMMA OneMore ==
  ASSUME NEW S, NEW x, IsFiniteSet(S)
  PROVE  /\ IsFiniteSet(S \cup {x})
         /\ Cardinality(S) \in Nat /\ Cardinality(S \cup {x}) \in Nat
         /\ Cardinality(S \cup {x}) <= Cardinality(S) + 1
         /\ x \notin S => Cardinality(S \cup {x}) = Cardinality(S) + 1
<1>1. IsFiniteSet(S \cup {x}) /\ Cardinality(S) \in Nat
  BY FS_AddElement, FS_CardinalityType
<1>2. CASE x \in S
  <2>1. S \cup {x} = S
    BY <1>2
  <2> QED
    BY <1>1, <1>2, <2>1
<1>3. CASE x \notin S
  <2>1. Cardinality(S \cup {x}) = Cardinality(S) + 1
    BY <1>3, FS_AddElement
  <2> QED
    BY <1>1, <2>1
<1> QED
  BY <1>2, <1>3

\* A list stays what it is when it is pruned.
LEMMA KeptPruned ==
  ASSUME now \in Nat, NEW hits, hits \subseteq Hit, IsFiniteSet(hits),
         NEW list, NEW limit \in Nat, Kept(list, hits, limit)
  PROVE  /\ Kept(pruneOld(list, now), hits, limit)
         /\ IsFiniteSet(pruneOld(list, now)) /\ Cardinality(pruneOld(list, now)) \in Nat
<1> DEFINE pruned == pruneOld(list, now)
<1>1. /\ pruned \in SUBSET list /\ list \in SUBSET hits
      /\ \A h \in hits : now - h.at < WINDOW => h \in pruned
  BY DEF Kept, pruneOld
<1>2. /\ IsFiniteSet(list) /\ IsFiniteSet(pruned) /\ Cardinality(pruned) <= Cardinality(list)
      /\ Cardinality(pruned) \in Nat /\ Cardinality(list) \in Nat
  BY <1>1, FS_Subset, FS_CardinalityType
<1>3. Cardinality(list) <= limit
  BY DEF Kept
<1> HIDE DEF pruned
<1>4. Kept(pruned, hits, limit)
  BY <1>1, <1>2, <1>3 DEF Kept
<1> QED
  BY <1>2, <1>4 DEF pruned

\* And it takes a hit that is let through.
LEMMA KeptGrows ==
  ASSUME now \in Nat, NEW hits, hits \subseteq Hit, IsFiniteSet(hits),
         NEW list, NEW limit \in Nat, Kept(list, hits, limit),
         NEW hit, Cardinality(pruneOld(list, now)) < limit
  PROVE  Kept(pruneOld(list, now) \cup {hit}, hits \cup {hit}, limit)
<1> DEFINE pruned == pruneOld(list, now)
<1>1. Kept(pruned, hits, limit) /\ IsFiniteSet(pruned)
  BY KeptPruned
<1> HIDE DEF pruned
<1>2. Cardinality(pruned) < limit
  BY DEF pruned
<1>3. Cardinality(pruned \cup {hit}) <= limit
  BY <1>1, <1>2, OneMore
<1> QED
  BY <1>1, <1>3 DEF Kept, pruned

\* A hit is let through only by a list with room, and then no window has more hits than
\* the limit: those of a window the hit falls in were all on the list.
LEMMA WindowGrows ==
  ASSUME now \in Nat, NEW hits, hits \subseteq Hit, IsFiniteSet(hits),
         \A h \in hits : h.at <= now,
         NEW list, NEW limit \in Nat, Kept(list, hits, limit),
         Cardinality(pruneOld(list, now)) < limit,
         NEW hit \in Hit, hit.at = now, NEW from \in Nat,
         Cardinality(Within(hits, from)) <= limit
  PROVE  Cardinality(Within(hits \cup {hit}, from)) <= limit
<1>1. CASE now \in from..(from + WINDOW - 1)
  <2>1. Within(hits \cup {hit}, from) = Within(hits, from) \cup {hit}
    BY <1>1 DEF Within
  <2>2. Within(hits, from) \subseteq pruneOld(list, now)
    BY <1>1, QuotasAssumption DEF Within, pruneOld, Kept, Hit
  <2>3. IsFiniteSet(pruneOld(list, now)) /\ Cardinality(pruneOld(list, now)) \in Nat
    BY KeptPruned
  <2>4. /\ IsFiniteSet(Within(hits, from))
        /\ Cardinality(Within(hits, from)) <= Cardinality(pruneOld(list, now))
        /\ Cardinality(Within(hits, from)) \in Nat
    BY <2>2, <2>3, FS_Subset, FS_CardinalityType
  <2>5. /\ Cardinality(Within(hits, from) \cup {hit}) <= Cardinality(Within(hits, from)) + 1
        /\ Cardinality(Within(hits, from) \cup {hit}) \in Nat
    BY <2>4, OneMore
  <2>6. Cardinality(Within(hits, from) \cup {hit}) <= limit
    BY <2>3, <2>4, <2>5
  <2> QED
    BY <2>1, <2>6
<1>2. CASE now \notin from..(from + WINDOW - 1)
  <2>1. Within(hits \cup {hit}, from) = Within(hits, from)
    BY <1>2 DEF Within
  <2> QED
    BY <2>1
<1> QED
  BY <1>1, <1>2

\* A hit is counted once: its number is higher than those of its caller's before.
LEMMA HitIsNew ==
  ASSUME LimitInv, NEW k \in Kinds, NEW i \in Ips
  PROVE  /\ NewHit(k, i) \in Hit /\ NewHit(k, i) \notin granted[k]
         /\ NewHit(k, i).at = now /\ NewHit(k, i).ip = i
         /\ IsFiniteSet(HitsOf(k, i)) /\ NewHit(k, i).n = Cardinality(HitsOf(k, i))
<1>1. IsFiniteSet(granted[k]) /\ HitsOf(k, i) \in SUBSET granted[k]
  BY DEF LimitInv, KindInv, HitsOf
<1>2. IsFiniteSet(HitsOf(k, i)) /\ Cardinality(HitsOf(k, i)) \in Nat
  BY <1>1, FS_Subset, FS_CardinalityType
<1>3. NewHit(k, i) = [ip |-> i, at |-> now, n |-> Cardinality(HitsOf(k, i))]
  BY DEF NewHit, HitsOf
<1>4. NewHit(k, i) \notin granted[k]
  BY <1>2, <1>3 DEF LimitInv, KindInv
<1> QED
  BY <1>2, <1>3, <1>4 DEF Hit, LimitInv, LimitTypeOK

\* A kind whose lists are left alone.
LEMMA OtherKind ==
  ASSUME NEW k \in Kinds, KindInv(k), WindowsOK(k), now' = now,
         granted'[k] = granted[k], globalHits'[k] = globalHits[k], ipHits'[k] = ipHits[k]
  PROVE  KindInv(k)' /\ WindowsOK(k)'
<1>1. \A i \in Ips : HitsOf(k, i)' = HitsOf(k, i)
  BY DEF HitsOf
<1>2. \A h \in granted[k] : HitsOf(k, h.ip)' = HitsOf(k, h.ip)
  BY DEF HitsOf
<1>3. KindInv(k)'
  BY <1>1, <1>2 DEF KindInv, Kept
<1>4. WindowsOK(k)'
  BY <1>1 DEF WindowsOK, Within
<1> QED
  BY <1>3, <1>4

\* A refusal prunes the list that refused.
LEMMA RefusedKeeps ==
  ASSUME LimitInv, NEW k \in Kinds, NEW i \in Ips, UNCHANGED <<now, granted>>,
         \/ /\ ipHits' = [ipHits EXCEPT ![k][i] = pruneOld(ipHits[k][i], now)]
            /\ UNCHANGED globalHits
         \/ /\ globalHits' = [globalHits EXCEPT ![k] = pruneOld(globalHits[k], now)]
            /\ UNCHANGED ipHits
  PROVE  LimitInv'
<1>1. LimitTypeOK'
  <2>1. /\ pruneOld(ipHits[k][i], now) \in SUBSET Hit
        /\ pruneOld(globalHits[k], now) \in SUBSET Hit
    BY DEF LimitInv, LimitTypeOK, pruneOld
  <2>2. \A m \in Kinds, j \in Ips : [ipHits[m] EXCEPT ![j] = pruneOld(ipHits[k][i], now)]
                                    \in [Ips -> SUBSET Hit]
    BY <2>1 DEF LimitInv, LimitTypeOK
  <2>3. ipHits' \in [Kinds -> [Ips -> SUBSET Hit]]
    <3>1. ipHits \in [Kinds -> [Ips -> SUBSET Hit]]
      BY DEF LimitInv, LimitTypeOK
    <3>2. CASE UNCHANGED ipHits
      BY <3>1, <3>2
    <3>3. CASE ipHits' = [ipHits EXCEPT ![k][i] = pruneOld(ipHits[k][i], now)]
      BY <2>2, <3>1, <3>3
    <3> QED
      BY <3>2, <3>3
  <2>4. globalHits' \in [Kinds -> SUBSET Hit]
    BY <2>1 DEF LimitInv, LimitTypeOK
  <2> QED
    BY <2>3, <2>4 DEF LimitInv, LimitTypeOK
<1>2. ASSUME NEW m \in Kinds PROVE KindInv(m)' /\ WindowsOK(m)'
  <2>1. CASE m # k
    <3>1. /\ granted'[m] = granted[m] /\ globalHits'[m] = globalHits[m]
          /\ ipHits'[m] = ipHits[m]
      BY <2>1 DEF LimitInv, LimitTypeOK
    <3> QED
      BY <3>1, OtherKind DEF LimitInv
  <2>2. CASE m = k
    <3>1. /\ \A j \in Ips : HitsOf(k, j)' = HitsOf(k, j)
          /\ \A h \in granted[k] : HitsOf(k, h.ip)' = HitsOf(k, h.ip)
      BY DEF HitsOf
    <3>2. /\ granted[k] \subseteq Hit /\ IsFiniteSet(granted[k])
          /\ Kept(globalHits[k], granted[k], Global[k])
          /\ \A j \in Ips : Kept(ipHits[k][j], HitsOf(k, j), PerIp[k])
          /\ now \in Nat
      BY DEF LimitInv, LimitTypeOK, KindInv
    <3>3. HitsOf(k, i) \subseteq Hit /\ IsFiniteSet(HitsOf(k, i))
      BY <3>2, HitIsNew DEF HitsOf
    <3>4. /\ Kept(pruneOld(globalHits[k], now), granted[k], Global[k])
          /\ Kept(pruneOld(ipHits[k][i], now), HitsOf(k, i), PerIp[k])
      BY <3>2, <3>3, KeptPruned, LimitTypes
    <3>5. /\ globalHits'[k] \in {globalHits[k], pruneOld(globalHits[k], now)}
          /\ \A j \in Ips : \/ ipHits'[k][j] = ipHits[k][j]
                            \/ j = i /\ ipHits'[k][j] = pruneOld(ipHits[k][i], now)
      BY DEF LimitInv, LimitTypeOK
    <3>6. /\ Kept(globalHits'[k], granted[k], Global[k])
          /\ \A j \in Ips : Kept(ipHits'[k][j], HitsOf(k, j), PerIp[k])
      BY <3>2, <3>4, <3>5
    <3>7. KindInv(k)'
      BY <3>1, <3>6 DEF KindInv, Kept, LimitInv
    <3>8. WindowsOK(k)'
      BY <3>1 DEF WindowsOK, Within, LimitInv
    <3> QED
      BY <2>2, <3>7, <3>8
  <2> QED
    BY <2>1, <2>2
<1> QED
  BY <1>1, <1>2 DEF LimitInv

\* A hit is let through where both lists have room, and joins both.
LEMMA GrantedKeeps ==
  ASSUME LimitInv, NEW k \in Kinds, NEW i \in Ips, now' = now,
         ~IpBlocked(k, i), ~GlobalBlocked(k),
         ipHits' = [ipHits EXCEPT ![k][i] = pruneOld(ipHits[k][i], now) \cup {NewHit(k, i)}],
         globalHits' = [globalHits EXCEPT ![k] = pruneOld(globalHits[k], now)
                                                   \cup {NewHit(k, i)}],
         granted' = [granted EXCEPT ![k] = granted[k] \cup {NewHit(k, i)}]
  PROVE  LimitInv'
<1> DEFINE hit == NewHit(k, i)
<1>1. /\ hit \in Hit /\ hit \notin granted[k] /\ hit.at = now /\ hit.ip = i
      /\ IsFiniteSet(HitsOf(k, i)) /\ hit.n = Cardinality(HitsOf(k, i))
      /\ \A j \in Ips : IsFiniteSet(HitsOf(k, j))
  BY HitIsNew
<1> HIDE DEF hit
<1>2. LimitTypeOK'
  BY <1>1 DEF LimitInv, LimitTypeOK, pruneOld, hit
<1>3. ASSUME NEW m \in Kinds, m # k PROVE KindInv(m)' /\ WindowsOK(m)'
  <2>1. /\ granted'[m] = granted[m] /\ globalHits'[m] = globalHits[m]
        /\ ipHits'[m] = ipHits[m]
    BY <1>3 DEF LimitInv, LimitTypeOK
  <2> QED
    BY <2>1, OtherKind DEF LimitInv
<1>4. /\ granted'[k] = granted[k] \cup {hit}
      /\ globalHits'[k] = pruneOld(globalHits[k], now) \cup {hit}
      /\ \A j \in Ips : ipHits'[k][j] = IF j = i THEN pruneOld(ipHits[k][i], now) \cup {hit}
                                        ELSE ipHits[k][j]
  BY DEF LimitInv, LimitTypeOK, hit
<1>5. \A j : HitsOf(k, j)' = IF j = i THEN HitsOf(k, i) \cup {hit} ELSE HitsOf(k, j)
  BY <1>1, <1>4 DEF HitsOf
<1>6. /\ granted[k] \subseteq Hit /\ IsFiniteSet(granted[k])
      /\ \A h \in granted[k] : h.at <= now /\ h.n < Cardinality(HitsOf(k, h.ip))
      /\ Kept(globalHits[k], granted[k], Global[k])
      /\ \A j \in Ips : /\ Kept(ipHits[k][j], HitsOf(k, j), PerIp[k])
                        /\ HitsOf(k, j) \subseteq granted[k]
      /\ now \in Nat
  BY DEF LimitInv, LimitTypeOK, KindInv, HitsOf
<1>7. /\ Cardinality(pruneOld(globalHits[k], now)) < Global[k]
      /\ Cardinality(pruneOld(ipHits[k][i], now)) < PerIp[k]
  <2>1. /\ Cardinality(pruneOld(globalHits[k], now)) \in Nat
        /\ Cardinality(pruneOld(ipHits[k][i], now)) \in Nat
    BY <1>1, <1>6, KeptPruned, LimitTypes
  <2> QED
    BY <2>1, LimitTypes DEF IpBlocked, GlobalBlocked
<1>8. KindInv(k)'
  <2>1. IsFiniteSet(granted[k] \cup {hit})
    BY <1>6, FS_AddElement
  <2>2. /\ Kept(globalHits'[k], granted'[k], Global[k])
        /\ \A j \in Ips : Kept(ipHits'[k][j], HitsOf(k, j)', PerIp[k])
    <3>1. Kept(pruneOld(globalHits[k], now) \cup {hit}, granted[k] \cup {hit}, Global[k])
      BY <1>6, <1>7, KeptGrows, LimitTypes
    <3>2. HitsOf(k, i) \subseteq Hit /\ Kept(ipHits[k][i], HitsOf(k, i), PerIp[k])
      BY <1>6
    <3>3. Kept(pruneOld(ipHits[k][i], now) \cup {hit}, HitsOf(k, i) \cup {hit}, PerIp[k])
      BY <1>1, <1>6, <1>7, <3>2, KeptGrows, LimitTypes
    <3> QED
      BY <1>4, <1>5, <1>6, <3>1, <3>3
  <2>3. ASSUME NEW h \in granted'[k]
        PROVE  h.at <= now /\ h.n < Cardinality(HitsOf(k, h.ip)')
    <3>1. /\ Cardinality(HitsOf(k, i) \cup {hit}) = Cardinality(HitsOf(k, i)) + 1
          /\ Cardinality(HitsOf(k, i)) \in Nat
      BY <1>1, OneMore DEF HitsOf
    <3>2. CASE h = hit
      <4>1. HitsOf(k, h.ip)' = HitsOf(k, i) \cup {hit} /\ h.n = Cardinality(HitsOf(k, i))
        BY <1>1, <1>5, <3>2
      <4>2. h.at <= now
        BY <1>1, <1>6, <3>2
      <4>3. h.n < Cardinality(HitsOf(k, i) \cup {hit})
        BY <3>1, <4>1
      <4> QED
        BY <4>1, <4>2, <4>3
    <3>3. CASE h \in granted[k] /\ h.ip = i
      <4>1. HitsOf(k, h.ip)' = HitsOf(k, i) \cup {hit} /\ h.n < Cardinality(HitsOf(k, i))
        BY <1>5, <1>6, <3>3
      <4>2. h.n \in Nat
        BY <1>6, <3>3 DEF Hit
      <4> QED
        BY <1>6, <3>1, <3>3, <4>1, <4>2
    <3>4. CASE h \in granted[k] /\ h.ip # i
      BY <1>5, <1>6, <3>4
    <3> QED
      BY <1>4, <3>2, <3>3, <3>4
  <2>4. /\ IsFiniteSet(granted'[k])
        /\ \A h \in granted'[k] : h.at <= now /\ h.n < Cardinality(HitsOf(k, h.ip)')
    BY <1>4, <2>1, <2>3
  <2> QED
    BY <2>2, <2>4 DEF KindInv, Kept
<1>9. WindowsOK(k)'
  <2> SUFFICES ASSUME NEW from \in Nat
               PROVE  /\ Cardinality(Within(granted'[k], from)) <= Global[k]
                      /\ \A j \in Ips : Cardinality(Within(HitsOf(k, j)', from)) <= PerIp[k]
    BY DEF WindowsOK, Within
  <2>1. /\ Cardinality(Within(granted[k], from)) <= Global[k]
        /\ \A j \in Ips : Cardinality(Within(HitsOf(k, j), from)) <= PerIp[k]
    BY DEF LimitInv, WindowsOK
  <2>2. Cardinality(Within(granted'[k], from)) <= Global[k]
    BY <1>1, <1>4, <1>6, <1>7, <2>1, WindowGrows, LimitTypes
  <2>3. Cardinality(Within(HitsOf(k, i) \cup {hit}, from)) <= PerIp[k]
    <3>1. /\ HitsOf(k, i) \subseteq Hit /\ \A h \in HitsOf(k, i) : h.at <= now
          /\ Kept(ipHits[k][i], HitsOf(k, i), PerIp[k]) /\ now \in Nat
          /\ Cardinality(Within(HitsOf(k, i), from)) <= PerIp[k] /\ PerIp[k] \in Nat
      BY <1>6, <2>1, LimitTypes
    <3> QED
      BY <1>1, <1>7, <3>1, WindowGrows
  <2> QED
    BY <1>5, <2>1, <2>2, <2>3
<1> QED
  BY <1>2, <1>3, <1>8, <1>9 DEF LimitInv

\* A hit that has left a window does not come back into it.
LEMMA LimitTick ==
  ASSUME LimitInv, now' = now + 1, UNCHANGED limitVars
  PROVE  LimitInv'
<1>1. LimitTypeOK'
  BY DEF LimitInv, LimitTypeOK, limitVars
<1>2. ASSUME NEW k \in Kinds PROVE KindInv(k)' /\ WindowsOK(k)'
  <2>1. /\ granted'[k] = granted[k] /\ granted[k] \subseteq Hit /\ now \in Nat
        /\ globalHits'[k] = globalHits[k] /\ ipHits'[k] = ipHits[k]
        /\ KindInv(k) /\ WindowsOK(k)
    BY DEF LimitInv, LimitTypeOK, limitVars
  <2>2. \A i : HitsOf(k, i)' = HitsOf(k, i) /\ HitsOf(k, i) \subseteq Hit
    BY <2>1 DEF HitsOf
  <2>3. /\ Kept(globalHits[k], granted[k], Global[k])'
        /\ \A i \in Ips : Kept(ipHits[k][i], HitsOf(k, i), PerIp[k])'
    BY <2>1, <2>2, LimitTypes DEF KindInv, Kept, Hit
  <2>4. \A h \in granted[k] : h.at <= now'
    BY <2>1 DEF KindInv, Hit
  <2>5. KindInv(k)'
    BY <2>1, <2>2, <2>3, <2>4 DEF KindInv
  <2>6. WindowsOK(k)'
    BY <2>1, <2>2 DEF WindowsOK, Within
  <2> QED
    BY <2>5, <2>6
<1> QED
  BY <1>1, <1>2 DEF LimitInv

\* Nothing but checkAndConsume touches the lists.
LEMMA LimitSteps ==
  ASSUME [QuotasNext]_vars
  PROVE  \/ \E k \in Kinds, i \in Ips : checkAndConsume(k, i) /\ now' = now
         \/ now' = now + 1 /\ UNCHANGED limitVars
         \/ UNCHANGED <<now, limitVars>>
<1>1. CASE \E k \in Kinds, i \in Ips : meteredRequest(k, i)
  BY <1>1 DEF meteredRequest
<1>2. CASE \E c \in Calls, a \in Askers["maker"], i \in Ips : makerFaucetRequest(c, i, a)
  BY <1>2, QuotasAssumption DEF makerFaucetRequest
<1>3. CASE Tick
  BY <1>3 DEF Tick
<1>4. CASE UNCHANGED vars
  BY <1>4 DEF vars, limitVars
<1>5. CASE \/ \E c \in Calls, a \in Addresses : gasRequest(c, a) \/ walletFaucetRequest(c, a)
           \/ \E c \in Calls : \/ readOwnerGas(c) \/ claimGas(c) \/ claimFaucet(c)
                               \/ readReserve(c) \/ sendGas(c) \/ sendFxrp(c) \/ fail(c)
           \/ \E a \in Addresses : visitorSpends(a)
           \/ deskSpends
  BY <1>5 DEF gasRequest, walletFaucetRequest, readOwnerGas, claimGas, claimFaucet, readReserve,
              sendGas, sendFxrp, fail, visitorSpends, deskSpends
<1> QED
  BY <1>1, <1>2, <1>3, <1>4, <1>5, QuotasAssumption DEF QuotasNext

LEMMA LimitStep == LimitInv /\ [QuotasNext]_vars => LimitInv'
<1> SUFFICES ASSUME LimitInv, [QuotasNext]_vars PROVE LimitInv'
  OBVIOUS
<1>1. ASSUME NEW k \in Kinds, NEW i \in Ips, checkAndConsume(k, i), now' = now
      PROVE  LimitInv'
  <2>1. CASE IpBlocked(k, i) \/ GlobalBlocked(k)
    BY <1>1, <2>1, RefusedKeeps DEF checkAndConsume
  <2>2. CASE ~IpBlocked(k, i) /\ ~GlobalBlocked(k)
    BY <1>1, <2>2, GrantedKeeps DEF checkAndConsume
  <2> QED
    BY <2>1, <2>2
<1>2. CASE UNCHANGED <<now, limitVars>>
  <2>1. \A k \in Kinds : KindInv(k)' /\ WindowsOK(k)'
    BY <1>2, OtherKind DEF LimitInv, limitVars
  <2> QED
    BY <1>2, <2>1 DEF LimitInv, LimitTypeOK, limitVars
<1> QED
  BY <1>1, <1>2, LimitTick, LimitSteps

LEMMA LimitAlways == QuotasSpec => []LimitInv
<1>1. QuotasInit => LimitInv
  <2> SUFFICES ASSUME QuotasInit PROVE LimitInv
    OBVIOUS
  <2>1. /\ now = 0 /\ LimitTypeOK
        /\ \A k \in Kinds : /\ granted[k] = {} /\ globalHits[k] = {}
                            /\ \A i \in Ips : ipHits[k][i] = {}
    BY DEF QuotasInit, LimitTypeOK
  <2>2. \A k \in Kinds : /\ \A i : HitsOf(k, i) = {}
                         /\ \A from : Within(granted[k], from) = {}
                         /\ \A i, from : Within(HitsOf(k, i), from) = {}
    BY <2>1 DEF HitsOf, Within
  <2>3. ASSUME NEW k \in Kinds PROVE KindInv(k) /\ WindowsOK(k)
    <3>1. IsFiniteSet({}) /\ Cardinality({}) = 0
      BY FS_EmptySet
    <3>2. Cardinality({}) <= Global[k] /\ \A i \in Ips : Cardinality({}) <= PerIp[k]
      BY <3>1, LimitTypes
    <3>3. KindInv(k)
      BY <2>1, <2>2, <3>1, <3>2 DEF KindInv, Kept
    <3>4. WindowsOK(k)
      BY <2>2, <3>2 DEF WindowsOK
    <3> QED
      BY <3>3, <3>4
  <2> QED
    BY <2>1, <2>3 DEF LimitInv
<1> QED
  BY <1>1, LimitStep, PTL DEF QuotasSpec

\* In no window, wherever it starts, does a caller get more than its limit, nor do all of
\* them together, though the list that does not refuse is not pruned.
THEOREM QuotasRoll == QuotasSpec => []RollingQuota
<1>1. LimitInv => RollingQuota
  <2> SUFFICES ASSUME LimitInv, NEW k \in Kinds, NEW from \in 0..now
               PROVE  /\ \A i \in Ips : GrantedWithin(k, {i}, from) <= PerIp[k]
                      /\ GrantedWithin(k, Ips, from) <= Global[k]
    BY DEF RollingQuota
  <2>1. from \in Nat /\ WindowsOK(k) /\ granted[k] \subseteq Hit
    BY DEF LimitInv, LimitTypeOK
  <2>2. \A i \in Ips : GrantedWithin(k, {i}, from) = Cardinality(Within(HitsOf(k, i), from))
    <3>1. \A i \in Ips : Within(HitsOf(k, i), from)
                           = {h \in granted[k] : /\ h.ip \in {i}
                                                 /\ h.at \in from..(from + WINDOW - 1)}
      BY DEF Within, HitsOf
    <3> QED
      BY <3>1 DEF GrantedWithin
  <2>3. GrantedWithin(k, Ips, from) = Cardinality(Within(granted[k], from))
    <3>1. Within(granted[k], from) = {h \in granted[k] : /\ h.ip \in Ips
                                                         /\ h.at \in from..(from + WINDOW - 1)}
      BY <2>1 DEF Within, Hit
    <3> QED
      BY <3>1 DEF GrantedWithin
  <2> QED
    BY <2>1, <2>2, <2>3 DEF WindowsOK
<1> QED
  BY <1>1, LimitAlways, PTL

\* A set of natural numbers that is not empty has a least element.  Otherwise the numbers
\* below all of its elements were closed under adding one, and finitely many.
LEMMA LeastElement ==
  ASSUME NEW S, S \subseteq Nat, S # {}
  PROVE  Min(S) \in S /\ \A y \in S : Min(S) <= y
<1> DEFINE Below == {n \in Nat : \A y \in S : n < y}
<1> SUFFICES ASSUME \A x \in S : \E y \in S : ~(x <= y) PROVE FALSE
  BY DEF Min
<1>1. PICK s \in S : TRUE
  OBVIOUS
<1>2. IsFiniteSet(Below)
  <2>1. Below \in SUBSET Nat /\ \A n \in Below : n <= s
    BY <1>1
  <2> QED
    BY <1>1, <2>1, FS_BoundedSetOfNaturals
<1>3. 0 \in Below /\ \A n \in Below : n + 1 \in Below
  <2>1. \A n \in Nat : n \in Below => n + 1 \in Below
    BY SMT
  <2>2. 0 \in Below
    BY SMT
  <2> QED
    BY <2>1, <2>2
<1>4. Below \subseteq Nat
  OBVIOUS
<1> HIDE DEF Below
<1>5. [n \in Below |-> n + 1] \in Injection(Below, Below \ {0})
  BY <1>3, <1>4 DEF Injection, IsInjective
<1>6. IsFiniteSet(Below \ {0}) /\ Cardinality(Below \ {0}) = Cardinality(Below) - 1
  BY <1>2, <1>3, FS_RemoveElement
<1>7. Cardinality(Below) <= Cardinality(Below \ {0})
  BY <1>5, <1>6, FS_Injection
<1> QED
  BY <1>2, <1>6, <1>7, FS_CardinalityType

\* The caller of a list that refuses is told when its oldest hit leaves: until then all of
\* its hits count, and after that one fewer than the limit.
LEMMA HonestRetry ==
  ASSUME now \in Nat, NEW list, list \subseteq Hit, IsFiniteSet(list),
         \A h \in list : h.at <= now /\ now - h.at < WINDOW,
         NEW limit \in Nat \ {0}, Cardinality(list) = limit
  PROVE  /\ Cardinality(pruneOld(list, now + retryAfterFrom(list))) < limit
         /\ Cardinality(pruneOld(list, now + retryAfterFrom(list) - 1)) >= limit
<1> DEFINE times == {h.at : h \in list}
           oldest == Min(times)
<1>1. list # {}
  BY FS_EmptySet
<1>2. oldest \in times /\ (\A t \in times : oldest <= t) /\ times \subseteq Nat
  <2>1. times \subseteq Nat /\ times # {}
    BY <1>1 DEF Hit
  <2> HIDE DEF times
  <2> QED
    BY <2>1, LeastElement
<1>3. PICK first \in list : first.at = oldest
  BY <1>2
<1>4. now + retryAfterFrom(list) = oldest + WINDOW
      /\ now + retryAfterFrom(list) - 1 = oldest + WINDOW - 1
  <2>1. /\ oldest \in Nat /\ WINDOW \in Nat /\ oldest + WINDOW - now > 0
        /\ oldest + WINDOW - now \in Int
    BY <1>2, <1>3, QuotasAssumption
  <2>2. retryAfterFrom(list) = Max({0, oldest + WINDOW - now})
    BY <1>1 DEF retryAfterFrom
  <2> HIDE DEF oldest
  <2>3. \A x \in Int : x > 0 => Max({0, x}) = x
    BY DEF Max
  <2> QED
    BY <2>1, <2>2, <2>3
<1>5. \A h \in list : h.at \in Nat /\ oldest <= h.at /\ oldest \in Nat
  BY <1>2
<1> HIDE DEF oldest, times
<1>6. Cardinality(pruneOld(list, oldest + WINDOW)) < limit
  <2>1. pruneOld(list, oldest + WINDOW) \in SUBSET (list \ {first})
    BY <1>3, <1>5, QuotasAssumption DEF pruneOld
  <2>2. IsFiniteSet(list \ {first}) /\ Cardinality(list \ {first}) = limit - 1
    BY FS_RemoveElement
  <2>3. /\ Cardinality(pruneOld(list, oldest + WINDOW)) <= Cardinality(list \ {first})
        /\ Cardinality(pruneOld(list, oldest + WINDOW)) \in Nat
    BY <2>1, <2>2, FS_Subset, FS_CardinalityType
  <2> QED
    BY <2>2, <2>3
<1>7. pruneOld(list, oldest + WINDOW - 1) = list /\ limit >= limit
  BY <1>3, <1>5, QuotasAssumption DEF pruneOld
<1> QED
  BY <1>4, <1>6, <1>7

\* A refused caller is told exactly how long to wait.
THEOREM RetryAfterIsHonest == QuotasSpec => []RetryAfterHonest
<1>1. ASSUME LimitInv, NEW hits, hits \subseteq Hit, IsFiniteSet(hits),
             \A h \in hits : h.at <= now,
             NEW list, NEW limit \in Nat \ {0}, Kept(list, hits, limit)
      PROVE  WaitIsExact(pruneOld(list, now), limit)
  <2> DEFINE pruned == pruneOld(list, now)
  <2>1. now \in Nat
    BY <1>1 DEF LimitInv, LimitTypeOK
  <2>2. Kept(pruned, hits, limit) /\ IsFiniteSet(pruned) /\ Cardinality(pruned) \in Nat
    BY <1>1, <2>1, KeptPruned
  <2>3. \A h \in pruned : h \in hits /\ now - h.at < WINDOW
    BY <2>2 DEF Kept, pruneOld
  <2> HIDE DEF pruned
  <2>4. pruned \subseteq Hit /\ \A h \in pruned : h.at <= now /\ now - h.at < WINDOW
    BY <1>1, <2>3
  <2>5. Cardinality(pruned) >= limit => Cardinality(pruned) = limit
    BY <1>1, <2>2 DEF Kept
  <2>6. WaitIsExact(pruned, limit)
    BY <2>1, <2>2, <2>4, <2>5, HonestRetry DEF WaitIsExact
  <2> QED
    BY <2>6 DEF pruned
<1>2. LimitInv => RetryAfterHonest
  <2> SUFFICES ASSUME LimitInv, NEW k \in Kinds
               PROVE  /\ \A i \in Ips : WaitIsExact(pruneOld(ipHits[k][i], now), PerIp[k])
                      /\ WaitIsExact(pruneOld(globalHits[k], now), Global[k])
    BY DEF RetryAfterHonest
  <2>1. /\ granted[k] \subseteq Hit /\ IsFiniteSet(granted[k])
        /\ \A h \in granted[k] : h.at <= now
        /\ Kept(globalHits[k], granted[k], Global[k])
        /\ \A i \in Ips : /\ HitsOf(k, i) \subseteq granted[k] /\ IsFiniteSet(HitsOf(k, i))
                          /\ Kept(ipHits[k][i], HitsOf(k, i), PerIp[k])
    BY HitIsNew DEF LimitInv, LimitTypeOK, KindInv, HitsOf
  <2>2. \A i \in Ips : HitsOf(k, i) \subseteq Hit /\ \A h \in HitsOf(k, i) : h.at <= now
    BY <2>1
  <2>3. ASSUME NEW i \in Ips PROVE WaitIsExact(pruneOld(ipHits[k][i], now), PerIp[k])
    BY <1>1, <2>1, <2>2, LimitTypes
  <2>4. WaitIsExact(pruneOld(globalHits[k], now), Global[k])
    BY <1>1, <2>1, LimitTypes
  <2> QED
    BY <2>3, <2>4
<1> QED
  BY <1>2, LimitAlways, PTL

AskedOK == asked \in 0..MaxRequests

\* The lists, the claims and the balances keep their types, and no balance of the owner goes
\* below zero.
THEOREM QuotasTypeCorrect == QuotasSpec => []QuotasTypeOK
<1>1. QuotasInit => AskedOK
  BY QuotasAssumption DEF QuotasInit, AskedOK
<1>2. AskedOK /\ [QuotasNext]_vars => AskedOK'
  <2> SUFFICES ASSUME AskedOK, [QuotasNext]_vars
               PROVE  asked' = asked \/ (asked < MaxRequests /\ asked' = asked + 1)
    BY QuotasAssumption DEF AskedOK
  <2> QED
    BY DEF QuotasNext, vars, meteredRequest, gasRequest, walletFaucetRequest, makerFaucetRequest,
           readOwnerGas, claimGas, claimFaucet, readReserve, sendGas, sendFxrp, fail,
           visitorSpends, deskSpends, Tick, Begin, Goto, Done
<1>3. AskedOK /\ ClaimTypeOK /\ LimitInv => QuotasTypeOK
  BY DEF AskedOK, ClaimTypeOK, LimitInv, LimitTypeOK, QuotasTypeOK
<1> QED
  BY <1>1, <1>2, <1>3, TypesAlways, LimitAlways, PTL DEF QuotasSpec
=============================================================================
