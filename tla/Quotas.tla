------------------------------- MODULE Quotas --------------------------------
(***************************************************************************)
(* What the server gives away and to whom: the rolling quotas of           *)
(* web/src/lib/demo/ratelimit.ts, the faucet and gas claims of             *)
(* wallet-mode.ts, and the three routes that pay out of the owner's wallet *)
(* (wallet/gas, wallet/faucet, maker/faucet).  All of it is kept in the    *)
(* memory of one process.  A route is split where it awaits; the functions *)
(* of the two libraries have no await and are one step.                    *)
(***************************************************************************)
EXTENDS Integers, FiniteSetsExt

CONSTANTS
  Kinds,              \* RateLimitKind
  PerIp, Global,      \* LIMITS, per kind: none is zero
  Ips, Addresses,
  Askers,             \* bound: which addresses ask at which faucet
  WINDOW, CLAIM_GAP, DAY,       \* 24 h, 10 min, a UTC day
  GAS_DRIP, GAS_ENOUGH, GAS_OWNER_RESERVE, GAS_DAILY_BUDGET,
  FAUCET_MINT,
  OwnerGas, OwnerFxrp,   \* what the owner key holds at the start
  Calls,              \* bound: requests in flight
  MaxRequests,        \* bound: requests for gas or FXRP
  MaxSettled,         \* bound: gas the desk spends on settlements
  MaxTime             \* bound: the clock

ASSUME QuotasAssumption ==
  /\ "maker-faucet" \in Kinds
  /\ IsFiniteSet(Calls) /\ Calls # {} /\ Addresses # {}
  /\ PerIp \in [Kinds -> Nat \ {0}] /\ Global \in [Kinds -> Nat \ {0}]
  /\ WINDOW \in Nat \ {0} /\ CLAIM_GAP \in Nat \ {0} /\ DAY \in Nat \ {0}
  /\ GAS_DRIP \in Nat \ {0} /\ GAS_ENOUGH \in Nat /\ GAS_OWNER_RESERVE \in Nat
  /\ GAS_DAILY_BUDGET \in Nat /\ FAUCET_MINT \in Nat \ {0}
  /\ Askers \in [{"wallet", "maker", "gas"} -> SUBSET Addresses]
  /\ OwnerGas \in Nat /\ OwnerGas >= GAS_OWNER_RESERVE /\ OwnerFxrp \in Nat
  /\ MaxRequests \in Nat

VARIABLES
  now,
  ipHits, globalHits,             \* kind -> (ip ->) consumed hits, kept or not yet dropped
  lastClaim,                      \* scope -> address -> time, for the faucets and for gas
  gasSpentToday, gasBudgetDay,
  gas, ownerGas, ownerFxrp,       \* on chain: C2FLR of visitors and owner, FXRP of the owner
  calls,                          \* the routes in flight
  granted, claims, settled,       \* history: hits, claims, gas the desk spent itself
  asked                           \* requests so far

vars == <<now, ipHits, globalHits, lastClaim, gasSpentToday, gasBudgetDay, gas,
          ownerGas, ownerFxrp, calls, granted, claims, settled,
          asked>>

limitVars == <<ipHits, globalHits, granted>>
claimVars == <<lastClaim, gasSpentToday, gasBudgetDay, claims>>
chainVars == <<gas, ownerGas, ownerFxrp, settled>>

\* An entry of a list of timestamps: whose it is and the how manieth of that caller,
\* so that two at one time stay two.  The code asks of a list how long it is and for
\* its smallest time, never for its order.
Hit == [ip : Ips, at : Nat, n : Nat]

Scopes == {"wallet", "maker", "gas"}

Never == -1

Call == [pc : {"idle", "owner", "claim", "reserve", "send"},
         scope : Scopes, address : Addresses]

IdleCall == [pc |-> "idle", scope |-> "gas", address |-> CHOOSE a \in Addresses : TRUE]

QuotasInit ==
  /\ now = 0
  /\ ipHits = [k \in Kinds |-> [i \in Ips |-> {}]]
  /\ globalHits = [k \in Kinds |-> {}]
  /\ granted = globalHits
  /\ lastClaim = [s \in Scopes |-> [a \in Addresses |-> Never]]
  /\ gasSpentToday = 0 /\ gasBudgetDay = Never
  /\ gas = [a \in Addresses |-> 0] /\ ownerGas = OwnerGas /\ ownerFxrp = OwnerFxrp
  /\ calls = [c \in Calls |-> IdleCall]
  /\ claims = {} /\ settled = 0 /\ asked = 0

-----------------------------------------------------------------------------
(* ratelimit.ts *)
\* Mutant of pruneOld: a hit leaves one tick early.
pruneOldEarly(hits, t) == {h \in hits : t - h.at < WINDOW - 1}

pruneOld(hits, t) == {h \in hits : t - h.at < WINDOW}

\* Mutant of retryAfterFrom: counted from the newest hit.
retryAfterFromNewest(hits) ==
  IF hits = {} THEN 0 ELSE Max({h.at : h \in hits}) + WINDOW - now

retryAfterFrom(hits) ==
  IF hits = {} THEN 0 ELSE Max({0, Min({h.at : h \in hits}) + WINDOW - now})

IpBlocked(kind, ip) == Cardinality(pruneOld(ipHits[kind][ip], now)) >= PerIp[kind]
GlobalBlocked(kind) == Cardinality(pruneOld(globalHits[kind], now)) >= Global[kind]

NewHit(kind, ip) ==
  [ip |-> ip, at |-> now, n |-> Cardinality({h \in granted[kind] : h.ip = ip})]

\* Both lists gain the hit, or the blocking one is pruned.
checkAndConsume(kind, ip) ==
  LET ipTimestamps == pruneOld(ipHits[kind][ip], now)
      globalTimestamps == pruneOld(globalHits[kind], now)
      hit == NewHit(kind, ip)
  IN  \/ /\ IpBlocked(kind, ip)
         /\ ipHits' = [ipHits EXCEPT ![kind][ip] = ipTimestamps]
         /\ UNCHANGED <<globalHits, granted>>
      \/ /\ ~IpBlocked(kind, ip) /\ GlobalBlocked(kind)
         /\ globalHits' = [globalHits EXCEPT ![kind] = globalTimestamps]
         /\ UNCHANGED <<ipHits, granted>>
      \/ /\ ~IpBlocked(kind, ip) /\ ~GlobalBlocked(kind)
         /\ ipHits' = [ipHits EXCEPT ![kind][ip] = ipTimestamps \cup {hit}]
         /\ globalHits' = [globalHits EXCEPT ![kind] = globalTimestamps \cup {hit}]
         /\ granted' = [granted EXCEPT ![kind] = @ \cup {hit}]

-----------------------------------------------------------------------------
(* wallet-mode.ts *)
\* Mutant of RateLimited: one tick too short.
RateLimitedEarly(scope, a) ==
  lastClaim[scope][a] # Never /\ now - lastClaim[scope][a] < CLAIM_GAP - 1

RateLimited(scope, a) ==
  lastClaim[scope][a] # Never /\ now - lastClaim[scope][a] < CLAIM_GAP

\* A claim, and the how manieth of the address at the faucet, so that two at one time
\* stay two.
NewClaim(scope, a) ==
  [scope |-> scope, address |-> a, at |-> now,
   n |-> Cardinality({c \in claims : c.scope = scope /\ c.address = a})]

\* Mutant of RecordClaim: one map for all faucets, as it once was.
RecordSharedClaim(scope, a) ==
  /\ lastClaim' = [s \in Scopes |-> [lastClaim[s] EXCEPT ![a] = now]]
  /\ claims' = claims \cup {NewClaim(scope, a)}

RecordClaim(scope, a) ==
  /\ lastClaim' = [lastClaim EXCEPT ![scope][a] = now]
  /\ claims' = claims \cup {NewClaim(scope, a)}

checkAndRecordFaucetClaim(a, scope) ==
  /\ ~RateLimited(scope, a)
  /\ RecordClaim(scope, a)
  /\ UNCHANGED <<gasSpentToday, gasBudgetDay>>

SpentToday == IF now \div DAY = gasBudgetDay THEN gasSpentToday ELSE 0

\* Mutant of BudgetExhausted: looks at what is spent, not at what will be.
BudgetAlreadyExceeded == SpentToday > GAS_DAILY_BUDGET

BudgetExhausted == SpentToday + GAS_DRIP > GAS_DAILY_BUDGET

\* The counter is reset by the first call of a day that gets past the rate limit.
checkAndRecordGasClaim(a) ==
  /\ ~RateLimited("gas", a) /\ ~BudgetExhausted
  /\ gasBudgetDay' = now \div DAY
  /\ gasSpentToday' = SpentToday + GAS_DRIP
  /\ RecordClaim("gas", a)

refuseGasClaim(a) ==
  \/ RateLimited("gas", a) /\ UNCHANGED claimVars
  \/ /\ ~RateLimited("gas", a) /\ BudgetExhausted
     /\ gasBudgetDay' = now \div DAY /\ gasSpentToday' = SpentToday
     /\ UNCHANGED <<lastClaim, claims>>

-----------------------------------------------------------------------------
(* The routes. *)
Begin(c, pc, scope, a) ==
  /\ calls[c] = IdleCall /\ asked < MaxRequests
  /\ calls' = [calls EXCEPT ![c] = [pc |-> pc, scope |-> scope, address |-> a]]
  /\ asked' = asked + 1

Goto(c, pc) == calls' = [calls EXCEPT ![c].pc = pc] /\ UNCHANGED asked
Done(c) == calls' = [calls EXCEPT ![c] = IdleCall] /\ UNCHANGED asked

\* Any other metered route, or a faucet request with no usable address.
meteredRequest(kind, ip) ==
  /\ checkAndConsume(kind, ip)
  /\ UNCHANGED <<now, claimVars, chainVars, calls, asked>>

\* Whoever can pay for a transaction is answered `skipped`.
gasRequest(c, a) ==
  /\ gas[a] < GAS_ENOUGH
  /\ Begin(c, "owner", "gas", a)
  /\ UNCHANGED <<now, limitVars, claimVars, chainVars>>

\* Mutant of readOwnerGas: forgets that the drip itself comes out of the balance.
readOwnerGasBare(c) ==
  /\ calls[c].pc = "owner"
  /\ IF ownerGas < GAS_OWNER_RESERVE THEN Done(c) ELSE Goto(c, "claim")
  /\ UNCHANGED <<now, limitVars, claimVars, chainVars>>

readOwnerGas(c) ==
  /\ calls[c].pc = "owner"
  /\ IF ownerGas - GAS_DRIP < GAS_OWNER_RESERVE THEN Done(c) ELSE Goto(c, "claim")
  /\ UNCHANGED <<now, limitVars, claimVars, chainVars>>

walletFaucetRequest(c, a) ==
  /\ Begin(c, "claim", "wallet", a)
  /\ UNCHANGED <<now, limitVars, claimVars, chainVars>>

makerFaucetRequest(c, ip, a) ==
  /\ ~IpBlocked("maker-faucet", ip) /\ ~GlobalBlocked("maker-faucet")
  /\ checkAndConsume("maker-faucet", ip)
  /\ Begin(c, "claim", "maker", a)
  /\ UNCHANGED <<now, claimVars, chainVars>>

claimGas(c) ==
  /\ calls[c].pc = "claim" /\ calls[c].scope = "gas"
  /\ \/ checkAndRecordGasClaim(calls[c].address) /\ Goto(c, "send")
     \/ refuseGasClaim(calls[c].address) /\ Done(c)
  /\ UNCHANGED <<now, limitVars, chainVars>>

claimFaucet(c) ==
  /\ calls[c].pc = "claim" /\ calls[c].scope # "gas"
  /\ \/ checkAndRecordFaucetClaim(calls[c].address, calls[c].scope) /\ Goto(c, "reserve")
     \/ RateLimited(calls[c].scope, calls[c].address) /\ Done(c) /\ UNCHANGED claimVars
  /\ UNCHANGED <<now, limitVars, chainVars>>

readReserve(c) ==
  /\ calls[c].pc = "reserve"
  /\ IF ownerFxrp < FAUCET_MINT THEN Done(c) ELSE Goto(c, "send")
  /\ UNCHANGED <<now, limitVars, claimVars, chainVars>>

sendGas(c) ==
  /\ calls[c].pc = "send" /\ calls[c].scope = "gas"
  /\ ownerGas >= GAS_DRIP
  /\ ownerGas' = ownerGas - GAS_DRIP
  /\ gas' = [gas EXCEPT ![calls[c].address] = @ + GAS_DRIP]
  /\ Done(c)
  /\ UNCHANGED <<now, limitVars, claimVars, ownerFxrp, settled>>

sendFxrp(c) ==
  /\ calls[c].pc = "send" /\ calls[c].scope # "gas"
  /\ ownerFxrp >= FAUCET_MINT
  /\ ownerFxrp' = ownerFxrp - FAUCET_MINT
  /\ Done(c)
  /\ UNCHANGED <<now, limitVars, claimVars, gas, ownerGas, settled>>

\* An RPC error or a reverted transfer: a claim already recorded stays so.
fail(c) ==
  /\ calls[c].pc # "idle"
  /\ Done(c)
  /\ UNCHANGED <<now, limitVars, claimVars, chainVars>>

\* A visitor pays for transactions.
visitorSpends(a) ==
  /\ gas[a] > 0
  /\ gas' = [gas EXCEPT ![a] = 0]
  /\ UNCHANGED <<now, limitVars, claimVars, ownerGas, ownerFxrp, settled, calls, asked>>

\* The desk pays for a settlement with the same key.
deskSpends ==
  /\ ownerGas > 0 /\ settled < MaxSettled
  /\ ownerGas' = ownerGas - 1 /\ settled' = settled + 1
  /\ UNCHANGED <<now, limitVars, claimVars, gas, ownerFxrp, calls, asked>>

Tick ==
  /\ now < MaxTime
  /\ now' = now + 1
  /\ UNCHANGED <<limitVars, claimVars, chainVars, calls, asked>>

QuotasNext ==
  \/ \E k \in Kinds, i \in Ips : meteredRequest(k, i)
  \/ \E c \in Calls, a \in Askers["gas"] : gasRequest(c, a)
  \/ \E c \in Calls, a \in Askers["wallet"] : walletFaucetRequest(c, a)
  \/ \E c \in Calls, a \in Askers["maker"], i \in Ips : makerFaucetRequest(c, i, a)
  \/ \E c \in Calls :
       \/ readOwnerGas(c) \/ claimGas(c) \/ claimFaucet(c) \/ readReserve(c)
       \/ sendGas(c) \/ sendFxrp(c) \/ fail(c)
  \/ \E a \in Addresses : visitorSpends(a)
  \/ deskSpends \/ Tick

QuotasSpec == QuotasInit /\ [][QuotasNext]_vars

-----------------------------------------------------------------------------
\* Every variable keeps its type: no balance of the owner goes below zero.
QuotasTypeOK ==
  /\ now \in Nat
  /\ ipHits \in [Kinds -> [Ips -> SUBSET Hit]]
  /\ globalHits \in [Kinds -> SUBSET Hit] /\ granted \in [Kinds -> SUBSET Hit]
  /\ lastClaim \in [Scopes -> [Addresses -> Nat \cup {Never}]]
  /\ gasSpentToday \in 0..GAS_DAILY_BUDGET /\ gasBudgetDay \in Nat \cup {Never}
  /\ gas \in [Addresses -> Nat] /\ ownerGas \in Nat /\ ownerFxrp \in Nat /\ settled \in Nat
  /\ calls \in [Calls -> Call] /\ asked \in 0..MaxRequests

\* Hits granted to a set of callers in the WINDOW ticks from `from` on.
GrantedWithin(kind, ips, from) ==
  Cardinality({h \in granted[kind] : h.ip \in ips /\ h.at \in from..(from + WINDOW - 1)})

\* In any 24 hours, wherever they start, no caller and no set of callers gets
\* more than the limits say (ratelimit.ts: checkAndConsume), though a caller
\* refused for one limit touches only that list.
RollingQuota ==
  \A k \in Kinds, from \in 0..now :
    /\ \A i \in Ips : GrantedWithin(k, {i}, from) <= PerIp[k]
    /\ GrantedWithin(k, Ips, from) <= Global[k]

\* A list that refuses has room after the wait that is told, and not one tick sooner.
WaitIsExact(hits, limit) ==
  Cardinality(hits) >= limit =>
    /\ Cardinality(pruneOld(hits, now + retryAfterFrom(hits))) < limit
    /\ Cardinality(pruneOld(hits, now + retryAfterFrom(hits) - 1)) >= limit

\* A refused caller is told exactly how long to wait: after that time, and not
\* one tick sooner, the list that blocked has room (ratelimit.ts: retryAfterFrom).
RetryAfterHonest ==
  \A k \in Kinds :
    /\ \A i \in Ips : WaitIsExact(pruneOld(ipHits[k][i], now), PerIp[k])
    /\ WaitIsExact(pruneOld(globalHits[k], now), Global[k])

\* The drips authorised on one UTC day never exceed the daily budget, whichever
\* call came first that day (wallet-mode.ts: checkAndRecordGasClaim).
GasDayBudget ==
  \A day \in 0..(now \div DAY) :
    GAS_DRIP * Cardinality({c \in claims : c.scope = "gas" /\ c.at \div DAY = day})
      <= GAS_DAILY_BUDGET

\* Any two claims of one address at one faucet are ten minutes apart, with any number
\* of its requests in flight; and a faucet refuses an address only after a claim at
\* that same faucet (wallet-mode.ts: one map per faucet).
ClaimsSpaced ==
  /\ \A c, d \in claims :
       (c # d /\ c.scope = d.scope /\ c.address = d.address /\ c.at <= d.at)
         => d.at - c.at >= CLAIM_GAP
  /\ \A s \in Scopes, a \in Addresses :
       RateLimited(s, a) => \E c \in claims : c.scope = s /\ c.address = a /\ c.at = lastClaim[s][a]

\* Drips cut into the gas the desk keeps for settlements by at most one drip for
\* every other request that was in flight: the balance is read, then the claim
\* is recorded, then the drip is sent (gas/route.ts).
ReserveOvershootBounded ==
  ownerGas >= GAS_OWNER_RESERVE - settled - GAS_DRIP * (Cardinality(Calls) - 1)
=============================================================================
