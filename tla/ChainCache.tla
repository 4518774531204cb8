----------------------------- MODULE ChainCache -----------------------------
(***************************************************************************)
(* extension/fcewire/snapshot.go and chainreads.go: the cache the matching *)
(* prefilter reads instead of the chain.  One goroutine polls the price,   *)
(* then every tracked maker, then every tracked taker, each by an RPC of   *)
(* its own that may fail and leaves the old value when it does.            *)
(***************************************************************************)
EXTENDS Matcher

CONSTANTS
  PriceStaleMaxSec,   \* WD_PRICE_STALE_MAX_SEC
  MAX_U64             \* math.MaxUint64

ASSUME CacheAssumption == PriceStaleMaxSec \in Nat /\ MAX_U64 \in Nat

VARIABLES
  now,
  chainMid,       \* FTSOv2 getFeedByIdInWei
  chainBond,      \* BondLedger.freeBond
  chainBalances,  \* DvPEscrow.balances
  tracked,        \* [makers, takers] the goroutine keeps warm
  cache           \* [mid, fetched, midFetchAt, bondFree, takerAvail]

EmptyCache ==
  [mid |-> 0, fetched |-> FALSE, midFetchAt |-> 0,
   bondFree |-> [p \in Parties |-> 0], takerAvail |-> [p \in Parties |-> 0]]

NothingTracked == [makers |-> {}, takers |-> {}]

CacheInit == tracked = NothingTracked /\ cache = EmptyCache

TrackMaker(m) == tracked' = [tracked EXCEPT !.makers = @ \cup {m}]

TrackTaker(t) == tracked' = [tracked EXCEPT !.takers = @ \cup {t}]

clampUint64(v) == IF v > MAX_U64 THEN MAX_U64 ELSE v

availableIgnoringCommitted(b) == IF now <= b.armedUntil THEN clampUint64(b.armed) ELSE 0

available(b) ==
  LET armed == clampUint64(b.armed)
      committed == clampUint64(b.committed)
  IN  IF armed > committed /\ now <= b.armedUntil THEN armed - committed ELSE 0

refreshMid ==
  /\ cache' = [cache EXCEPT !.mid = chainMid, !.fetched = TRUE, !.midFetchAt = now]
  /\ UNCHANGED tracked

refreshBond(m) ==
  /\ m \in tracked.makers
  /\ cache' = [cache EXCEPT !.bondFree[m] = clampUint64(chainBond[m])]
  /\ UNCHANGED tracked

refreshTaker(t) ==
  /\ t \in tracked.takers
  /\ cache' = [cache EXCEPT !.takerAvail[t] = available(chainBalances[t])]
  /\ UNCHANGED tracked

\* What RFQ_MATCH sees: a maker who was not yet resting counts as unbonded.
Snapshot(taker, makers, at) ==
  [mid |-> cache.mid,
   midAge |-> IF cache.fetched THEN at - cache.midFetchAt ELSE PriceStaleMaxSec + 1,
   freeBond |-> [m \in Parties |-> IF m \in makers THEN cache.bondFree[m] ELSE 0],
   takerAvailable |-> cache.takerAvail[taker]]
=============================================================================
