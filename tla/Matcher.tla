------------------------------ MODULE Matcher -------------------------------
(***************************************************************************)
(* extension/matcher/match.go: the matching function of the enclave.  It   *)
(* is pure: the RFQ, its resting quotes, a snapshot of cached chain state  *)
(* and the time are arguments.                                             *)
(***************************************************************************)
EXTENDS Integers, SequencesExt

CONSTANTS
  Parties,            \* addresses of takers and makers
  RfqIds,
  XrplAddresses,
  Escrow,             \* the escrow address the engine is configured with
  NoParty,            \* stands for no address
  BIPS,               \* 10_000
  BandBips,           \* WD_BAND_BPS
  BondBips,           \* the enclave's copy of the 1% bond requirement
  QuoteTTLSec,        \* WD_QUOTE_TTL_SEC
  MaxPriceStaleness,
  InstructionTTL      \* 300

ASSUME MatcherAssumption ==
  /\ BIPS \in Nat \ {0} /\ BandBips \in 0..BIPS /\ BondBips \in 0..BIPS
  /\ QuoteTTLSec \in Nat /\ MaxPriceStaleness \in Nat /\ InstructionTTL \in Nat

MatchInstruction ==
  [matchId : RfqIds, escrow : {Escrow}, taker : Parties, maker : Parties,
   amountFxrp : Nat, priceUsd18 : Nat, takerXrplAddress : XrplAddresses,
   instructionExpiresAt : Nat]

ChainSnapshot ==
  [mid : Nat, midAge : Int, freeBond : [Parties -> Nat], takerAvailable : Nat]

\* Outcomes: MATCHED carries the instruction to sign.
NO_MATCH == [kind |-> "NO_MATCH", mi |-> NoParty]
MATCHED(mi) == [kind |-> "MATCHED", mi |-> mi]

MatchOutcome == {NO_MATCH} \cup [kind : {"MATCHED"}, mi : MatchInstruction]

PriceUsable(snap) == snap.mid > 0 /\ snap.midAge <= MaxPriceStaleness

inBandFromBelow(price, mid) == price * BIPS >= mid * (BIPS - BandBips)

inBand(price, mid) ==
  /\ price * BIPS >= mid * (BIPS - BandBips)
  /\ price * BIPS <= mid * (BIPS + BandBips)

requiredBond(amount) == (amount * BondBips) \div BIPS

EligibleUnderLimit(q, rfq, snap, at) ==
  /\ q.maker # rfq.taker
  /\ at - q.receivedAt \in 0..(QuoteTTLSec - 1)
  /\ q.maxFxrp >= rfq.amount
  /\ inBand(q.price, snap.mid)
  /\ snap.freeBond[q.maker] >= requiredBond(rfq.amount)

\* The six filters, none of which depends on another quote.
Eligible(q, rfq, snap, at) ==
  /\ q.maker # rfq.taker
  /\ at - q.receivedAt \in 0..(QuoteTTLSec - 1)
  /\ q.maxFxrp >= rfq.amount
  /\ inBand(q.price, snap.mid)
  /\ q.price >= rfq.limit
  /\ snap.freeBond[q.maker] >= requiredBond(rfq.amount)

BeatsFirstComer(q, best) == q.price > best.price

\* One turn of the winner loop.
Beats(q, best) == q.price > best.price \/ (q.price = best.price /\ q.seq < best.seq)

\* The loop, over the eligible quotes in the order a Go map happened to yield: winner[n]
\* is the winner among the first n.
Scan(eligible) ==
  LET winner[n \in 1..Len(eligible)] ==
        IF n = 1 THEN eligible[1]
        ELSE IF Beats(eligible[n], winner[n - 1]) THEN eligible[n] ELSE winner[n - 1]
  IN  winner[Len(eligible)]

\* What the loop computes: price-time priority.  The model uses this form;
\* ScanIsOrderFree in Enclave compares the two.
IsWinner(winner, eligible) ==
  \A q \in eligible \ {winner} :
    q.price < winner.price \/ (q.price = winner.price /\ q.seq > winner.seq)

Instruction(id, rfq, winner, at) ==
  [matchId |-> id, escrow |-> Escrow, taker |-> rfq.taker, maker |-> winner.maker,
   amountFxrp |-> rfq.amount, priceUsd18 |-> winner.price,
   takerXrplAddress |-> rfq.xrplAddress, instructionExpiresAt |-> at + InstructionTTL]

EligibleQuotes(rfq, resting, snap, at) == {q \in resting : Eligible(q, rfq, snap, at)}

\* The three results of matchCore: WD_ERR_PRICE_STALE when the price is not
\* usable, and otherwise NO_MATCH or the instructions it may build.
FindsNobody(rfq, resting, snap, at) ==
  snap.takerAvailable < rfq.amount \/ EligibleQuotes(rfq, resting, snap, at) = {}

Matches(id, rfq, resting, snap, at) ==
  LET eligible == EligibleQuotes(rfq, resting, snap, at)
  IN  {Instruction(id, rfq, w, at) : w \in {q \in eligible : IsWinner(q, eligible)}}
=============================================================================
