----------------------------- MODULE SealedBook -----------------------------
(***************************************************************************)
(* extension/matcher/book.go: the RAM-only order book.  Every method holds *)
(* book.mu from start to end, so each is one step of the book; what a      *)
(* caller does between two of them is interleaved with everybody else.     *)
(***************************************************************************)
EXTENDS Matcher

CONSTANTS
  MinBlockFxrpRaw,   \* WD_MIN_BLOCK_FXRP_RAW
  RfqWindowSec,      \* WD_RFQ_WINDOW_SEC
  RfqTTLSec,         \* WD_RFQ_TTL_SEC
  EmptyXrplAddress

ASSUME BookAssumption ==
  /\ MinBlockFxrpRaw \in Nat /\ RfqWindowSec \in Nat /\ RfqTTLSec \in Nat

RFQ ==
  [open : BOOLEAN, taker : Parties \cup {NoParty}, amount : Nat, limit : Nat,
   xrplAddress : XrplAddresses \cup {EmptyXrplAddress}, windowEndsAt : Nat,
   expiresAt : Nat, matched : BOOLEAN, outcome : MatchOutcome]

Quote ==
  [resting : BOOLEAN, maker : Parties \cup {NoParty}, price : Nat, maxFxrp : Nat,
   nonce : Nat, receivedAt : Nat, seq : Nat]

VARIABLES
  rfqs,      \* rfqId => RFQ, open = FALSE when the map has no such key
  quotes,    \* rfqId => maker => Quote, resting = FALSE when there is none
  nextSeq    \* global intake counter

bookVars == <<rfqs, quotes, nextSeq>>

NoRfq ==
  [open |-> FALSE, taker |-> NoParty, amount |-> 0, limit |-> 0,
   xrplAddress |-> EmptyXrplAddress, windowEndsAt |-> 0, expiresAt |-> 0,
   matched |-> FALSE, outcome |-> NO_MATCH]

NoQuote ==
  [resting |-> FALSE, maker |-> NoParty, price |-> 0, maxFxrp |-> 0, nonce |-> 0,
   receivedAt |-> 0, seq |-> 0]

NoQuotes == [m \in Parties |-> NoQuote]

BookInit ==
  /\ rfqs = [id \in RfqIds |-> NoRfq]
  /\ quotes = [id \in RfqIds |-> NoQuotes]
  /\ nextSeq = 0

AddRFQUnaddressed(id, taker, amount, limit, xrplAddress, at) ==
  /\ amount >= MinBlockFxrpRaw
  /\ limit > 0
  /\ ~rfqs[id].open
  /\ rfqs' = [rfqs EXCEPT ![id] =
                [open |-> TRUE, taker |-> taker, amount |-> amount, limit |-> limit,
                 xrplAddress |-> xrplAddress, windowEndsAt |-> at + RfqWindowSec,
                 expiresAt |-> at + RfqTTLSec, matched |-> FALSE, outcome |-> NO_MATCH]]
  /\ quotes' = [quotes EXCEPT ![id] = NoQuotes]
  /\ UNCHANGED nextSeq

AddRFQ(id, taker, amount, limit, xrplAddress, at) ==
  /\ amount >= MinBlockFxrpRaw
  /\ xrplAddress # EmptyXrplAddress
  /\ limit > 0
  /\ ~rfqs[id].open
  /\ rfqs' = [rfqs EXCEPT ![id] =
                [open |-> TRUE, taker |-> taker, amount |-> amount, limit |-> limit,
                 xrplAddress |-> xrplAddress, windowEndsAt |-> at + RfqWindowSec,
                 expiresAt |-> at + RfqTTLSec, matched |-> FALSE, outcome |-> NO_MATCH]]
  /\ quotes' = [quotes EXCEPT ![id] = NoQuotes]
  /\ UNCHANGED nextSeq

UpsertAnyNonce(id, maker, price, maxFxrp, nonce, at) ==
  /\ rfqs[id].open
  /\ nextSeq' = nextSeq + 1
  /\ quotes' = [quotes EXCEPT ![id][maker] =
                  [resting |-> TRUE, maker |-> maker, price |-> price, maxFxrp |-> maxFxrp,
                   nonce |-> nonce, receivedAt |-> at, seq |-> nextSeq']]
  /\ UNCHANGED rfqs

UpsertQuote(id, maker, price, maxFxrp, nonce, at) ==
  /\ rfqs[id].open
  /\ quotes[id][maker].resting => nonce > quotes[id][maker].nonce
  /\ nextSeq' = nextSeq + 1
  /\ quotes' = [quotes EXCEPT ![id][maker] =
                  [resting |-> TRUE, maker |-> maker, price |-> price, maxFxrp |-> maxFxrp,
                   nonce |-> nonce, receivedAt |-> at, seq |-> nextSeq']]
  /\ UNCHANGED rfqs

Makers(id) == {m \in Parties : quotes[id][m].resting}

RestingQuotes(id) == {quotes[id][m] : m \in Makers(id)}

markNothing(id, outcome) == UNCHANGED bookVars

\* The RFQ may have been collected since it was read.
markMatched(id, outcome) ==
  /\ rfqs' = IF rfqs[id].open
             THEN [rfqs EXCEPT ![id] = [rfqs[id] EXCEPT !.matched = TRUE, !.outcome = outcome]]
             ELSE rfqs
  /\ UNCHANGED <<quotes, nextSeq>>

\* Only tests call GC at this commit: the janitor the design describes is left
\* to callers.
GC(at) ==
  LET expired == {id \in RfqIds : rfqs[id].open /\ at > rfqs[id].expiresAt}
  IN  /\ rfqs' = [id \in RfqIds |-> IF id \in expired THEN NoRfq ELSE rfqs[id]]
      /\ quotes' = [id \in RfqIds |-> IF id \in expired THEN NoQuotes ELSE quotes[id]]
      /\ UNCHANGED nextSeq
=============================================================================
