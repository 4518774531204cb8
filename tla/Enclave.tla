------------------------------ MODULE Enclave -------------------------------
(***************************************************************************)
(* extension/fcewire/handler.go over extension/matcher: the WD_RFQ handler *)
(* inside the TEE.  RFQ_SUBMIT and QUOTE_SUBMIT are one book operation each*)
(* and are atomic here.  RFQ_MATCH is not: it takes the book lock three    *)
(* times, reads the cache and calls the sign port in between, and several  *)
(* requests can be in flight.  A restart loses everything in memory and    *)
(* the node comes back with another identity key.                          *)
(***************************************************************************)
EXTENDS SealedBook, ChainCache, FiniteSets

CONSTANTS
  Keys,            \* TEE identity keys, one per boot
  RfqMessages,     \* bound: sealed RFQs [id, submitter, sender, taker, amount, limit, xrplAddress]
  QuoteMessages,   \* bound: sealed quotes [id, signer, maker, price, maxFxrp, nonce]
  AllowDirectRfq,  \* WD_ALLOW_DIRECT_RFQ
  Tasks,           \* RFQ_MATCH requests in flight
  ChainStates,     \* bound: what the chain may show [mid, bond, balances]
  MaxTime,         \* bound on the clock
  MaxSeq           \* bound on the quotes taken in

\* What is on the wire and on the chain is typed; EVM integers are unsigned.
ASSUME EnclaveAssumption ==
  /\ RfqMessages \subseteq
       [id : RfqIds, submitter : Parties, sender : Parties, taker : Parties,
        amount : Nat, limit : Nat, xrplAddress : XrplAddresses \cup {EmptyXrplAddress}]
  /\ QuoteMessages \subseteq
       [id : RfqIds, signer : Parties, maker : Parties, price : Nat, maxFxrp : Nat,
        nonce : Nat]
  /\ ChainStates \subseteq
       [mid : Nat, bond : [Parties -> Nat],
        balances : [Parties -> [armed : Nat, committed : Nat, armedUntil : Nat]]]

VARIABLES
  teeKey,
  usedKeys,   \* keys of this and earlier boots
  mined,      \* instruction ids delivered so far; the chain never repeats one
  tasks,      \* the local variables of each request
  signed,     \* every instruction signed, with the key it was signed with
  answers     \* rfqId => outcomes returned with status 1 since the RFQ was taken in

chainVars == <<chainMid, chainBond, chainBalances>>
cacheVars == <<tracked, cache>>
nodeVars == <<teeKey, usedKeys>>
vars == <<now, chainVars, bookVars, cacheVars, nodeVars, mined, tasks, signed, answers>>

NoSnapshot == [mid |-> 0, midAge |-> 0, freeBond |-> [p \in Parties |-> 0], takerAvailable |-> 0]

Idle ==
  [pc |-> "idle", id |-> NoParty, taker |-> NoParty, makers |-> {}, at |-> 0,
   snap |-> NoSnapshot, outcome |-> NO_MATCH]

EnclaveInit ==
  /\ BookInit
  /\ CacheInit
  /\ usedKeys = {teeKey}
  /\ mined = {}
  /\ tasks = [k \in Tasks |-> Idle]
  /\ signed = {}
  /\ answers = [id \in RfqIds |-> {}]

-----------------------------------------------------------------------------
(***************************************************************************)
(* Intake.                                                                 *)
(***************************************************************************)
handleRfqSubmitUnbound(msg) ==
  /\ AddRFQ(msg.id, msg.sender, msg.amount, msg.limit, msg.xrplAddress, now)
  /\ TrackTaker(msg.sender)
  /\ UNCHANGED cache

\* The party is the envelope's sender; the plaintext must name the same one.
handleRfqSubmit(msg) ==
  /\ msg.taker = msg.sender
  /\ AddRFQ(msg.id, msg.sender, msg.amount, msg.limit, msg.xrplAddress, now)
  /\ TrackTaker(msg.sender)
  /\ UNCHANGED cache

\* WhisperDeskInstructionSender.submitRfq puts its own caller in the envelope.
rfqFromInstruction(msg) ==
  /\ msg.sender = msg.submitter
  /\ msg.id \notin mined
  /\ mined' = mined \cup {msg.id}
  /\ handleRfqSubmit(msg)
  /\ answers' = [answers EXCEPT ![msg.id] = {}]
  /\ UNCHANGED <<nodeVars, tasks, signed>>

\* The demo ingress: whatever sender the caller wrote into the envelope.
rfqFromDirect(msg) ==
  /\ AllowDirectRfq
  /\ handleRfqSubmit(msg)
  /\ answers' = [answers EXCEPT ![msg.id] = {}]
  /\ UNCHANGED <<nodeVars, mined, tasks, signed>>

\* A quote may arrive late, twice or out of order; the signature is the maker's.
handleQuoteSubmit(msg) ==
  /\ nextSeq < MaxSeq
  /\ msg.price > 0
  /\ msg.signer = msg.maker
  /\ UpsertQuote(msg.id, msg.maker, msg.price, msg.maxFxrp, msg.nonce, now)
  /\ TrackMaker(msg.maker)
  /\ UNCHANGED <<cache, nodeVars, mined, tasks, signed, answers>>

-----------------------------------------------------------------------------
(***************************************************************************)
(* RFQ_MATCH, permissionless over both ingresses.                          *)
(***************************************************************************)
Goto(k, step) == tasks' = [tasks EXCEPT ![k] = step]

Answer(id, outcome) == answers' = [answers EXCEPT ![id] = @ \cup {outcome}]

\* book.Participants; an unknown RFQ is refused.
startMatch(k, id) ==
  /\ tasks[k].pc = "idle"
  /\ rfqs[id].open
  /\ Goto(k, [Idle EXCEPT !.pc = "snapshot", !.id = id, !.taker = rfqs[id].taker,
                          !.makers = Makers(id)])
  /\ UNCHANGED <<bookVars, cacheVars, nodeVars, mined, signed, answers>>

\* now := time.Now(), then the cached view of the participants just read.
takeSnapshot(k) ==
  /\ tasks[k].pc = "snapshot"
  /\ Goto(k, [tasks[k] EXCEPT !.pc = "match", !.at = now,
                              !.snap = Snapshot(tasks[k].taker, tasks[k].makers, now)])
  /\ UNCHANGED <<bookVars, cacheVars, nodeVars, mined, signed, answers>>

\* CachedOutcome answers a replay ...
answerFromCache(k) ==
  LET id == tasks[k].id IN
  /\ tasks[k].pc = "match"
  /\ rfqs[id].open /\ rfqs[id].matched
  /\ Answer(id, rfqs[id].outcome)
  /\ Goto(k, Idle)
  /\ UNCHANGED <<bookVars, cacheVars, nodeVars, mined, signed>>

\* ... and otherwise the book is copied and matchCore run on the copy.  The two
\* book accesses are one step, taken where the second is: of what can fall
\* between them, the first reads only what markMatched writes, and a request
\* that saw the RFQ unmatched just before is one that decided just before.
Decidable(t) ==
  /\ t.pc = "match"
  /\ rfqs[t.id].open /\ ~rfqs[t.id].matched
  /\ t.at >= rfqs[t.id].windowEndsAt
  /\ PriceUsable(t.snap)

refuse(k) ==
  /\ tasks[k].pc = "match"
  /\ ~(rfqs[tasks[k].id].open /\ rfqs[tasks[k].id].matched)
  /\ ~Decidable(tasks[k])
  /\ Goto(k, Idle)
  /\ UNCHANGED <<bookVars, cacheVars, nodeVars, mined, signed, answers>>

findNoMatch(k) ==
  LET t == tasks[k] IN
  /\ Decidable(t)
  /\ FindsNobody(rfqs[t.id], RestingQuotes(t.id), t.snap, t.at)
  /\ Goto(k, [t EXCEPT !.pc = "mark", !.outcome = NO_MATCH])
  /\ UNCHANGED <<bookVars, cacheVars, nodeVars, mined, signed, answers>>

findMatch(k) ==
  LET t == tasks[k] IN
  /\ Decidable(t)
  /\ ~FindsNobody(rfqs[t.id], RestingQuotes(t.id), t.snap, t.at)
  /\ \E mi \in Matches(t.id, rfqs[t.id], RestingQuotes(t.id), t.snap, t.at) :
       Goto(k, [t EXCEPT !.pc = "sign", !.outcome = MATCHED(mi)])
  /\ UNCHANGED <<bookVars, cacheVars, nodeVars, mined, signed, answers>>

\* The sign port, a loopback call cut off after 1.5 s; the node may have signed
\* even then, though nobody here sees the signature.
NodeSigns(k) == signed' = signed \cup {[mi |-> tasks[k].outcome.mi, key |-> teeKey]}

signMatch(k) ==
  /\ tasks[k].pc = "sign"
  /\ NodeSigns(k)
  /\ Goto(k, [tasks[k] EXCEPT !.pc = "mark"])
  /\ UNCHANGED <<bookVars, cacheVars, nodeVars, mined, answers>>

signFails(k) ==
  /\ tasks[k].pc = "sign"
  /\ Goto(k, Idle)
  /\ UNCHANGED <<bookVars, cacheVars, nodeVars, mined, signed, answers>>

signTimesOut(k) ==
  /\ tasks[k].pc = "sign"
  /\ NodeSigns(k)
  /\ Goto(k, Idle)
  /\ UNCHANGED <<bookVars, cacheVars, nodeVars, mined, answers>>

markAndAnswer(k) ==
  /\ tasks[k].pc = "mark"
  /\ markMatched(tasks[k].id, tasks[k].outcome)
  /\ Answer(tasks[k].id, tasks[k].outcome)
  /\ Goto(k, Idle)
  /\ UNCHANGED <<cacheVars, nodeVars, mined, signed>>

-----------------------------------------------------------------------------
refresh ==
  /\ refreshMid \/ \E p \in Parties : refreshBond(p) \/ refreshTaker(p)
  /\ UNCHANGED <<bookVars, nodeVars, mined, tasks, signed, answers>>

collect ==
  /\ GC(now)
  /\ UNCHANGED <<cacheVars, nodeVars, mined, tasks, signed, answers>>

\* Everything but what has left the enclave is lost, the key included.
restart(key) ==
  /\ key \notin usedKeys
  /\ teeKey' = key
  /\ usedKeys' = usedKeys \cup {key}
  /\ rfqs' = [id \in RfqIds |-> NoRfq]
  /\ quotes' = [id \in RfqIds |-> NoQuotes]
  /\ nextSeq' = 0
  /\ tracked' = NothingTracked
  /\ cache' = EmptyCache
  /\ tasks' = [k \in Tasks |-> Idle]
  /\ answers' = [id \in RfqIds |-> {}]
  /\ UNCHANGED <<mined, signed>>

MatchStep(k) ==
  \/ \E id \in RfqIds : startMatch(k, id)
  \/ takeSnapshot(k)
  \/ answerFromCache(k)
  \/ refuse(k)
  \/ findNoMatch(k)
  \/ findMatch(k)
  \/ signMatch(k)
  \/ signFails(k)
  \/ signTimesOut(k)
  \/ markAndAnswer(k)

\* Everything the enclave does; the clock and the chain stay where they are.
EnclaveStep ==
  \/ \E msg \in RfqMessages : rfqFromInstruction(msg) \/ rfqFromDirect(msg)
  \/ \E msg \in QuoteMessages : handleQuoteSubmit(msg)
  \/ \E k \in Tasks : MatchStep(k)
  \/ refresh
  \/ collect
  \/ \E key \in Keys : restart(key)

-----------------------------------------------------------------------------
(***************************************************************************)
(* The enclave on its own, beside a clock and a chain that may show        *)
(* anything in ChainStates at any time.                                    *)
(***************************************************************************)
ChainShows(c) == chainMid = c.mid /\ chainBond = c.bond /\ chainBalances = c.balances

Init ==
  /\ now = 0
  /\ \E c \in ChainStates : ChainShows(c)
  /\ teeKey \in Keys
  /\ EnclaveInit

Tick ==
  /\ now < MaxTime
  /\ now' = now + 1
  /\ UNCHANGED <<chainVars, bookVars, cacheVars, nodeVars, mined, tasks, signed, answers>>

ChainMoves ==
  /\ \E c \in ChainStates :
       chainMid' = c.mid /\ chainBond' = c.bond /\ chainBalances' = c.balances
  /\ UNCHANGED <<now, bookVars, cacheVars, nodeVars, mined, tasks, signed, answers>>

Next ==
  \/ EnclaveStep /\ UNCHANGED <<now, chainVars>>
  \/ Tick
  \/ ChainMoves

Spec == Init /\ [][Next]_vars

-----------------------------------------------------------------------------
(***************************************************************************)
(* Properties.                                                             *)
(***************************************************************************)
TaskSteps == {"idle", "snapshot", "match", "sign", "mark"}

Request ==
  [pc : TaskSteps, id : RfqIds \cup {NoParty}, taker : Parties \cup {NoParty},
   makers : SUBSET Parties, at : Nat, snap : ChainSnapshot, outcome : MatchOutcome]

\* Every variable keeps its type.
TypeOK ==
  /\ now \in Nat /\ nextSeq \in Nat
  /\ [mid |-> chainMid, bond |-> chainBond, balances |-> chainBalances] \in ChainStates
  /\ tracked \in [makers : SUBSET Parties, takers : SUBSET Parties]
  /\ cache \in [mid : Nat, fetched : BOOLEAN, midFetchAt : Nat,
                bondFree : [Parties -> Nat], takerAvail : [Parties -> Nat]]
  /\ teeKey \in usedKeys /\ usedKeys \subseteq Keys
  /\ mined \subseteq RfqIds
  /\ rfqs \in [RfqIds -> RFQ]
  /\ quotes \in [RfqIds -> [Parties -> Quote]]
  /\ tasks \in [Tasks -> Request]
  /\ \A k \in Tasks : tasks[k].pc # "idle" => tasks[k].id \in RfqIds
  /\ signed \subseteq [mi : MatchInstruction, key : usedKeys]
  /\ answers \in [RfqIds -> SUBSET MatchOutcome]

\* An instruction its parties asked for: the taker sealed (and, unless the demo
\* ingress is on, submitted) an RFQ with that amount and address, and the maker
\* signed a quote for it at exactly that price, large enough and at or above the
\* taker's limit.
WithinTerms(mi) ==
  \E r \in RfqMessages, q \in QuoteMessages :
    /\ r.id = mi.matchId /\ r.taker = mi.taker
    /\ AllowDirectRfq \/ r.submitter = mi.taker
    /\ r.amount = mi.amountFxrp /\ r.xrplAddress = mi.takerXrplAddress
    /\ q.id = mi.matchId /\ q.signer = mi.maker /\ q.maker = mi.maker
    /\ q.price = mi.priceUsd18 /\ q.price >= r.limit /\ q.maxFxrp >= r.amount
    /\ mi.maker # mi.taker

\* The TEE signs no trade its parties did not ask for, whatever is replayed,
\* late, lost in a restart or running concurrently.
SignedWithinTerms == \A s \in signed : WithinTerms(s.mi)

\* Every request for an RFQ in the book gets the same outcome, whoever triggers it
\* and however often: RFQ_MATCH is idempotent (match.go: "a replayed call for an
\* already-matched rfqId returns the cached outcome").
AnswersAgree == \A id \in RfqIds : Cardinality(answers[id]) <= 1

\* Price-time priority, whatever order the map yields the quotes in: over every
\* part of what can rest in the book, the loop ends at the one winner, the
\* dearest quote and among equally dear ones the first taken in.
ScanIsOrderFree ==
  \A id \in RfqIds : \A eligible \in (SUBSET RestingQuotes(id)) \ {{}} :
    \A order \in SetToSeqs(eligible) :
      {q \in eligible : IsWinner(q, eligible)} = {Scan(order)}

\* A quote delivered late, twice or out of order never displaces a newer one of
\* the same maker, and a replacement loses the time priority of what it replaces.
QuotesOnlyAdvance ==
  [][\A id \in RfqIds, m \in Parties :
       LET old == quotes[id][m]
           new == quotes'[id][m]
       IN  (new # old /\ old.resting /\ new.resting) =>
             /\ new.nonce > old.nonce
             /\ \A other \in Parties : new.seq > quotes[id][other].seq]_vars

\* Clamping 128-bit reads to 64 bits only ever makes the prefilter stricter:
\* what the cache may be told is available is never more than the escrow would
\* let the taker commit.
PrefilterConservative ==
  \A p \in Parties :
    LET b == chainBalances[p]
    IN  available(b) > 0 => now <= b.armedUntil /\ available(b) <= b.armed - b.committed

\* A run that answered NO_MATCH is still alive, because the maker can quote
\* again: a request that finds an eligible quote is not answered NO_MATCH.
NoMatchIsCurrent ==
  [][\A k \in Tasks :
       (answerFromCache(k) /\ rfqs[tasks[k].id].outcome = NO_MATCH) =>
         LET t == tasks[k]
         IN  PriceUsable(t.snap) =>
               FindsNobody(rfqs[t.id], RestingQuotes(t.id), t.snap, t.at)]_vars
=============================================================================
