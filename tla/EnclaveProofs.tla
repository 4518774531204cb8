--------------------------- MODULE EnclaveProofs ----------------------------
(***************************************************************************)
(* Theorems about Enclave: the type invariant, what is signed, the order   *)
(* in which quotes replace each other, which of them wins, that requests   *)
(* one at a time agree, and what the chain cache tells the prefilter.      *)
(***************************************************************************)
EXTENDS Enclave, FiniteSetTheorems, TLAPS

-----------------------------------------------------------------------------
(***************************************************************************)
(* The clamp of the chain reads.                                           *)
(***************************************************************************)

\* What the cache reads is what the contracts can hold: unsigned integers.
BalancesAreUnsigned ==
  \A p \in Parties :
    chainBalances[p].armed \in Nat /\ chainBalances[p].committed \in Nat

\* Saturating a read gives a 64-bit value and never raises it.
LEMMA ClampBelow ==
  ASSUME NEW v \in Nat
  PROVE  clampUint64(v) \in 0..MAX_U64 /\ clampUint64(v) <= v
BY CacheAssumption DEF clampUint64

\* The difference of two clamped reads is at most the difference of the reads:
\* where armed is cut, committed is either cut to the same value or left alone.
LEMMA ClampedDifference ==
  ASSUME NEW armed \in Nat, NEW committed \in Nat,
         clampUint64(armed) > clampUint64(committed)
  PROVE  clampUint64(armed) - clampUint64(committed) <= armed - committed
<1>. USE CacheAssumption
<1>1. CASE committed > MAX_U64
  BY <1>1, ClampBelow DEF clampUint64
<1>2. CASE committed <= MAX_U64
  BY <1>2, ClampBelow DEF clampUint64
<1>. QED  BY <1>1, <1>2

LEMMA ConservativeStep ==
  ASSUME BalancesAreUnsigned
  PROVE  PrefilterConservative
<1>. SUFFICES ASSUME NEW p \in Parties, available(chainBalances[p]) > 0
             PROVE  /\ now <= chainBalances[p].armedUntil
                    /\ available(chainBalances[p])
                         <= chainBalances[p].armed - chainBalances[p].committed
  BY DEF PrefilterConservative
<1>1. chainBalances[p].armed \in Nat /\ chainBalances[p].committed \in Nat
  BY DEF BalancesAreUnsigned
<1>2. /\ clampUint64(chainBalances[p].armed) > clampUint64(chainBalances[p].committed)
      /\ now <= chainBalances[p].armedUntil
      /\ available(chainBalances[p])
           = clampUint64(chainBalances[p].armed) - clampUint64(chainBalances[p].committed)
  BY DEF available
<1>. QED  BY <1>1, <1>2, ClampedDifference

LEMMA BalancesStayUnsigned == Spec => []BalancesAreUnsigned
<1>1. Init => BalancesAreUnsigned
  BY EnclaveAssumption DEF Init, ChainShows, BalancesAreUnsigned
<1>2. BalancesAreUnsigned /\ [Next]_vars => BalancesAreUnsigned'
  <2>. SUFFICES ASSUME BalancesAreUnsigned, [Next]_vars PROVE BalancesAreUnsigned'
    OBVIOUS
  <2>1. CASE chainBalances' = chainBalances
    BY <2>1 DEF BalancesAreUnsigned
  <2>2. CASE ChainMoves
    BY <2>2, EnclaveAssumption DEF ChainMoves, BalancesAreUnsigned
  <2>. QED  BY <2>1, <2>2 DEF Next, Tick, vars, chainVars
<1>. QED  BY <1>1, <1>2, PTL DEF Spec

\* Whatever the escrow holds and however it moves, the available balance the
\* enclave caches is never more than the taker's uncommitted balance, and it is
\* zero once the arming time is over (chainreads.go: "a clamp can only make the
\* enclave-side prefilter MORE conservative, never less").
THEOREM PrefilterIsConservative == Spec => []PrefilterConservative
BY BalancesStayUnsigned, ConservativeStep, PTL

-----------------------------------------------------------------------------
(***************************************************************************)
(* Types.  Each action touches one or two of the variables the type        *)
(* invariant speaks of; the lemmas are in the order of the actions.        *)
(***************************************************************************)
LEMMA RecordTypes ==
  /\ NO_MATCH \in MatchOutcome
  /\ NoRfq \in RFQ
  /\ NoQuotes \in [Parties -> Quote]
  /\ NoSnapshot \in ChainSnapshot
  /\ Idle \in Request /\ Idle.pc = "idle"
<1>1. NO_MATCH \in MatchOutcome
  BY DEF MatchOutcome
<1>2. NoRfq \in RFQ
  BY <1>1 DEF NoRfq, RFQ
<1>3. NoQuotes \in [Parties -> Quote]
  BY DEF NoQuotes, NoQuote, Quote
<1>4. NoSnapshot \in ChainSnapshot
  BY DEF NoSnapshot, ChainSnapshot
<1>5. Idle \in Request /\ Idle.pc = "idle"
  BY <1>1, <1>4 DEF Idle, Request, TaskSteps
<1>. QED  BY <1>1, <1>2, <1>3, <1>4, <1>5

\* What the cache stores and shows is unsigned.
LEMMA CacheTypes ==
  ASSUME TypeOK
  PROVE  /\ \A p \in Parties : clampUint64(chainBond[p]) \in Nat
         /\ \A p \in Parties : available(chainBalances[p]) \in Nat
         /\ \A t \in Parties, makers \in SUBSET Parties :
              Snapshot(t, makers, now) \in ChainSnapshot
<1>. DEFINE c == [mid |-> chainMid, bond |-> chainBond, balances |-> chainBalances]
<1>1. c \in [mid : Nat, bond : [Parties -> Nat],
            balances : [Parties -> [armed : Nat, committed : Nat, armedUntil : Nat]]]
  BY EnclaveAssumption DEF TypeOK
<1>2. /\ chainBond \in [Parties -> Nat]
      /\ chainBalances \in [Parties -> [armed : Nat, committed : Nat, armedUntil : Nat]]
  BY <1>1
<1>3. \A p \in Parties : clampUint64(chainBond[p]) \in Nat
  BY <1>2, ClampBelow
<1>4. ASSUME NEW p \in Parties PROVE available(chainBalances[p]) \in Nat
  <2>1. /\ clampUint64(chainBalances[p].armed) \in Nat
        /\ clampUint64(chainBalances[p].committed) \in Nat
    BY <1>2, ClampBelow
  <2>. QED  BY <2>1 DEF available
<1>5. ASSUME NEW t \in Parties, NEW makers \in SUBSET Parties
      PROVE  Snapshot(t, makers, now) \in ChainSnapshot
  BY CacheAssumption DEF Snapshot, ChainSnapshot, TypeOK
<1>. QED  BY <1>3, <1>4, <1>5

-----------------------------------------------------------------------------
(***************************************************************************)
(* The inductive invariant: everything in the book comes from a message    *)
(* its party authored, and everything about to be signed is within terms.  *)
(* TypeOK alone is not inductive: that an instruction has its type depends *)
(* on the party and the address of the RFQ it was built from.              *)
(***************************************************************************)
RfqBacked(id) ==
  \E r \in RfqMessages :
    /\ r.id = id /\ r.taker = rfqs[id].taker
    /\ AllowDirectRfq \/ r.submitter = rfqs[id].taker
    /\ r.amount = rfqs[id].amount /\ r.limit = rfqs[id].limit
    /\ r.amount >= MinBlockFxrpRaw
    /\ r.xrplAddress = rfqs[id].xrplAddress /\ r.xrplAddress # EmptyXrplAddress

QuoteBacked(id, m) ==
  \E q \in QuoteMessages :
    /\ q.id = id /\ q.signer = m /\ q.maker = m /\ quotes[id][m].maker = m
    /\ q.price = quotes[id][m].price /\ q.maxFxrp = quotes[id][m].maxFxrp

BookInv ==
  \A id \in RfqIds :
    /\ rfqs[id].open => RfqBacked(id)
    /\ \A m \in Parties :
         /\ quotes[id][m].resting => QuoteBacked(id, m)
         /\ quotes[id][m].seq <= nextSeq

SoundRequest(t) ==
  /\ t.pc # "idle" => t.id \in RfqIds /\ t.taker \in Parties
  /\ t.pc = "sign" => t.outcome.kind = "MATCHED" /\ WithinTerms(t.outcome.mi)

TaskInv == \A k \in Tasks : SoundRequest(tasks[k])

Inv == TypeOK /\ BookInv /\ TaskInv /\ SignedWithinTerms

LEMMA InitInv == Init => Inv
<1>. SUFFICES ASSUME Init PROVE Inv
  OBVIOUS
<1>. USE RecordTypes DEF Init, EnclaveInit
<1>1. [mid |-> chainMid, bond |-> chainBond, balances |-> chainBalances] \in ChainStates
  <2>1. PICK c \in ChainStates : ChainShows(c)
    OBVIOUS
  <2>2. c = [mid |-> chainMid, bond |-> chainBond, balances |-> chainBalances]
    BY <2>1, EnclaveAssumption DEF ChainShows
  <2>. QED  BY <2>2
<1>2. TypeOK
  BY <1>1 DEF TypeOK, BookInit, CacheInit, EmptyCache, NothingTracked
<1>3. BookInv
  BY DEF BookInv, BookInit, NoRfq, NoQuotes, NoQuote
<1>4. TaskInv
  BY DEF TaskInv, SoundRequest, Idle
<1>5. SignedWithinTerms
  BY DEF SignedWithinTerms
<1>. QED  BY <1>2, <1>3, <1>4, <1>5 DEF Inv

\* A request that moves to a sound step keeps the requests typed and sound.
LEMMA TaskChange ==
  ASSUME TypeOK, TaskInv, NEW k \in Tasks, NEW step \in Request, Goto(k, step),
         SoundRequest(step)
  PROVE  /\ tasks' \in [Tasks -> Request]
         /\ \A j \in Tasks : tasks'[j].pc # "idle" => tasks'[j].id \in RfqIds
         /\ TaskInv'
<1>1. tasks' = [tasks EXCEPT ![k] = step] /\ tasks \in [Tasks -> Request]
  BY DEF Goto, TypeOK
<1>2. \A j \in Tasks : tasks'[j] = IF j = k THEN step ELSE tasks[j]
  BY <1>1
<1>3. \A j \in Tasks : SoundRequest(tasks'[j])
  BY <1>2 DEF TaskInv
<1>4. TaskInv'
  BY <1>3 DEF TaskInv, SoundRequest, WithinTerms
<1>. QED  BY <1>1, <1>3, <1>4 DEF SoundRequest

\* A step that moves one request to a sound step and touches nothing else.
LEMMA RequestStep ==
  ASSUME Inv, NEW k \in Tasks, NEW step \in Request, Goto(k, step), SoundRequest(step),
         UNCHANGED <<now, chainVars, bookVars, cacheVars, nodeVars, mined, signed, answers>>
  PROVE  Inv'
<1>1. /\ tasks' \in [Tasks -> Request]
      /\ \A j \in Tasks : tasks'[j].pc # "idle" => tasks'[j].id \in RfqIds
      /\ TaskInv'
  BY TaskChange DEF Inv
<1>2. TypeOK'
  BY <1>1 DEF Inv, TypeOK, chainVars, bookVars, cacheVars, nodeVars
<1>3. BookInv'
  BY DEF Inv, BookInv, RfqBacked, QuoteBacked, bookVars
<1>4. SignedWithinTerms'
  BY DEF Inv, SignedWithinTerms, WithinTerms
<1>. QED  BY <1>1, <1>2, <1>3, <1>4 DEF Inv

LEMMA IdleIsSound == Idle \in Request /\ SoundRequest(Idle)
BY RecordTypes DEF SoundRequest, Idle

LEMMA StartKeepsInv ==
  ASSUME Inv, NEW k \in Tasks, NEW id \in RfqIds, startMatch(k, id), UNCHANGED <<now, chainVars>>
  PROVE  Inv'
<1>. DEFINE step == [Idle EXCEPT !.pc = "snapshot", !.id = id, !.taker = rfqs[id].taker,
                               !.makers = Makers(id)]
<1>1. rfqs[id].taker \in Parties
  <2>1. PICK r \in RfqMessages : r.taker = rfqs[id].taker
    BY DEF Inv, BookInv, RfqBacked, startMatch
  <2>. QED  BY <2>1, EnclaveAssumption
<1>2. step \in Request /\ SoundRequest(step)
  BY <1>1, RecordTypes DEF Idle, Request, TaskSteps, Makers, SoundRequest
<1>3. Goto(k, step)
  BY DEF startMatch
<1>. QED  BY <1>2, <1>3, RequestStep DEF startMatch

LEMMA SnapshotKeepsInv ==
  ASSUME Inv, NEW k \in Tasks, takeSnapshot(k), UNCHANGED <<now, chainVars>>
  PROVE  Inv'
<1>. DEFINE t == tasks[k]
            step == [t EXCEPT !.pc = "match", !.at = now, !.snap = Snapshot(t.taker, t.makers, now)]
<1>1. t \in Request /\ t.pc = "snapshot" /\ t.taker \in Parties /\ t.id \in RfqIds /\ now \in Nat
  BY DEF Inv, TypeOK, TaskInv, SoundRequest, takeSnapshot
<1>2. Snapshot(t.taker, t.makers, now) \in ChainSnapshot
  BY <1>1, CacheTypes DEF Inv, Request
<1>3. step \in Request
  BY <1>1, <1>2 DEF Request, TaskSteps
<1>4. SoundRequest(step)
  BY <1>1 DEF SoundRequest, Request
<1>5. Goto(k, step)
  BY DEF takeSnapshot
<1>. QED  BY <1>3, <1>4, <1>5, RequestStep DEF takeSnapshot

LEMMA RefusalsKeepInv ==
  ASSUME Inv, NEW k \in Tasks, refuse(k) \/ signFails(k), UNCHANGED <<now, chainVars>>
  PROVE  Inv'
BY IdleIsSound, RequestStep DEF refuse, signFails

LEMMA NoMatchKeepsInv ==
  ASSUME Inv, NEW k \in Tasks, findNoMatch(k), UNCHANGED <<now, chainVars>>
  PROVE  Inv'
<1>. DEFINE t == tasks[k]
            step == [t EXCEPT !.pc = "mark", !.outcome = NO_MATCH]
<1>1. t \in Request /\ t.pc = "match" /\ SoundRequest(t)
  BY DEF Inv, TypeOK, TaskInv, findNoMatch, Decidable
<1>2. step \in Request
  BY <1>1, RecordTypes DEF Request, TaskSteps
<1>3. SoundRequest(step)
  BY <1>1 DEF SoundRequest, Request
<1>4. Goto(k, step)
  BY DEF findNoMatch
<1>. QED  BY <1>2, <1>3, <1>4, RequestStep DEF findNoMatch

\* Every instruction matchCore may build for an open RFQ is typed and within the
\* terms of the messages the RFQ and the winning quote came from.
LEMMA MatchesAreWithinTerms ==
  ASSUME Inv, NEW id \in RfqIds, rfqs[id].open, NEW snap, NEW at \in Nat,
         NEW mi \in Matches(id, rfqs[id], RestingQuotes(id), snap, at)
  PROVE  mi \in MatchInstruction /\ WithinTerms(mi)
<1>1. PICK w \in RestingQuotes(id) :
        Eligible(w, rfqs[id], snap, at) /\ mi = Instruction(id, rfqs[id], w, at)
  BY DEF Matches, EligibleQuotes
<1>2. PICK m \in Parties : w = quotes[id][m] /\ quotes[id][m].resting
  BY <1>1 DEF RestingQuotes, Makers
<1>3. PICK q \in QuoteMessages :
        /\ q.id = id /\ q.signer = m /\ q.maker = m /\ w.maker = m
        /\ q.price = w.price /\ q.maxFxrp = w.maxFxrp
  BY <1>2 DEF Inv, BookInv, QuoteBacked
<1>4. PICK r \in RfqMessages :
        /\ r.id = id /\ r.taker = rfqs[id].taker
        /\ AllowDirectRfq \/ r.submitter = rfqs[id].taker
        /\ r.amount = rfqs[id].amount /\ r.limit = rfqs[id].limit
        /\ r.xrplAddress = rfqs[id].xrplAddress /\ r.xrplAddress # EmptyXrplAddress
  BY DEF Inv, BookInv, RfqBacked
<1>5. /\ mi.matchId = id /\ mi.escrow = Escrow /\ mi.taker = rfqs[id].taker
      /\ mi.maker = w.maker /\ mi.amountFxrp = rfqs[id].amount /\ mi.priceUsd18 = w.price
      /\ mi.takerXrplAddress = rfqs[id].xrplAddress
      /\ mi.instructionExpiresAt = at + InstructionTTL
  BY <1>1 DEF Instruction
<1>6. w.maker # rfqs[id].taker /\ w.maxFxrp >= rfqs[id].amount /\ w.price >= rfqs[id].limit
  BY <1>1 DEF Eligible
<1>7. WithinTerms(mi)
  BY <1>3, <1>4, <1>5, <1>6 DEF WithinTerms
<1>8. /\ rfqs[id].taker \in Parties /\ w.maker \in Parties /\ w.price \in Nat
      /\ rfqs[id].amount \in Nat /\ rfqs[id].xrplAddress \in XrplAddresses
      /\ at + InstructionTTL \in Nat
  BY <1>3, <1>4, EnclaveAssumption, MatcherAssumption
<1>9. mi \in MatchInstruction
  BY <1>1, <1>8 DEF Instruction, MatchInstruction
<1>. QED  BY <1>7, <1>9

LEMMA FindMatchKeepsInv ==
  ASSUME Inv, NEW k \in Tasks, findMatch(k), UNCHANGED <<now, chainVars>>
  PROVE  Inv'
<1>1. /\ tasks[k] \in Request /\ tasks[k].pc = "match" /\ SoundRequest(tasks[k])
      /\ rfqs[tasks[k].id].open
  BY DEF Inv, TypeOK, TaskInv, findMatch, Decidable
<1>2. tasks[k].id \in RfqIds /\ tasks[k].taker \in Parties /\ tasks[k].at \in Nat
  BY <1>1 DEF SoundRequest, Request
<1>3. PICK mi \in Matches(tasks[k].id, rfqs[tasks[k].id], RestingQuotes(tasks[k].id),
                          tasks[k].snap, tasks[k].at) :
        Goto(k, [tasks[k] EXCEPT !.pc = "sign", !.outcome = MATCHED(mi)])
  BY DEF findMatch
<1>4. mi \in MatchInstruction /\ WithinTerms(mi)
  BY <1>1, <1>2, <1>3, MatchesAreWithinTerms
<1>. DEFINE step == [tasks[k] EXCEPT !.pc = "sign", !.outcome = MATCHED(mi)]
<1>5. MATCHED(mi) \in MatchOutcome /\ MATCHED(mi).kind = "MATCHED" /\ MATCHED(mi).mi = mi
  BY <1>4 DEF MATCHED, MatchOutcome
<1>6. step \in Request /\ step.pc = "sign" /\ step.id = tasks[k].id
      /\ step.taker = tasks[k].taker /\ step.outcome = MATCHED(mi)
  BY <1>1, <1>5 DEF Request, TaskSteps
<1>7. SoundRequest(step)
  BY <1>2, <1>4, <1>5, <1>6 DEF SoundRequest
<1>. HIDE DEF step
<1>8. Goto(k, step)
  BY <1>3 DEF step
<1>. QED  BY <1>6, <1>7, <1>8, RequestStep DEF findMatch

LEMMA AnswerTypes ==
  ASSUME TypeOK, NEW id \in RfqIds, NEW outcome \in MatchOutcome, Answer(id, outcome)
  PROVE  answers' \in [RfqIds -> SUBSET MatchOutcome]
BY DEF TypeOK, Answer

LEMMA CachedAnswerKeepsInv ==
  ASSUME Inv, NEW k \in Tasks, answerFromCache(k), UNCHANGED <<now, chainVars>>
  PROVE  Inv'
<1>1. tasks[k].id \in RfqIds
  BY DEF Inv, TaskInv, SoundRequest, answerFromCache
<1>2. rfqs[tasks[k].id].outcome \in MatchOutcome
  BY <1>1 DEF Inv, TypeOK, RFQ
<1>3. answers' \in [RfqIds -> SUBSET MatchOutcome]
  BY <1>1, <1>2, AnswerTypes DEF Inv, answerFromCache
<1>4. /\ tasks' \in [Tasks -> Request]
      /\ \A j \in Tasks : tasks'[j].pc # "idle" => tasks'[j].id \in RfqIds
      /\ TaskInv'
  BY IdleIsSound, TaskChange DEF Inv, answerFromCache
<1>5. TypeOK'
  BY <1>3, <1>4 DEF Inv, TypeOK, answerFromCache, chainVars, bookVars, cacheVars, nodeVars
<1>6. BookInv'
  BY DEF Inv, BookInv, RfqBacked, QuoteBacked, bookVars, answerFromCache
<1>7. SignedWithinTerms'
  BY DEF Inv, SignedWithinTerms, WithinTerms, answerFromCache
<1>. QED  BY <1>4, <1>5, <1>6, <1>7 DEF Inv

LEMMA SignKeepsInv ==
  ASSUME Inv, NEW k \in Tasks, signMatch(k) \/ signTimesOut(k), UNCHANGED <<now, chainVars>>
  PROVE  Inv'
<1>. DEFINE step == [tasks[k] EXCEPT !.pc = "mark"]
<1>1. /\ tasks[k] \in Request /\ tasks[k].pc = "sign" /\ tasks[k].id \in RfqIds
      /\ tasks[k].taker \in Parties /\ tasks[k].outcome.kind = "MATCHED"
      /\ WithinTerms(tasks[k].outcome.mi)
  BY DEF Inv, TypeOK, TaskInv, SoundRequest, signMatch, signTimesOut
<1>2. tasks[k].outcome.mi \in MatchInstruction
  BY <1>1 DEF Request, MatchOutcome, NO_MATCH
<1>3. step \in Request /\ SoundRequest(step)
  BY <1>1 DEF Request, TaskSteps, SoundRequest
<1>4. /\ tasks' \in [Tasks -> Request]
      /\ \A j \in Tasks : tasks'[j].pc # "idle" => tasks'[j].id \in RfqIds
      /\ TaskInv'
  BY <1>3, IdleIsSound, TaskChange DEF Inv, signMatch, signTimesOut
<1>5. signed' = signed \cup {[mi |-> tasks[k].outcome.mi, key |-> teeKey]}
  BY DEF signMatch, signTimesOut, NodeSigns
<1>6. signed' \subseteq [mi : MatchInstruction, key : usedKeys]
  BY <1>2, <1>5 DEF Inv, TypeOK
<1>7. TypeOK'
  BY <1>4, <1>6 DEF Inv, TypeOK, signMatch, signTimesOut, chainVars, bookVars, cacheVars, nodeVars
<1>8. BookInv'
  BY DEF Inv, BookInv, RfqBacked, QuoteBacked, bookVars, signMatch, signTimesOut
<1>9. SignedWithinTerms'
  BY <1>1, <1>5 DEF Inv, SignedWithinTerms, WithinTerms
<1>. QED  BY <1>4, <1>7, <1>8, <1>9 DEF Inv

LEMMA MarkKeepsInv ==
  ASSUME Inv, NEW k \in Tasks, markAndAnswer(k), UNCHANGED <<now, chainVars>>
  PROVE  Inv'
<1>1. tasks[k].id \in RfqIds /\ tasks[k].outcome \in MatchOutcome
  BY DEF Inv, TypeOK, Request, TaskInv, SoundRequest, markAndAnswer
<1>2. answers' \in [RfqIds -> SUBSET MatchOutcome]
  BY <1>1, AnswerTypes DEF Inv, markAndAnswer
<1>3. /\ tasks' \in [Tasks -> Request]
      /\ \A j \in Tasks : tasks'[j].pc # "idle" => tasks'[j].id \in RfqIds
      /\ TaskInv'
  BY IdleIsSound, TaskChange DEF Inv, markAndAnswer
<1>4. rfqs \in [RfqIds -> RFQ]
  BY DEF Inv, TypeOK
<1>5. rfqs' = IF rfqs[tasks[k].id].open
              THEN [rfqs EXCEPT ![tasks[k].id] =
                      [rfqs[tasks[k].id] EXCEPT !.matched = TRUE, !.outcome = tasks[k].outcome]]
              ELSE rfqs
  BY DEF markAndAnswer, markMatched
<1>6. [rfqs[tasks[k].id] EXCEPT !.matched = TRUE, !.outcome = tasks[k].outcome] \in RFQ
  <2>1. ASSUME NEW r \in RFQ, NEW outcome \in MatchOutcome
        PROVE  [r EXCEPT !.matched = TRUE, !.outcome = outcome] \in RFQ
    BY DEF RFQ
  <2>2. rfqs[tasks[k].id] \in RFQ
    BY <1>1, <1>4
  <2>. QED  BY <1>1, <2>1, <2>2
<1>7. rfqs' \in [RfqIds -> RFQ]
  BY <1>1, <1>4, <1>5, <1>6
<1>8. \A id \in RfqIds :
        /\ rfqs'[id].open = rfqs[id].open /\ rfqs'[id].taker = rfqs[id].taker
        /\ rfqs'[id].amount = rfqs[id].amount /\ rfqs'[id].limit = rfqs[id].limit
        /\ rfqs'[id].xrplAddress = rfqs[id].xrplAddress
  BY <1>1, <1>4, <1>5 DEF RFQ
<1>9. UNCHANGED <<quotes, nextSeq>>
  BY DEF markAndAnswer, markMatched
<1>10. TypeOK'
  BY <1>2, <1>3, <1>7, <1>9 DEF Inv, TypeOK, markAndAnswer, chainVars, cacheVars, nodeVars
<1>11. BookInv'
  BY <1>8, <1>9 DEF Inv, BookInv, RfqBacked, QuoteBacked
<1>12. SignedWithinTerms'
  BY DEF Inv, SignedWithinTerms, WithinTerms, markAndAnswer
<1>. QED  BY <1>3, <1>10, <1>11, <1>12 DEF Inv

\* What an intake step must leave alone.
LEMMA RequestsUntouched ==
  ASSUME Inv, UNCHANGED <<tasks, signed>>
  PROVE  TaskInv' /\ SignedWithinTerms'
BY DEF Inv, TaskInv, SoundRequest, SignedWithinTerms, WithinTerms

\* An RFQ enters the book with the envelope's sender as taker, and the sender is
\* the party the plaintext names.
LEMMA RfqKeepsInv ==
  ASSUME Inv, NEW msg \in RfqMessages, rfqFromInstruction(msg) \/ rfqFromDirect(msg),
         UNCHANGED <<now, chainVars>>
  PROVE  Inv'
<1>1. /\ handleRfqSubmit(msg)
      /\ UNCHANGED <<nodeVars, tasks, signed>>
      /\ answers' = [answers EXCEPT ![msg.id] = {}]
      /\ mined' \subseteq RfqIds
      /\ AllowDirectRfq \/ msg.sender = msg.submitter
  BY EnclaveAssumption DEF Inv, TypeOK, rfqFromInstruction, rfqFromDirect
<1>. DEFINE id == msg.id
            rfq == [open |-> TRUE, taker |-> msg.sender, amount |-> msg.amount,
                    limit |-> msg.limit, xrplAddress |-> msg.xrplAddress,
                    windowEndsAt |-> now + RfqWindowSec, expiresAt |-> now + RfqTTLSec,
                    matched |-> FALSE, outcome |-> NO_MATCH]
<1>2. /\ msg.taker = msg.sender /\ msg.xrplAddress # EmptyXrplAddress
      /\ msg.amount >= MinBlockFxrpRaw
      /\ rfqs' = [rfqs EXCEPT ![id] = rfq]
      /\ quotes' = [quotes EXCEPT ![id] = NoQuotes]
      /\ UNCHANGED <<nextSeq, cache>>
      /\ tracked' = [tracked EXCEPT !.takers = @ \cup {msg.sender}]
  BY <1>1 DEF handleRfqSubmit, AddRFQ, TrackTaker
<1>3. /\ id \in RfqIds /\ msg.sender \in Parties /\ msg.amount \in Nat /\ msg.limit \in Nat
      /\ msg.xrplAddress \in XrplAddresses \cup {EmptyXrplAddress} /\ now \in Nat
  BY EnclaveAssumption DEF Inv, TypeOK
<1>4. rfq \in RFQ
  BY <1>3, RecordTypes, BookAssumption DEF RFQ
<1>. HIDE DEF rfq
<1>5. rfqs' \in [RfqIds -> RFQ] /\ quotes' \in [RfqIds -> [Parties -> Quote]]
  BY <1>2, <1>3, <1>4, RecordTypes DEF Inv, TypeOK
<1>6. tracked' \in [makers : SUBSET Parties, takers : SUBSET Parties]
  BY <1>2, <1>3 DEF Inv, TypeOK
<1>7. TypeOK'
  BY <1>1, <1>2, <1>5, <1>6 DEF Inv, TypeOK, chainVars, nodeVars
<1>8. ASSUME NEW i \in RfqIds
      PROVE  /\ rfqs'[i].open => RfqBacked(i)'
             /\ \A m \in Parties :
                  /\ quotes'[i][m].resting => QuoteBacked(i, m)'
                  /\ quotes'[i][m].seq <= nextSeq'
  <2>1. CASE i = id
    <3>1. rfqs'[i] = rfq /\ quotes'[i] = NoQuotes
      BY <1>2, <1>3, <2>1 DEF Inv, TypeOK
    <3>2. RfqBacked(i)'
      BY <1>1, <1>2, <2>1, <3>1 DEF RfqBacked, rfq
    <3>3. \A m \in Parties : ~NoQuotes[m].resting /\ NoQuotes[m].seq = 0
      BY DEF NoQuotes, NoQuote
    <3>. QED  BY <1>2, <3>1, <3>2, <3>3 DEF Inv, TypeOK
  <2>2. CASE i # id
    <3>1. rfqs'[i] = rfqs[i] /\ quotes'[i] = quotes[i]
      BY <1>2, <2>2 DEF Inv, TypeOK
    <3>. QED  BY <1>2, <3>1 DEF Inv, BookInv, RfqBacked, QuoteBacked
  <2>. QED  BY <2>1, <2>2
<1>9. BookInv'
  BY <1>8 DEF BookInv
<1>. QED  BY <1>1, <1>7, <1>9, RequestsUntouched DEF Inv

LEMMA QuoteKeepsInv ==
  ASSUME Inv, NEW msg \in QuoteMessages, handleQuoteSubmit(msg), UNCHANGED <<now, chainVars>>
  PROVE  Inv'
<1>. DEFINE quote == [resting |-> TRUE, maker |-> msg.maker, price |-> msg.price,
                      maxFxrp |-> msg.maxFxrp, nonce |-> msg.nonce, receivedAt |-> now,
                      seq |-> nextSeq + 1]
<1>1. /\ msg.id \in RfqIds /\ msg.maker \in Parties /\ msg.price \in Nat /\ msg.maxFxrp \in Nat
      /\ msg.nonce \in Nat /\ now \in Nat /\ nextSeq \in Nat
  BY EnclaveAssumption DEF Inv, TypeOK
<1>2. /\ msg.signer = msg.maker /\ nextSeq' = nextSeq + 1
      /\ quotes' = [quotes EXCEPT ![msg.id][msg.maker] = quote]
      /\ tracked' = [tracked EXCEPT !.makers = @ \cup {msg.maker}]
      /\ UNCHANGED <<rfqs, cache, nodeVars, mined, tasks, signed, answers>>
  BY DEF handleQuoteSubmit, UpsertQuote, TrackMaker
<1>3. quote \in Quote
  BY <1>1 DEF Quote
<1>. HIDE DEF quote
<1>4. quotes' \in [RfqIds -> [Parties -> Quote]]
  BY <1>1, <1>2, <1>3 DEF Inv, TypeOK
<1>5. tracked' \in [makers : SUBSET Parties, takers : SUBSET Parties]
  BY <1>1, <1>2 DEF Inv, TypeOK
<1>6. TypeOK'
  BY <1>1, <1>2, <1>4, <1>5 DEF Inv, TypeOK, chainVars, nodeVars
<1>7. ASSUME NEW i \in RfqIds, NEW m \in Parties
      PROVE  /\ quotes'[i][m].resting => QuoteBacked(i, m)'
             /\ quotes'[i][m].seq <= nextSeq'
  <2>1. CASE i = msg.id /\ m = msg.maker
    <3>1. quotes'[i][m] = quote
      BY <1>2, <2>1 DEF Inv, TypeOK
    <3>2. QuoteBacked(i, m)'
      BY <1>2, <2>1, <3>1 DEF QuoteBacked, quote
    <3>. QED  BY <1>1, <1>2, <3>1, <3>2 DEF quote
  <2>2. CASE ~(i = msg.id /\ m = msg.maker)
    <3>1. quotes'[i][m] = quotes[i][m]
      BY <1>2, <2>2 DEF Inv, TypeOK
    <3>2. quotes[i][m].seq \in Nat /\ quotes[i][m].seq <= nextSeq
      BY DEF Inv, TypeOK, BookInv, Quote
    <3>. QED  BY <1>1, <1>2, <3>1, <3>2 DEF Inv, BookInv, QuoteBacked
  <2>. QED  BY <2>1, <2>2
<1>8. BookInv'
  BY <1>2, <1>7 DEF Inv, BookInv, RfqBacked
<1>. QED  BY <1>2, <1>6, <1>8, RequestsUntouched DEF Inv

LEMMA RefreshKeepsInv ==
  ASSUME Inv, refresh, UNCHANGED <<now, chainVars>>
  PROVE  Inv'
<1>1. /\ UNCHANGED <<tracked, bookVars, nodeVars, mined, tasks, signed, answers>>
      /\ \/ cache' = [cache EXCEPT !.mid = chainMid, !.fetched = TRUE, !.midFetchAt = now]
         \/ \E p \in Parties :
              \/ cache' = [cache EXCEPT !.bondFree[p] = clampUint64(chainBond[p])]
              \/ cache' = [cache EXCEPT !.takerAvail[p] = available(chainBalances[p])]
  BY DEF refresh, refreshMid, refreshBond, refreshTaker
<1>2. chainMid \in Nat /\ now \in Nat
  <2>1. [mid |-> chainMid, bond |-> chainBond, balances |-> chainBalances].mid \in Nat
    BY EnclaveAssumption DEF Inv, TypeOK
  <2>. QED  BY <2>1 DEF Inv, TypeOK
<1>3. cache' \in [mid : Nat, fetched : BOOLEAN, midFetchAt : Nat,
                 bondFree : [Parties -> Nat], takerAvail : [Parties -> Nat]]
  <2>1. cache \in [mid : Nat, fetched : BOOLEAN, midFetchAt : Nat,
                   bondFree : [Parties -> Nat], takerAvail : [Parties -> Nat]]
    BY DEF Inv, TypeOK
  <2>2. CASE cache' = [cache EXCEPT !.mid = chainMid, !.fetched = TRUE, !.midFetchAt = now]
    BY <1>2, <2>1, <2>2
  <2>3. ASSUME NEW p \in Parties, NEW v \in Nat,
               cache' = [cache EXCEPT !.bondFree = [cache.bondFree EXCEPT ![p] = v]]
        PROVE  cache' \in [mid : Nat, fetched : BOOLEAN, midFetchAt : Nat,
                          bondFree : [Parties -> Nat], takerAvail : [Parties -> Nat]]
    BY <2>1, <2>3
  <2>4. ASSUME NEW p \in Parties, NEW v \in Nat,
               cache' = [cache EXCEPT !.takerAvail = [cache.takerAvail EXCEPT ![p] = v]]
        PROVE  cache' \in [mid : Nat, fetched : BOOLEAN, midFetchAt : Nat,
                          bondFree : [Parties -> Nat], takerAvail : [Parties -> Nat]]
    BY <2>1, <2>4
  <2>. QED  BY <1>1, <2>2, <2>3, <2>4, CacheTypes DEF Inv
<1>4. TypeOK'
  BY <1>1, <1>3 DEF Inv, TypeOK, chainVars, bookVars, nodeVars
<1>5. BookInv'
  BY <1>1 DEF Inv, BookInv, RfqBacked, QuoteBacked, bookVars
<1>. QED  BY <1>1, <1>4, <1>5, RequestsUntouched DEF Inv

LEMMA CollectKeepsInv ==
  ASSUME Inv, collect, UNCHANGED <<now, chainVars>>
  PROVE  Inv'
<1>1. /\ UNCHANGED <<nextSeq, cacheVars, nodeVars, mined, tasks, signed, answers>>
      /\ rfqs' \in [RfqIds -> RFQ] /\ quotes' \in [RfqIds -> [Parties -> Quote]]
  BY RecordTypes DEF Inv, TypeOK, collect, GC
<1>2. TypeOK'
  BY <1>1 DEF Inv, TypeOK, chainVars, cacheVars, nodeVars
<1>3. ASSUME NEW i \in RfqIds
      PROVE  \/ rfqs'[i] = rfqs[i] /\ quotes'[i] = quotes[i]
             \/ rfqs'[i] = NoRfq /\ quotes'[i] = NoQuotes
  BY DEF collect, GC
<1>4. /\ ~NoRfq.open
      /\ \A m \in Parties : ~NoQuotes[m].resting /\ NoQuotes[m].seq = 0
  BY DEF NoRfq, NoQuotes, NoQuote
<1>5. ASSUME NEW i \in RfqIds
      PROVE  /\ rfqs'[i].open => RfqBacked(i)'
             /\ \A m \in Parties :
                  /\ quotes'[i][m].resting => QuoteBacked(i, m)'
                  /\ quotes'[i][m].seq <= nextSeq'
  <2>1. CASE rfqs'[i] = rfqs[i] /\ quotes'[i] = quotes[i]
    BY <1>1, <2>1 DEF Inv, BookInv, RfqBacked, QuoteBacked
  <2>2. CASE rfqs'[i] = NoRfq /\ quotes'[i] = NoQuotes
    BY <1>1, <1>4, <2>2 DEF Inv, TypeOK
  <2>. QED  BY <1>3, <2>1, <2>2
<1>6. BookInv'
  BY <1>5 DEF BookInv
<1>. QED  BY <1>1, <1>2, <1>6, RequestsUntouched DEF Inv

LEMMA RestartKeepsInv ==
  ASSUME Inv, NEW key \in Keys, restart(key), UNCHANGED <<now, chainVars>>
  PROVE  Inv'
<1>. USE RecordTypes
<1>1. signed' \subseteq [mi : MatchInstruction, key : usedKeys']
  BY DEF Inv, TypeOK, restart
<1>2. TypeOK'
  BY <1>1 DEF Inv, TypeOK, restart, NothingTracked, EmptyCache, chainVars
<1>3. BookInv'
  BY DEF restart, BookInv, NoRfq, NoQuotes, NoQuote
<1>4. TaskInv'
  BY DEF restart, TaskInv, SoundRequest, Idle
<1>5. SignedWithinTerms'
  BY DEF Inv, restart, SignedWithinTerms, WithinTerms
<1>. QED  BY <1>2, <1>3, <1>4, <1>5 DEF Inv

LEMMA OutsideKeepsInv ==
  ASSUME Inv, Tick \/ ChainMoves
  PROVE  Inv'
<1>1. UNCHANGED <<bookVars, cacheVars, nodeVars, mined, tasks, signed, answers>>
  BY DEF Tick, ChainMoves
<1>2. now' \in Nat
  BY DEF Inv, TypeOK, Tick, ChainMoves
<1>3. [mid |-> chainMid', bond |-> chainBond', balances |-> chainBalances'] \in ChainStates
  <2>1. CASE Tick
    BY <2>1 DEF Tick, chainVars, Inv, TypeOK
  <2>2. CASE ChainMoves
    <3>1. PICK c \in ChainStates :
            chainMid' = c.mid /\ chainBond' = c.bond /\ chainBalances' = c.balances
      BY <2>2 DEF ChainMoves
    <3>2. c = [mid |-> c.mid, bond |-> c.bond, balances |-> c.balances]
      BY EnclaveAssumption
    <3>. QED  BY <3>1, <3>2
  <2>. QED  BY <2>1, <2>2
<1>4. TypeOK'
  BY <1>1, <1>2, <1>3 DEF Inv, TypeOK, bookVars, cacheVars, nodeVars
<1>5. BookInv'
  BY <1>1 DEF Inv, BookInv, RfqBacked, QuoteBacked, bookVars
<1>. QED  BY <1>1, <1>4, <1>5, RequestsUntouched DEF Inv

LEMMA StepKeepsInv ==
  ASSUME Inv, [Next]_vars
  PROVE  Inv'
<1>1. CASE UNCHANGED vars
  BY <1>1 DEF vars, chainVars, bookVars, cacheVars, nodeVars, Inv, TypeOK, BookInv, RfqBacked,
              QuoteBacked, TaskInv, SoundRequest, SignedWithinTerms, WithinTerms
<1>2. CASE EnclaveStep /\ UNCHANGED <<now, chainVars>>
  <2>1. CASE \E msg \in RfqMessages : rfqFromInstruction(msg) \/ rfqFromDirect(msg)
    BY <1>2, <2>1, RfqKeepsInv
  <2>2. CASE \E msg \in QuoteMessages : handleQuoteSubmit(msg)
    BY <1>2, <2>2, QuoteKeepsInv
  <2>3. ASSUME NEW k \in Tasks, MatchStep(k) PROVE Inv'
    BY <1>2, <2>3, StartKeepsInv, SnapshotKeepsInv, CachedAnswerKeepsInv, RefusalsKeepInv,
       NoMatchKeepsInv, FindMatchKeepsInv, SignKeepsInv, MarkKeepsInv DEF MatchStep
  <2>4. CASE refresh
    BY <1>2, <2>4, RefreshKeepsInv
  <2>5. CASE collect
    BY <1>2, <2>5, CollectKeepsInv
  <2>6. CASE \E key \in Keys : restart(key)
    BY <1>2, <2>6, RestartKeepsInv
  <2>. QED  BY <1>2, <2>1, <2>2, <2>3, <2>4, <2>5, <2>6 DEF EnclaveStep
<1>3. CASE Tick \/ ChainMoves
  BY <1>3, OutsideKeepsInv
<1>. QED  BY <1>1, <1>2, <1>3 DEF Next

LEMMA InvAlways == Spec => []Inv
BY InitInv, StepKeepsInv, PTL DEF Spec

\* Every variable of the enclave keeps its type, whatever the constants; in
\* particular every signed instruction has both parties, a size, a price and a
\* non-empty XRPL address.
THEOREM TypeCorrect == Spec => []TypeOK
BY InvAlways, PTL DEF Inv

\* The TEE never signs a trade its parties did not ask for: any number of RFQs,
\* makers, messages, concurrent requests and restarts.
THEOREM OnlyAgreedTradesSigned == Spec => []SignedWithinTerms
BY InvAlways, PTL DEF Inv

-----------------------------------------------------------------------------
(***************************************************************************)
(* The order in which quotes replace each other.                           *)
(***************************************************************************)
\* The quotes of an RFQ change by one quote, taken in last, or are all dropped.
LEMMA QuotesMove ==
  ASSUME Inv, [Next]_vars, NEW id \in RfqIds
  PROVE  \/ quotes'[id] = quotes[id]
         \/ quotes'[id] = NoQuotes
         \/ \E m \in Parties, q \in Quote :
              /\ quotes'[id] = [quotes[id] EXCEPT ![m] = q]
              /\ q.seq = nextSeq + 1 /\ nextSeq' = nextSeq + 1
              /\ quotes[id][m].resting => q.nonce > quotes[id][m].nonce
<1>1. ASSUME NEW msg \in QuoteMessages, handleQuoteSubmit(msg)
      PROVE  \/ quotes'[id] = quotes[id]
             \/ \E m \in Parties, q \in Quote :
                  /\ quotes'[id] = [quotes[id] EXCEPT ![m] = q]
                  /\ q.seq = nextSeq + 1 /\ nextSeq' = nextSeq + 1
                  /\ quotes[id][m].resting => q.nonce > quotes[id][m].nonce
  <2>1. /\ msg.id \in RfqIds /\ msg.maker \in Parties /\ msg.price \in Nat
        /\ msg.maxFxrp \in Nat /\ msg.nonce \in Nat /\ now \in Nat /\ nextSeq \in Nat
    BY EnclaveAssumption DEF Inv, TypeOK
  <2> DEFINE quote == [resting |-> TRUE, maker |-> msg.maker, price |-> msg.price,
                       maxFxrp |-> msg.maxFxrp, nonce |-> msg.nonce, receivedAt |-> now,
                       seq |-> nextSeq + 1]
  <2>2. /\ quotes' = [quotes EXCEPT ![msg.id] = [quotes[msg.id] EXCEPT ![msg.maker] = quote]]
        /\ nextSeq' = nextSeq + 1
        /\ quotes[msg.id][msg.maker].resting => msg.nonce > quotes[msg.id][msg.maker].nonce
    BY <1>1 DEF handleQuoteSubmit, UpsertQuote
  <2>3. quote \in Quote /\ quote.seq = nextSeq + 1 /\ quote.nonce = msg.nonce
    BY <2>1 DEF Quote
  <2> HIDE DEF quote
  <2>4. CASE id = msg.id
    <3>1. quotes'[id] = [quotes[id] EXCEPT ![msg.maker] = quote]
      BY <2>2, <2>4 DEF Inv, TypeOK
    <3> QED
      BY <2>1, <2>2, <2>3, <2>4, <3>1
  <2>5. CASE id # msg.id
    BY <2>2, <2>5 DEF Inv, TypeOK
  <2> QED
    BY <2>4, <2>5
<1>2. ASSUME NEW msg \in RfqMessages, rfqFromInstruction(msg) \/ rfqFromDirect(msg)
      PROVE  quotes'[id] = quotes[id] \/ quotes'[id] = NoQuotes
  <2>1. quotes' = [quotes EXCEPT ![msg.id] = NoQuotes]
    BY <1>2 DEF rfqFromInstruction, rfqFromDirect, handleRfqSubmit, AddRFQ
  <2> QED
    BY <2>1 DEF Inv, TypeOK
<1>3. CASE collect
  BY <1>3 DEF collect, GC
<1>4. ASSUME NEW key \in Keys, restart(key) PROVE quotes'[id] = NoQuotes
  BY <1>4 DEF restart
<1>5. CASE refresh \/ Tick \/ ChainMoves \/ UNCHANGED vars
  BY <1>5 DEF refresh, Tick, ChainMoves, vars, bookVars
<1>6. ASSUME NEW k \in Tasks, MatchStep(k) PROVE quotes'[id] = quotes[id]
  BY <1>6 DEF MatchStep, startMatch, takeSnapshot, answerFromCache, refuse, findNoMatch,
              findMatch, signMatch, signFails, signTimesOut, markAndAnswer, markMatched,
              bookVars
<1> QED
  BY <1>1, <1>2, <1>3, <1>4, <1>5, <1>6 DEF Next, EnclaveStep

LEMMA QuoteOrderStep ==
  ASSUME Inv, [Next]_vars, NEW id \in RfqIds, NEW m \in Parties,
         quotes'[id][m] # quotes[id][m], quotes[id][m].resting, quotes'[id][m].resting
  PROVE  /\ quotes'[id][m].nonce > quotes[id][m].nonce
         /\ \A other \in Parties : quotes'[id][m].seq > quotes[id][other].seq
<1>1. quotes'[id] # NoQuotes
  BY DEF NoQuotes, NoQuote
<1>2. PICK by \in Parties, q \in Quote :
        /\ quotes'[id] = [quotes[id] EXCEPT ![by] = q] /\ q.seq = nextSeq + 1
        /\ quotes[id][by].resting => q.nonce > quotes[id][by].nonce
  BY <1>1, QuotesMove
<1>3. by = m /\ quotes'[id][m] = q
  BY <1>2 DEF Inv, TypeOK
<1>4. ASSUME NEW other \in Parties PROVE nextSeq + 1 > quotes[id][other].seq
  <2>1. quotes[id][other].seq \in Nat /\ quotes[id][other].seq <= nextSeq /\ nextSeq \in Nat
    BY DEF Inv, TypeOK, BookInv, Quote
  <2> QED
    BY <2>1
<1> QED
  BY <1>2, <1>3, <1>4

\* However quotes are delayed, repeated or reordered, a maker's resting quote is
\* only replaced by one of a higher nonce, which goes to the back of the queue.
THEOREM QuotesNeverRegress == Spec => QuotesOnlyAdvance
<1>1. Inv /\ [Next]_vars =>
        [\A id \in RfqIds, m \in Parties :
           LET old == quotes[id][m]
               new == quotes'[id][m]
           IN  (new # old /\ old.resting /\ new.resting) =>
                 /\ new.nonce > old.nonce
                 /\ \A other \in Parties : new.seq > quotes[id][other].seq]_vars
  BY QuoteOrderStep
<1>. QED  BY <1>1, InvAlways, PTL DEF Spec, QuotesOnlyAdvance

-----------------------------------------------------------------------------
(***************************************************************************)
(* Price-time priority.  The loop is an induction over the quotes in the   *)
(* order it meets them, written out with sets: the turns that go right are *)
(* all turns.                                                              *)
(***************************************************************************)
\* No two quotes of an RFQ were taken in at the same turn.
QuotesInTurn ==
  \A id \in RfqIds, m, n \in Parties :
    m # n /\ quotes[id][m].resting /\ quotes[id][n].resting =>
      quotes[id][m].seq # quotes[id][n].seq

LEMMA QuotesInTurnAlways == Spec => []QuotesInTurn
<1>1. Init => QuotesInTurn
  <2>1. NoQuotes = [m \in Parties |-> NoQuote] /\ ~NoQuote.resting
    BY DEF NoQuotes, NoQuote
  <2>2. Init => quotes = [id \in RfqIds |-> NoQuotes]
    BY DEF Init, EnclaveInit, BookInit
  <2> QED
    BY <2>1, <2>2 DEF QuotesInTurn
<1>2. Inv /\ QuotesInTurn /\ [Next]_vars => QuotesInTurn'
  <2> SUFFICES ASSUME Inv, QuotesInTurn, [Next]_vars, NEW id \in RfqIds,
                      NEW m \in Parties, NEW n \in Parties, m # n,
                      quotes'[id][m].resting, quotes'[id][n].resting
               PROVE  quotes'[id][m].seq # quotes'[id][n].seq
    BY DEF QuotesInTurn
  <2>1. CASE quotes'[id] = quotes[id]
    BY <2>1 DEF QuotesInTurn
  <2>2. quotes'[id] # NoQuotes
    BY DEF NoQuotes, NoQuote
  <2>3. ASSUME NEW by \in Parties, NEW q \in Quote,
               quotes'[id] = [quotes[id] EXCEPT ![by] = q], q.seq = nextSeq + 1
        PROVE  quotes'[id][m].seq # quotes'[id][n].seq
    <3>1. \A p \in Parties : /\ quotes[id][p].seq \in Nat /\ quotes[id][p].seq <= nextSeq
                             /\ nextSeq \in Nat
                             /\ quotes'[id][p] = IF p = by THEN q ELSE quotes[id][p]
      BY <2>3 DEF Inv, TypeOK, BookInv, Quote
    <3> QED
      BY <2>3, <3>1 DEF QuotesInTurn
  <2> QED
    BY <2>1, <2>2, <2>3, QuotesMove
<1> QED
  BY <1>1, <1>2, InvAlways, PTL DEF Spec

\* Induction up to a number: the numbers left out, up to one of them, would be as many as
\* their predecessors, which are fewer.
LEMMA UpTo ==
  ASSUME NEW last \in Nat, NEW Good, 1 \in Good,
         \A n \in 1..last : n + 1 \in 1..last /\ n \in Good => n + 1 \in Good
  PROVE  1..last \subseteq Good
<1> SUFFICES ASSUME NEW bad \in 1..last, bad \notin Good PROVE FALSE
  OBVIOUS
<1> DEFINE Left == {n \in 1..bad : n \notin Good}
<1>1. Left \subseteq 1..bad /\ bad \in Left /\ \A n \in Left : n - 1 \in Left \ {bad}
  <2>1. ASSUME NEW n \in Left PROVE n - 1 \in Left \ {bad}
    <3>1. n # 1 /\ n \in 1..bad /\ n \notin Good
      OBVIOUS
    <3>2. n - 1 \in 1..last /\ (n - 1) + 1 \in 1..last /\ (n - 1) + 1 = n /\ n - 1 \in 1..bad
          /\ n - 1 # bad
      BY <3>1
    <3>3. n - 1 \notin Good
      BY <3>1, <3>2
    <3> QED
      BY <3>2, <3>3
  <2> QED
    BY <2>1
<1>2. IsFiniteSet(Left)
  <2>1. IsFiniteSet(1..bad)
    BY FS_Interval
  <2>2. Left \in SUBSET (1..bad)
    OBVIOUS
  <2> HIDE DEF Left
  <2> QED
    BY <2>1, <2>2, FS_Subset
<1> HIDE DEF Left
<1>3. [n \in Left |-> n - 1] \in Injection(Left, Left \ {bad})
  BY <1>1 DEF Injection, IsInjective
<1>4. IsFiniteSet(Left \ {bad}) /\ Cardinality(Left \ {bad}) = Cardinality(Left) - 1
  BY <1>1, <1>2, FS_RemoveElement
<1> QED
  BY <1>2, <1>3, <1>4, FS_Injection, FS_CardinalityType

\* The winners after each turn, as far as `last`.
Turns(order, last, winner) ==
  winner = [n \in 1..last |->
              IF n = 1 THEN order[1]
              ELSE IF Beats(order[n], winner[n - 1]) THEN order[n] ELSE winner[n - 1]]

\* The loop has a winner after each turn, and ends at the last one.
LEMMA ScanTurns ==
  ASSUME NEW order, Len(order) \in Nat \ {0}
  PROVE  \E winner : Turns(order, Len(order), winner) /\ Scan(order) = winner[Len(order)]
<1> DEFINE Good == {m \in 1..Len(order) : \E winner : Turns(order, m, winner)}
<1>1. 1 \in Good
  <2>1. Turns(order, 1, [n \in 1..1 |-> order[1]])
    BY DEF Turns
  <2> QED
    BY <2>1
<1>2. ASSUME NEW m \in 1..Len(order), m + 1 \in 1..Len(order), m \in Good PROVE m + 1 \in Good
  <2>1. PICK winner : Turns(order, m, winner)
    BY <1>2
  <2> DEFINE next == [n \in 1..(m + 1) |->
                        IF n # m + 1 THEN winner[n]
                        ELSE IF Beats(order[n], winner[m]) THEN order[n] ELSE winner[m]]
             turn == [n \in 1..(m + 1) |->
                        IF n = 1 THEN order[1]
                        ELSE IF Beats(order[n], next[n - 1]) THEN order[n] ELSE next[n - 1]]
  <2>2. ASSUME NEW n \in 1..(m + 1) PROVE next[n] = turn[n]
    <3>1. CASE n = m + 1
      <4>1. n # 1 /\ n - 1 = m /\ m \in 1..(m + 1) /\ m # m + 1
        BY <3>1
      <4> QED
        BY <3>1, <4>1
    <3>2. CASE n # m + 1
      <4>1. n \in 1..m /\ (n # 1 => n - 1 \in 1..(m + 1) /\ n - 1 # m + 1)
        BY <3>2
      <4>2. winner[n] = IF n = 1 THEN order[1]
                        ELSE IF Beats(order[n], winner[n - 1]) THEN order[n] ELSE winner[n - 1]
        BY <2>1, <4>1 DEF Turns
      <4> QED
        BY <3>2, <4>1, <4>2
    <3> QED
      BY <3>1, <3>2
  <2>3. next = turn
    BY <2>2
  <2>4. Turns(order, m + 1, next)
    BY <2>3 DEF Turns
  <2> QED
    BY <1>2, <2>4
<1>3. Len(order) \in 1..Len(order)
  OBVIOUS
<1>4. \E winner : Turns(order, Len(order), winner)
  <2> HIDE DEF Good
  <2>1. 1..Len(order) \subseteq Good
    BY <1>1, <1>2, UpTo
  <2> QED
    BY <1>3, <2>1 DEF Good
<1>5. Scan(order) = (CHOOSE winner : Turns(order, Len(order), winner))[Len(order)]
  BY DEF Scan, Turns
<1> QED
  BY <1>4, <1>5

\* The loop ends at a quote it was given, which beats all the others.
LEMMA ScanWins ==
  ASSUME NEW order, NEW S, Len(order) \in Nat \ {0}, order \in [1..Len(order) -> S],
         \A q \in S : q.price \in Nat /\ q.seq \in Nat,
         \A i, j \in 1..Len(order) : i # j => order[i].seq # order[j].seq
  PROVE  \E w \in 1..Len(order) :
           /\ Scan(order) = order[w]
           /\ \A i \in 1..Len(order) : i # w => Beats(order[w], order[i])
<1>1. PICK winner : Turns(order, Len(order), winner) /\ Scan(order) = winner[Len(order)]
  BY ScanTurns
<1> DEFINE Wins(w, n) == /\ winner[n] = order[w]
                         /\ \A i \in 1..n : i # w => Beats(order[w], order[i])
           Good == {n \in 1..Len(order) : \E w \in 1..n : Wins(w, n)}
<1>2. \A n \in 1..Len(order) :
        winner[n] = IF n = 1 THEN order[1]
                    ELSE IF Beats(order[n], winner[n - 1]) THEN order[n] ELSE winner[n - 1]
  BY <1>1 DEF Turns
<1>3. 1 \in Good
  <2>1. 1 \in 1..Len(order) /\ \A i \in 1..1 : i = 1
    OBVIOUS
  <2>2. Wins(1, 1)
    BY <1>2, <2>1
  <2> QED
    BY <2>1, <2>2
<1>4. ASSUME NEW n \in 1..Len(order), n + 1 \in 1..Len(order), n \in Good PROVE n + 1 \in Good
  <2>1. PICK w \in 1..n : Wins(w, n)
    BY <1>4
  <2>2. /\ w \in 1..Len(order) /\ w \in 1..(n + 1) /\ w # n + 1 /\ n + 1 # 1
        /\ n + 1 \in 1..(n + 1) /\ (n + 1) - 1 = n
        /\ \A i \in 1..(n + 1) : i # n + 1 => i \in 1..n
        /\ \A i \in 1..(n + 1) : i \in 1..Len(order)
    BY <1>4
  <2>3. winner[n + 1] = IF Beats(order[n + 1], order[w]) THEN order[n + 1] ELSE order[w]
    BY <1>2, <1>4, <2>1, <2>2
  <2>4. \A i \in 1..Len(order) : order[i].price \in Nat /\ order[i].seq \in Nat
    OBVIOUS
  <2>5. CASE Beats(order[n + 1], order[w])
    <3>1. \A i \in 1..n : Beats(order[n + 1], order[i])
      BY <2>1, <2>2, <2>4, <2>5 DEF Beats
    <3>2. Wins(n + 1, n + 1)
      BY <2>2, <2>3, <2>5, <3>1
    <3> QED
      BY <1>4, <2>2, <3>2
  <2>6. CASE ~Beats(order[n + 1], order[w])
    <3>1. order[n + 1].seq # order[w].seq
      BY <1>4, <2>2
    <3>2. Beats(order[w], order[n + 1])
      BY <1>4, <2>2, <2>4, <2>6, <3>1 DEF Beats
    <3>3. Wins(w, n + 1)
      BY <2>1, <2>2, <2>3, <2>6, <3>2
    <3> QED
      BY <1>4, <2>2, <3>3
  <2> QED
    BY <2>5, <2>6
<1>5. Len(order) \in 1..Len(order)
  OBVIOUS
<1>6. Len(order) \in Good
  <2> HIDE DEF Good
  <2> QED
    BY <1>3, <1>4, <1>5, UpTo
<1> QED
  BY <1>1, <1>6

\* Whatever order the map yields the quotes in, for any number of makers and any prices, the
\* loop of the matcher ends at the one quote that price-time priority names.
THEOREM PriceTimePriority == Spec => []ScanIsOrderFree
<1>1. Inv /\ QuotesInTurn => ScanIsOrderFree
  <2> SUFFICES ASSUME Inv, QuotesInTurn, NEW id \in RfqIds,
                      NEW eligible \in (SUBSET RestingQuotes(id)) \ {{}},
                      NEW order \in SetToSeqs(eligible)
               PROVE  {q \in eligible : IsWinner(q, eligible)} = {Scan(order)}
    BY DEF ScanIsOrderFree
  <2>1. \A q \in eligible : q.price \in Nat /\ q.seq \in 0..nextSeq /\ nextSeq \in Nat
    BY DEF RestingQuotes, Makers, Inv, TypeOK, BookInv, Quote
  <2>2. \A p, q \in eligible : p # q => p.seq # q.seq
    BY DEF RestingQuotes, Makers, QuotesInTurn
  <2>3. IsFiniteSet(eligible)
    <3>1. [q \in eligible |-> q.seq] \in Injection(eligible, 0..nextSeq)
      BY <2>1, <2>2 DEF Injection, IsInjective
    <3>2. nextSeq \in Nat
      BY DEF Inv, TypeOK
    <3> QED
      BY <3>1, <3>2, FS_Interval, FS_Injection
  <2> DEFINE size == Cardinality(eligible)
  <2>4. size \in Nat \ {0}
    <3>1. eligible # {}
      OBVIOUS
    <3> QED
      BY <2>3, <3>1, FS_CardinalityType, FS_EmptySet
  <2>5. order \in [1..size -> eligible] /\ \A i, j \in 1..size : i # j => order[i] # order[j]
    BY DEF SetToSeqs
  <2> HIDE DEF size
  <2>6. Len(order) = size
    BY <2>4, <2>5
  <2>7. \A q \in eligible : \E i \in 1..size : order[i] = q
    <3>1. order \in Injection(1..size, eligible)
      BY <2>5 DEF Injection, IsInjective
    <3>2. Cardinality(1..size) = size
      BY <2>4, FS_Interval
    <3>3. order \in Surjection(1..size, eligible)
      BY <2>3, <3>1, <3>2, FS_Injection DEF size
    <3> QED
      BY <3>3 DEF Surjection
  <2>8. \A i, j \in 1..size : i # j => order[i].seq # order[j].seq
    BY <2>2, <2>5
  <2>9. PICK w \in 1..size : /\ Scan(order) = order[w]
                             /\ \A i \in 1..size : i # w => Beats(order[w], order[i])
    <3>1. /\ Len(order) \in Nat \ {0} /\ order \in [1..Len(order) -> eligible]
          /\ \A q \in eligible : q.price \in Nat /\ q.seq \in Nat
          /\ \A i, j \in 1..Len(order) : i # j => order[i].seq # order[j].seq
      BY <2>1, <2>4, <2>5, <2>6, <2>8
    <3> QED
      BY <2>6, <3>1, ScanWins
  <2>10. order[w] \in eligible /\ \A q \in eligible \ {order[w]} : Beats(order[w], q)
    BY <2>5, <2>7, <2>9
  <2>11. IsWinner(order[w], eligible)
    BY <2>1, <2>10 DEF IsWinner, Beats
  <2>12. ASSUME NEW q \in eligible, IsWinner(q, eligible) PROVE q = order[w]
    <3>1. CASE q # order[w]
      <4>1. Beats(order[w], q)
        BY <2>10, <3>1
      <4>2. order[w] \in eligible \ {q}
        BY <2>10, <3>1
      <4>3. order[w].price < q.price \/ (order[w].price = q.price /\ order[w].seq > q.seq)
        BY <2>12, <4>2 DEF IsWinner
      <4> QED
        BY <2>1, <2>10, <4>1, <4>3 DEF Beats
    <3> QED
      BY <3>1
  <2> QED
    BY <2>9, <2>10, <2>11, <2>12
<1> QED
  BY <1>1, InvAlways, QuotesInTurnAlways, PTL

-----------------------------------------------------------------------------
(***************************************************************************)
(* Requests one at a time agree.                                           *)
(***************************************************************************)
\* No two requests are between their intake and their answer together.
OneAtATime ==
  \A j, k \in Tasks : tasks[j].pc # "idle" /\ tasks[k].pc # "idle" => j = k

\* What was answered is what the book has stored, and nothing was answered before
\* something is stored; what the book has forgotten is answered no more than once.
AgreedAnswers(id) ==
  /\ rfqs[id].open /\ ~rfqs[id].matched => answers[id] = {}
  /\ rfqs[id].open /\ rfqs[id].matched => answers[id] \subseteq {rfqs[id].outcome}
  /\ \E outcome \in MatchOutcome : answers[id] \subseteq {outcome}

\* A request that has decided and not yet stored its outcome is the first to answer.
FirstToAnswer(k) ==
  tasks[k].pc \in {"sign", "mark"} =>
    /\ answers[tasks[k].id] = {}
    /\ ~(rfqs[tasks[k].id].open /\ rfqs[tasks[k].id].matched)

AgreeInv ==
  /\ \A id \in RfqIds : AgreedAnswers(id)
  /\ \A k \in Tasks : FirstToAnswer(k)

\* A step that leaves the book and the answers alone, and brings no request to its
\* decision.
LEMMA AgreeQuietly ==
  ASSUME AgreeInv, UNCHANGED <<rfqs, answers>>,
         \A j \in Tasks :
           \/ tasks'[j].pc \notin {"sign", "mark"}
           \/ tasks'[j].id = tasks[j].id /\ tasks[j].pc \in {"sign", "mark"}
  PROVE  AgreeInv'
BY DEF AgreeInv, AgreedAnswers, FirstToAnswer

\* The steps of one request.
LEMMA AgreeMatchStep ==
  ASSUME Inv, AgreeInv, OneAtATime, NEW k \in Tasks, MatchStep(k)
  PROVE  AgreeInv'
<1>1. /\ tasks \in [Tasks -> Request] /\ rfqs \in [RfqIds -> RFQ]
      /\ answers \in [RfqIds -> SUBSET MatchOutcome]
      /\ tasks[k].pc # "idle" => tasks[k].id \in RfqIds
  BY DEF Inv, TypeOK
<1>2. \A j \in Tasks \ {k} : tasks'[j] = tasks[j]
  BY <1>1 DEF MatchStep, Goto, startMatch, takeSnapshot, answerFromCache, refuse, findNoMatch,
              findMatch, signMatch, signFails, signTimesOut, markAndAnswer
<1>3. tasks[k].pc # "idle" => \A j \in Tasks \ {k} : tasks[j].pc = "idle"
  BY DEF OneAtATime
<1>4. CASE (\E id \in RfqIds : startMatch(k, id)) \/ takeSnapshot(k) \/ refuse(k) \/ signFails(k)
           \/ signTimesOut(k) \/ signMatch(k)
  <2>1. UNCHANGED <<rfqs, answers>>
    BY <1>4 DEF startMatch, takeSnapshot, refuse, signFails, signTimesOut, signMatch, bookVars
  <2>2. \/ tasks'[k].pc \notin {"sign", "mark"}
        \/ tasks'[k].id = tasks[k].id /\ tasks[k].pc = "sign"
    <3>1. CASE \E id \in RfqIds : startMatch(k, id)
      BY <1>1, <3>1 DEF startMatch, Goto, Idle
    <3>4. CASE takeSnapshot(k)
      BY <1>1, <3>4 DEF takeSnapshot, Goto, Request
    <3>2. CASE refuse(k) \/ signFails(k) \/ signTimesOut(k)
      BY <1>1, <3>2 DEF refuse, signFails, signTimesOut, Goto, Idle
    <3>3. CASE signMatch(k)
      BY <1>1, <3>3 DEF signMatch, Goto, Request
    <3>. QED  BY <1>4, <3>1, <3>2, <3>3, <3>4
  <2>. QED  BY <1>2, <2>1, <2>2, AgreeQuietly
<1>5. CASE findNoMatch(k) \/ findMatch(k)
  <2>1. /\ tasks[k].pc = "match" /\ UNCHANGED <<rfqs, answers>>
        /\ rfqs[tasks[k].id].open /\ ~rfqs[tasks[k].id].matched
        /\ tasks'[k].id = tasks[k].id
    BY <1>1, <1>5 DEF findNoMatch, findMatch, Decidable, Goto, bookVars, Request
  <2>2. answers[tasks[k].id] = {}
    BY <1>1, <2>1 DEF AgreeInv, AgreedAnswers
  <2>3. FirstToAnswer(k)'
    BY <2>1, <2>2 DEF FirstToAnswer
  <2>. QED  BY <1>2, <2>1, <2>3 DEF AgreeInv, AgreedAnswers, FirstToAnswer
<1>6. CASE answerFromCache(k)
  <2> DEFINE id == tasks[k].id
  <2>1. /\ id \in RfqIds /\ rfqs[id].open /\ rfqs[id].matched /\ UNCHANGED rfqs
        /\ answers' = [answers EXCEPT ![id] = @ \cup {rfqs[id].outcome}]
        /\ tasks'[k].pc = "idle" /\ tasks[k].pc # "idle"
    BY <1>1, <1>6 DEF answerFromCache, Answer, Goto, Idle, bookVars
  <2>2. rfqs[id].outcome \in MatchOutcome
    BY <1>1, <2>1 DEF RFQ
  <2>3. answers'[id] \subseteq {rfqs[id].outcome}
    BY <1>1, <2>1 DEF AgreeInv, AgreedAnswers
  <2>4. ASSUME NEW i \in RfqIds PROVE AgreedAnswers(i)'
    <3>1. CASE i = id
      BY <2>1, <2>2, <2>3, <3>1 DEF AgreedAnswers
    <3>2. CASE i # id
      BY <1>1, <2>1, <3>2 DEF AgreeInv, AgreedAnswers
    <3>. QED  BY <3>1, <3>2
  <2>5. \A j \in Tasks : FirstToAnswer(j)'
    BY <1>2, <1>3, <2>1 DEF FirstToAnswer
  <2>. QED  BY <2>4, <2>5 DEF AgreeInv
<1>7. CASE markAndAnswer(k)
  <2> DEFINE id == tasks[k].id
             outcome == tasks[k].outcome
  <2>1. /\ id \in RfqIds /\ outcome \in MatchOutcome
        /\ rfqs' = IF rfqs[id].open
                   THEN [rfqs EXCEPT ![id] = [rfqs[id] EXCEPT !.matched = TRUE, !.outcome = outcome]]
                   ELSE rfqs
        /\ answers' = [answers EXCEPT ![id] = @ \cup {outcome}]
        /\ tasks'[k].pc = "idle" /\ tasks[k].pc = "mark"
    BY <1>1, <1>7 DEF markAndAnswer, markMatched, Answer, Goto, Idle, Request
  <2>2. answers'[id] = {outcome}
    BY <1>1, <2>1 DEF AgreeInv, FirstToAnswer
  <2>3. rfqs'[id].open => rfqs'[id].matched /\ rfqs'[id].outcome = outcome
    BY <1>1, <2>1 DEF RFQ
  <2>4. ASSUME NEW i \in RfqIds PROVE AgreedAnswers(i)'
    <3>1. CASE i = id
      BY <2>1, <2>2, <2>3, <3>1 DEF AgreedAnswers
    <3>2. CASE i # id
      <4>1. rfqs'[i] = rfqs[i] /\ answers'[i] = answers[i]
        BY <1>1, <2>1, <3>2
      <4>. QED  BY <4>1 DEF AgreeInv, AgreedAnswers
    <3>. QED  BY <3>1, <3>2
  <2>5. \A j \in Tasks : FirstToAnswer(j)'
    BY <1>2, <1>3, <2>1 DEF FirstToAnswer
  <2>. QED  BY <2>4, <2>5 DEF AgreeInv
<1>. QED  BY <1>4, <1>5, <1>6, <1>7 DEF MatchStep

\* Every step; an RFQ taken in, one collected and a restart begin anew.
LEMMA AgreeStep ==
  ASSUME Inv, AgreeInv, OneAtATime, [Next]_vars
  PROVE  AgreeInv'
<1>1. /\ rfqs \in [RfqIds -> RFQ] /\ answers \in [RfqIds -> SUBSET MatchOutcome]
      /\ \A k \in Tasks : tasks[k].pc # "idle" => tasks[k].id \in RfqIds
  BY DEF Inv, TypeOK
<1>2. CASE \E k \in Tasks : MatchStep(k)
  BY <1>2, AgreeMatchStep
<1>3. CASE \E msg \in RfqMessages : rfqFromInstruction(msg) \/ rfqFromDirect(msg)
  <2>1. PICK msg \in RfqMessages : rfqFromInstruction(msg) \/ rfqFromDirect(msg)
    BY <1>3
  <2>2. /\ msg.id \in RfqIds /\ UNCHANGED tasks
        /\ answers' = [answers EXCEPT ![msg.id] = {}]
        /\ rfqs'[msg.id].open /\ ~rfqs'[msg.id].matched
        /\ \A i \in RfqIds \ {msg.id} : rfqs'[i] = rfqs[i]
    BY <1>1, <2>1, EnclaveAssumption
       DEF rfqFromInstruction, rfqFromDirect, handleRfqSubmit, AddRFQ
  <2>3. ASSUME NEW i \in RfqIds PROVE AgreedAnswers(i)'
    <3>1. CASE i = msg.id
      BY <1>1, <2>2, <3>1, RecordTypes DEF AgreedAnswers
    <3>2. CASE i # msg.id
      BY <1>1, <2>2, <3>2 DEF AgreeInv, AgreedAnswers
    <3>. QED  BY <3>1, <3>2
  <2>4. ASSUME NEW j \in Tasks PROVE FirstToAnswer(j)'
    BY <1>1, <2>2 DEF AgreeInv, FirstToAnswer
  <2>. QED  BY <2>3, <2>4 DEF AgreeInv
<1>4. CASE collect
  <2>1. UNCHANGED <<tasks, answers>>
    BY <1>4 DEF collect
  <2>2. \A i \in RfqIds : rfqs'[i] = rfqs[i] \/ ~rfqs'[i].open
    BY <1>4 DEF collect, GC, NoRfq
  <2>. QED  BY <1>1, <2>1, <2>2 DEF AgreeInv, AgreedAnswers, FirstToAnswer
<1>5. CASE \E key \in Keys : restart(key)
  <2>1. /\ \A i \in RfqIds : ~rfqs'[i].open /\ answers'[i] = {}
        /\ \A j \in Tasks : tasks'[j].pc = "idle"
    BY <1>5 DEF restart, NoRfq, Idle
  <2>. QED  BY <2>1, RecordTypes DEF AgreeInv, AgreedAnswers, FirstToAnswer
<1>6. CASE \/ \E msg \in QuoteMessages : handleQuoteSubmit(msg)
           \/ refresh \/ Tick \/ ChainMoves \/ UNCHANGED vars
  <2>1. UNCHANGED <<rfqs, answers, tasks>>
    BY <1>6 DEF handleQuoteSubmit, UpsertQuote, refresh, Tick, ChainMoves, vars, bookVars
  <2>. QED  BY <2>1 DEF AgreeInv, AgreedAnswers, FirstToAnswer
<1>. QED  BY <1>2, <1>3, <1>4, <1>5, <1>6 DEF Next, EnclaveStep

\* While no two requests overlap, all requests for an RFQ in the book get the same
\* outcome, whatever is quoted, collected, lost by the sign port or restarted.
THEOREM RequestsInTurnAgree == Spec /\ []OneAtATime => []AnswersAgree
<1>1. Init => AgreeInv
  BY RecordTypes DEF Init, EnclaveInit, BookInit, NoRfq, AgreeInv, AgreedAnswers, FirstToAnswer
<1>2. Inv /\ AgreeInv /\ OneAtATime /\ [Next]_vars => AgreeInv'
  BY AgreeStep
<1>3. AgreeInv => AnswersAgree
  <2> SUFFICES ASSUME AgreeInv, NEW id \in RfqIds PROVE Cardinality(answers[id]) <= 1
    BY DEF AnswersAgree
  <2>1. PICK outcome : answers[id] = {} \/ answers[id] = {outcome}
    BY DEF AgreeInv, AgreedAnswers
  <2>2. CASE answers[id] = {}
    BY <2>2, FS_EmptySet
  <2>3. CASE answers[id] = {outcome}
    <3>1. Cardinality({outcome}) = 1
      BY FS_Singleton
    <3>. QED  BY <2>3, <3>1
  <2>. QED  BY <2>1, <2>2, <2>3
<1>. QED  BY <1>1, <1>2, <1>3, InvAlways, PTL DEF Spec
=============================================================================
