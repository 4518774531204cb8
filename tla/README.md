# Whisper Desk: verification project

Whisper Desk is an over-the-counter desk for FXRP against XRP. A taker seals a
request for quote (RFQ) that only a trusted execution environment (TEE) can
read; makers send it signed quotes; the TEE picks a winner and signs a match
instruction; the `DvPEscrow` contract locks the taker's FXRP and the maker's
bond; the maker pays XRP on the XRP Ledger; a Flare Data Connector (FDC) proof
of that payment releases the FXRP, and without one the taker takes it back
together with the bond.

This directory holds TLA+ models of the contracts, of the enclave, of the two
together, of the demo server in its three modes, of what it gives away and of the
screens of the browser, the TLC runs that check them
on small instances, and TLAPS proofs of the main properties of the contracts, of
the enclave, of the server, of the quotas and of the screens for every value of the
constants. `PROJECT.json` indexes it:
components, runs, mutants, the source lines of every definition, findings,
hazards and theorems.

    tlc -workers 2 -config EscrowAccounting.cfg MCDvPEscrow.tla
    tlapm DvPEscrowProofs.tla

## 1. Inventory

| Component (under `src/`) | State | Operations | Correct when |
|---|---|---|---|
| `contracts/src/DvPEscrow.sol` | per taker `armed`, `committed`, `armedUntil`; `matches`; `nextDestinationTag`; `usedTxId`; `teeSigner`, `lockPaused`, `feeTreasury` | `deposit`, `withdraw`, `lock`, `release`, `refund`, three owner setters | tokens held equal tokens owed; promised funds cannot be withdrawn; one XRPL payment releases at most one match; every match settles; an honest maker is never slashed |
| `contracts/src/BondLedger.sol` | `freeBond`, `lockedBonds`, `escrow` | `depositBond`, `withdrawBond`, `lockBond`, `releaseBond`, `slashBond`, `setEscrow` | a bond is active exactly while its match is open, with that maker and amount |
| `contracts/src/WhisperDeskInstructionSender.sol` | extension id | `setExtensionId`, `submitRfq`, `triggerMatch` | an RFQ is bound to the account that sent it |
| `extension/matcher/match.go`, `instruction.go` | none | `matchCore`, `Match*`, encoding and signing of `WD_MATCH_V1` | price-time priority; nothing outside either party's terms; same rules as `lock` |
| `extension/matcher/book.go` | RFQs, quotes per RFQ and maker, intake counter, cached outcomes; RAM only, one mutex | `AddRFQ`, `UpsertQuote`, `Participants`, `snapshotForMatch`, `CachedOutcome`, `markMatched`, `GC` | quotes only advance; a decided RFQ stays decided |
| `extension/fcewire/snapshot.go`, `chainreads.go` | cached mid, bonds, balances; tracked addresses | `TrackMaker`, `TrackTaker`, `refresh`, `Snapshot` | never more optimistic than what was read; stale prices refused |
| `extension/fcewire/handler.go` and its wire code | none beyond the above | `RFQ_SUBMIT`, `QUOTE_SUBMIT`, `RFQ_MATCH` over the instruction and the `/direct` ingress | only authentic messages reach the book |
| `web/src/lib/demo`, `web/src/app/api` | run lock, open-RFQ and quote records, prepare records, all in one process | lock, pay, attest, release and refund a demo run; wallet and maker flows | one run at a time; nobody pays under a wrong tag; records and answers say what the chain says |
| `web/src/lib/demo/ratelimit.ts`, the faucet and gas routes | hits per kind and caller, last claims, the day's gas, in the same process | `checkAndConsume`, `checkAndRecordFaucetClaim`, `checkAndRecordGasClaim`, the transfers | quotas hold in every rolling window; the gas kept for settlements is kept |
| `web/src/components` (`DemoConsole`, `DeskHome`, `WalletMode`, `MakerMode`), `useWalletAccount.ts`, `wallet-client.ts` | the trade that is open; the stage, error and data of every step of two screens; whether the wallet's account is known | the buttons, the answers of server and wallet, opening and leaving a trade | no dead end; a retry sends what is due and of this match; who pays is who gets the FXRP |
| `scripts/` | none (sequential) | end-to-end and enclave-loop runs, FDC spike | not modelled |
| `contracts/script`, `db/`, mocks, `contracts/lib` | | deployment, an unused schema, test doubles, vendored code | not modelled |

### Interactions

* Anybody may call `submitRfq`; the contract puts the caller in an envelope
  round the ciphertext and the TEE network delivers it to the extension. The
  extension decrypts it and insists that the taker named inside is the caller.
  `/direct` takes quotes (authenticated by the maker's signature), match
  requests, and, if `WD_ALLOW_DIRECT_RFQ` is set, RFQs in whatever envelope.
* The enclave reads price, bonds and balances only through its cache, which a
  background goroutine fills one value at a time. `lock` reads the same values
  again, as they are in its own transaction.
* A match instruction leaves the enclave as data. Whoever holds it can present
  it to `lock`, whenever and as often as they like.
* `DvPEscrow` calls `BondLedger` and the FXRP token in the same transaction; a
  revert undoes everything, so a transaction is one atomic step.
* The XRP Ledger has its own clock. The FDC attests its transactions to an owner
  address; `release` accepts a proof made for this escrow only.
* The demo server talks to all of these over HTTP and JSON-RPC and keeps its own
  records in process memory between requests.
* A screen talks to the server by HTTP, to the chain through the visitor's wallet,
  and tells the console by a callback whether it is busy. Its handlers run to
  their end although the screen is left; then their results show nowhere.

### What is hard here

* Interleaving: several `RFQ_MATCH` requests in flight (the proxy gives up after
  2 s and callers retry), quotes arriving during a match, refreshes between the
  reads, withdrawals and locks in the same block range.
* Ordering and delivery: quotes late, repeated or reordered; a sealed RFQ copied
  into another envelope; an XRPL payment or its proof presented twice.
* Time: settlement window, attestation budget, grace, arming time, quote and RFQ
  lifetimes, instruction expiry, the age of a price, the skew between ledgers.
* Crash and restart: a TEE restart loses the book, the outcomes and the key,
  while instructions signed before are still in circulation.
* Arithmetic: truncating divisions at the band edge, 128-bit balances clamped to
  64 bits, checked narrow counters.
* The same rules written twice, in Go and in Solidity.
* Screens: a handler is a chain of awaits, other buttons can be pressed meanwhile,
  and a call that failed for the screen may have succeeded for the server.

The hazards of `PROJECT.json` list these line by line, with the properties that
cover them, and say which ones nothing covers yet.

## 2. Modules

```
Totals ─────┐                                sums over finite sets
BondLedger ─┤
            ├─ DvPEscrow ── DvPEscrowProofs  both contracts, token, oracle, XRPL, FDC
Settlement ─┘      │    │   └─ SettlementProofs   (Settlement: the abstract promise)
                   │    └── MCDvPEscrow
Matcher ─┬─ SealedBook ─┐
         └─ ChainCache ─┴─ Enclave ── EnclaveProofs
                   │          └────── MCEnclave
                   └── WhisperDesk (EXTENDS DvPEscrow, INSTANCE Enclave)
                              ├────── MCWhisperDesk
                              └────── WhisperDeskProofs (EXTENDS SettlementProofs, INSTANCE EnclaveProofs)
RunLock ─┬─ DeskServer (EXTENDS DvPEscrow, RunLock) ─┬─ MCDeskServer
         │                     SettlementProofs ─┬───┴─ DeskServerProofs
         │                                       └───┬─ MakerDeskProofs
         └─ MakerDesk  (EXTENDS DvPEscrow, RunLock) ─┴─ MCMakerDesk
Quotas ─┬─ MCQuotas
        └─ QuotasProofs
DeskApi ── WalletAccount ─┬─ TakerScreen ─┐
                          └─ MakerScreen ─┴─ Console ─┬─ MCConsole
                                                      └─ ConsoleProofs
```

**BondLedger**, **DvPEscrow**: one action per external function, with every
`require`/`revert` as a guard in the order of the code, and the callee's effect
conjoined (`lock` contains `lockBond`, `release` contains `releaseBond`). FXRP is
a function from accounts to amounts. `lock` takes an instruction and the key its
signature recovers to. XRPL payments are records under a transaction id, the
oracle a price with a time; both, the FDC's attested set and the clock move by
actions of their own (`XrplPay`, `OracleUpdate`, `FdcAttest`, `Tick`), because
they are outside the repository. `block.timestamp` is `now`; the close time of
an XRPL ledger may differ from it by `MAX_SKEW`.

**Settlement** says what the two contracts promise without armed balances,
counters, tags or proofs: a party's claim changes only by the opening, the
delivery or the return of one deal. `Promise` in DvPEscrow is the refinement
mapping (a claim is own tokens + available balance + free bond).

**Matcher**, **SealedBook**, **ChainCache**: the pure matching function, the book
(each method holds the mutex from start to end, so each is one step) and the
cache with its one-value-at-a-time refresh. A refresh that fails changes
nothing, which is the refresh not being taken. `Matcher` has the winner both as
the loop the code runs (`Scan`, over any order a Go map may yield) and as its
meaning (`IsWinner`), and a run compares them.

**Enclave**: `RFQ_SUBMIT` and `QUOTE_SUBMIT` make one change to the book and are
atomic; decryption and unpadding are abstracted to the message being of a known
shape, and signature recovery to the field `signer`. `RFQ_MATCH` is not atomic:
`startMatch` (`Participants`), `takeSnapshot`, `answerFromCache` / `refuse` /
`findNoMatch` / `findMatch` (`CachedOutcome` and `snapshotForMatch` and
`matchCore`), `signMatch` / `signFails` / `signTimesOut`, `markAndAnswer`, each
holding what the Go locals hold in `tasks`. The reason at `Decidable` says why the
two book reads of `matchWithSignFunc` may be one step. `restart` loses
everything in memory and comes back with a key never used before.

**WhisperDesk**: the enclave reading the contracts' own state through its cache,
`lock` fed with exactly what the TEE has signed, and the owner registering keys
the node has shown, at any time. It has no pause: `setLockPaused` only disables
`lock`, which is in the runs of the escrow.

**RunLock**, **DeskServer**: the server's one-click and wallet modes. A request is
one activation of a route handler, and an action is the code between two of its
awaits, so any two requests interleave at every await; the handler's locals are
in `requests[r]`. `failRun` is any await that throws (a node that does not
answer, a reverted transaction, an empty reserve) with the `catch` that follows,
`failSettling` the same in the routes that pay or settle, which keep the run
lock. A transaction is one action, sent and mined, and the code after it a later
one: a restart in between is a transaction that lands after the process is gone.
`readDeposit`, `ensureFxrpBalance`, `topUp` and `depositMissing` serve the taker's
deposit and the maker's bond alike, as the code's helpers do (`stage`). Visitors
deposit and lock exactly what they were answered, when they like. Payments go out
on every call, since the code records none; `/demo/pay` takes tag and drops from the
body of the request, up to `MAX_XRP_DROPS`, so `demoPay` is given what was answered
or anything of `PayBodies`. The clock is the chain's; the two
modes' validities (`ONE_CLICK_DEADLINE`, `WALLET_MODE_DEADLINE`, `ARMED_FOR`) and
the time limits of the run lock and of prepare records are constants.

**MakerDesk**: the server's maker mode, in the same style. The desk opens RFQs of
its own as a taker (`openRfq` to `ackRfq`), publishes a visiting taker's
(`confirmTakerRfq`, which takes the transaction of any sealed RFQ, and again), waits
for the window, asks the enclave (`triggerMatch`, with its retries), verifies the signing key, relays the lock and writes the match
record; a payment is made by the server (`payXrpl`, `payAnswers`) or found on the
ledger (`scanFinds`). Of the enclave it has what a caller of `RFQ_MATCH` sees: the
window, who has quoted, the outcome that is stored. A stored outcome is answered; if
there is none, one is found from the quotes of that moment (`triggerMatch`) and stored and
answered a step later (`storeMatch`), over what another request may have stored meanwhile
(`othersMatch`: anybody may send `RFQ_MATCH`, and one whose sender has given up goes on).
The scan compares what a payment was sent with (`intendedReceivedAmount`), `release` what
of it arrived (`receivedAmount`), and in the model the two can differ as on the ledger. A record past its time limit is
kept and no longer read, where the code deletes it on reading; the margin of five
seconds after the window is left out, so the retries are reached when the
server has lost the record of the window.

**Quotas**: the two kinds of limits and the three routes that pay out of the
owner's wallet. `checkAndConsume` and the two claim functions have no await and
are one step; a route is cut at its awaits (`readOwnerGas`, `claimGas`,
`readReserve`, `sendGas`, `sendFxrp`), and may `fail` at each, its claim staying.
A list of timestamps is a set of numbered hits (`Hit`): `checkAndConsume` asks of
a list how long it is and for its smallest time, never for its order, and two
calls of one tick stay two. `granted` and `claims` are histories: the properties read
them, and `granted` numbers the hits.

**DeskApi** is what the screens talk to, at the height at which they see it:
a *deal* is an RFQ or a prepared match and becomes one match under the same id,
with a phase, whether its quote window and its payment window are over, who has
quoted, what the enclave decided, whether the server still has its record, and
how often it was paid. Each operator says when a route or a transaction can
succeed and what it changes then; what the server does inside is in DeskServer
and MakerDesk. Prices, amounts, tags and balances are not tracked: a deposit may
succeed or fail, a balance may be zero or not. `Fails(effect)` is a failure as the
screen hears it: nothing happened, or it did and the answer was lost.

**TakerScreen** (`WalletMode.tsx`), **MakerScreen** (`MakerMode.tsx`): one record per
tab with the component's state (stages, errors and the data kept for retries).
Pressing a button is an action with the condition under which the button is on
the screen and enabled, mapped to the card that offers it; it sets a stage and
asks for something. An answer is an action of the handler that awaits it, which
sets the next stage and may ask on (`calls` is what the tab awaits). A call is
served and answered in one step, which loses nothing here: between the two the
screen can only do what it could do before. Wording, balances shown, pills and
logs are left out. **WalletAccount** is the part both screens share.

**Console** (`DemoConsole.tsx`, `DeskHome.tsx`) opens and leaves trades. Mounting
starts from the initial state, unmounting drops it, setting the state of a
component that is gone does nothing, and its handlers run on (`ShowTaker`,
`ShowMaker`). A poll that looks at `mountedRef` goes on only while the screen is
there. The last word of an unmounted screen about being busy stays (`desk`).

## 3. Runs

All runs scale basis points to `BIPS = 4`: the band is a quarter, the bond a
quarter. With a mid of 4 the band is 3..5; amounts of 4 and 5 then round the way
10 000 does, and prices just inside and just outside the band exist.

| Run | Instance | What it shows |
|---|---|---|
| `escrow_accounting` | 2 matches, 1 taker, 1 maker, 2 payments, time 0..3 | counters, bonds and tokens of both contracts always agree; releases and payments pair off; `DvPEscrow` implements `Settlement` |
| `escrow_checks` | 1 match, 8 instructions of which 6 are wrong in one way, 7 payments of which 6 are, skew 1, a mid of 4 or 5, time 0..5, under `FairSpec` | drops stay in the band whatever is presented to `lock`; an in-time payer keeps budget and grace; every locked match settles |
| `enclave_book` | 1 RFQ in 3 envelopes, 5 quotes of 2 makers (3 unacceptable), direct ingress, a restart, balances on both sides of a 64-bit limit scaled to 7, time 0..2 | nothing outside both parties' terms is signed; one request at a time has one outcome; the loop is independent of map order; late quotes never displace newer ones; clamping is on the safe side |
| `enclave_double_match`, `enclave_requote` | | the first two findings below |
| `desk_trades` | 1 RFQ in two envelopes, quotes at the band edge and under the limit, mids 4 and 3, 2 keys, sign timeouts, time 0..1 | what is locked on chain is what both sides asked for; a match found on a current view is one `lock` accepts |
| `desk_server` | 2 requests, 2 matches, 1 payment, both modes, two bodies for `/demo/pay` that nobody was answered (no match's tag and amount; above the ceiling), a mid of 5 that may fall to 4 in the first run, time 0..2, refund due after one tick, run lock of 1 tick, wallets a bond short and a reserve of one | what the server pays for a wallet match covers what `lock` asked for; one-click answers match the chain; no lock is left behind by a finished run |
| `desk_tag` | 1 request, 2 matches, time 0..3, run lock of 1 tick | the third finding |
| `maker_records` | 1 request, 1 id, a desk and a visiting taker, 1 maker, 1 payment of the right amount, of a smaller one, or of the right one with less delivered, price 4 against a mid of 5, time 0..2 | the match record says what the contract holds; a payment reported as detected is one `release` accepts if it was in time and delivered in full |
| `quotas` | 2 requests in flight, 3 in all, 3 addresses that ask for gas and one for FXRP, 3 callers, limits of 1 and 2, a window, a day and a gap between claims of 2 ticks, time 0..2 | quotas hold in every rolling window and a refused caller is told how long to wait; claims of one address at one faucet are two ticks apart, and no two of one tick pass for one; the day's budget is kept; concurrent drips cut into the reserve by one drip each at most |
| `console` | 1 tab, 2 deals, 1 quote and 2 payments per deal, the account lost once | no dead end, no retry of the wrong thing or of a thing done, nothing shown as settled that was not released, no trade taken away while it awaits an answer |
| `console_duel` | 2 tabs as makers, 1 deal of the desk | the fourth finding |

Why the bounds are enough. Two matches of the same taker and maker are the least
that can share an armed balance, a free bond, a tag counter and a payment;
everything the contracts do is per match or per one of those. Two payments are
the least with which one can be used twice and one not at all. The clock passes
the payment window, the end of the settlement window and the grace, and one tick
more. Two makers who each quote twice give a tie, a better and a late quote, and
one that no longer fits. One RFQ suffices in the enclave because nothing in
the book relates two of them but the intake counter, which only orders quotes
within one. The desk runs use one id, since interference between ids on chain is
the escrow runs' subject. Two requests are the least that can interleave in the
server, and two ids and a run lock shorter than an instruction's validity the
least with which one run takes what another was promised. In `desk_server` the
price moves, the time of a refund comes, and a payment nobody was asked for is made, only
while one request is alone (`MovedInFirstRun`): a prepare record is written once and its match is locked by
its visitor, so who else is about does not matter to what it has to cover; and a
refund, due or not, frees the run lock the way a release does, which meets every
other step; a payment under no match's tag changes nothing but that the request is busy.
`maker_records` needs one request of the server's: a record is
written once, from one event, and read by id; that the enclave decides meanwhile for
somebody else is `othersMatch`, which needs no request here. Two requests for gas are the least
that can both see the reserve before either is paid; and three addresses the least that ask
for more than a day's budget of two, since each waits out the gap of two ticks between
its claims, the least gap within which a second claim can come at a later tick.

In `console` the second deal is the match or the RFQ that replaces the first on the
same screen (prepared again after a 404, opened anew after the window); it
begins only where the first belongs to that screen and before the account was
lost (`SecondDeal`). A trade is opened again once nothing the last one asked for is
awaited, so at most one generation of handlers is about; what a screen's late
handlers do after it is gone, and beside one that has replaced it (the taker's by
the maker's), is in the run. One deposit and one bond at a time (`MAX_ARMED`) are what a deal
needs; a second would only be left over. One quote per maker (`MAX_NONCE`)
suffices, because a second one follows a `NO_MATCH`, when the window is over, and is
refused. `console_duel` starts with the desk's request open and both makers just
seated, as after a visitor has opened it and left.

The named bounds are `MaxTime`, `MaxSeq`, `Amounts`, `BondAmounts`, `ArmTimes`,
`Mids`, `TxIds`, `PaymentForms`, `Instructions`, `RfqMessages`, `QuoteMessages`,
`ChainStates`, `Requests`, `Prices`, `PayBodies`, `Calls`, `MaxRequests`, `MaxSettled`, `Askers`, `MAX_NONCE`, `MAX_SENDS`,
`MAX_ARMED`, `MAX_LOSSES`, and the two constraints above. Symmetry is used where
the permuted values are alike in every definition: the payments of
`escrow_accounting`, requests, ids and payments of the server, the two keys of
`desk_trades`, calls and callers of `quotas`, deals and tabs of the screens; never in
the run with the liveness property.

Fairness, in `escrow_checks` only: weak fairness of `Tick` (time passes) and of
`refund(id)` for each match. `refund` is permissionless, pays the taker, and its
guard stays true once true until the match is settled; so the assumption is that
somebody, at the latest the taker, eventually calls it. Nothing is assumed of the
owner, the maker, the FDC or the enclave.

### Findings

* `enclave_double_match`: two requests for one RFQ both pass the cached-outcome
  check (`match.go:224`) before either stores its result (`match.go:252`); they
  sign and return different instructions, where `PROTOCOL.md` calls `RFQ_MATCH`
  idempotent. `lock` accepts only one of them, whichever comes first.
* `enclave_requote`: `NO_MATCH` is stored like a match, so a maker who quotes
  again is answered `NO_MATCH` as long as the RFQ lives, where the web route
  keeps the run alive precisely for a re-quote.
* `desk_tag`: the tag of a wallet payment is predicted when the instruction is
  prepared, on the ground that the run lock keeps other `lock()` calls out. The
  run lock counts as abandoned after 10 minutes, and any release or refund frees
  it, while the instruction is valid for 30: a one-click run can take the tag.
  The visitor's match is then locked under the next tag and the prepared payment
  carries the other one; the visitor is refunded, and the desk's bond slashed.
* `console_duel`: `/api/maker/match` matches, locks and answers whoever asks, and its
  answer names no maker. Of two makers who have quoted one RFQ, the one who did
  not win but asks first is shown the winner's payment step; the XRP they send
  releases FXRP to the other. The winner, who asks later, gets an error.

Observed on the way, without a run:

* `releaseRunLock` does not ask who holds the lock, so a run that outlived it
  frees its successor's lock and a third run can start beside the second
  (`state.ts:46`, against the comment at `state.ts:26-29`); a failed match of a
  visitor's RFQ frees a lock it never took (`maker/match/route.ts:56`).
* `WD_PRICE_STALE_MAX_SEC` does not reach the comparison in `matchCore`, which uses
  a constant of 60 s (`match.go:68`); a stricter setting has no effect.
* When the server has lost a match record it answers "run /api/maker/match again"
  (`maker.ts:735`), but the enclave then returns the outcome it has stored and
  `lock` reverts on the used match id: the payment can only be made by hand, and
  is not detected.
* The scan for a maker's payment compares `tx.Amount`, what the payment was sent with
  (`maker.ts:796`), and never `meta.delivered_amount`, where `maker.ts:761-762` says it
  looks for a payment of "the match's exact drops+tag". One that was converted on the way
  and delivered in part is recorded as the match's payment; `release` goes by what was
  received and reverts, and since a record with a payment is not scanned for again
  (`maker.ts:771`), a second payment in full is not found. `DetectedPaymentCovers` is
  about the rest: address, tag and amount sent. That the answer of the ledger names that
  field `Amount` is assumed; in an answer of API version 2, which the scan also reads
  (`tx_json`, `maker.ts:790`), the field of a payment may have another name, and then the scan finds
  nothing, which is `failPaying`.
* One maker account serves the process (`maker.ts:233-240`), on the ground that one
  run is in flight at a time; a visitor's RFQ is matched without the run lock.
* A payment whose answer is lost is sent again by "Retry XRPL payment": the server
  records no payment (`wallet/pay/route.ts:38`), so the promise of
  `WalletMode.tsx:272-273` ("retrying never re-sends a step that already succeeded")
  holds for what the screen has heard (`HeardIsNotSentAgain`), and no further. The
  same in `runAutoPay`, whose retry pays from a new account; and a failed step of
  publishing an order deposits again.
* A lock whose answer from `/maker/match` is lost is out of the screen's reach: asking
  again reverts on the used match id, and the match is refunded. A
  release whose answer is lost is retried for ever and reverts each time.
* A status or gas answer "asleep" (503) hides a screen whose settlement runs on,
  and nothing brings it back but leaving it. After a 503 in the automatic
  payment and a status read later, the payment step has no button (the exception
  in `NothingStalls`).
* "Quote it" can take away a wallet screen whose match is locked and not yet paid:
  neither "done" of step 2 nor "idle" of step 3 counts as busy, against the comment
  at `DemoConsole.tsx:773`; nor does publishing an order. After "disconnect" during
  a maker's step the last report of being busy stays, and "Quote it" beside the
  next order does nothing.
* `paymentExpired` goes by the clock, also when the payment was made in time and its
  answer lost; the maker then sees "expired" for a match that could be released.
* "Open a new RFQ" can be pressed while another flow of the same step runs, and the
  later answer replaces `rfqData`.
* A 404 on a payment makes the screen forget the match, which may be locked.
* The reserve is read, then the claim recorded, then the drip sent: requests in
  flight together take it below `GAS_OWNER_RESERVE_WEI` by one drip each
  (`gas/route.ts:65`). A claim whose transfer fails still counts.

## 4. Proofs

`DvPEscrowProofs`, from `LedgerAssumption` and `EscrowAssumption` (finite sets of
parties, ids and transactions; the constructor's own parameter checks). It begins with
the sums over finite sets of naturals on which the accounting rests (`Total` when an
element is added, removed or changed). The
invariants prove each other and are one inductive invariant `Inv`: types need
`committed <= armed` (no subtraction underflows), that needs the committed
counter to be the sum over open matches (`CommittedIsOpen`), solvency needs the
bond of a match to be the one the ledger holds (`BondBacksMatch`), and that a
payment fits only one match needs unique tags (`TagsFresh`). There is one lemma
per action, and under it one step per conjunct the action disturbs. The lemmas do not
use which inputs a run enumerates: `Inv` is kept by every step with inputs of the
right types (`AnyNext`), which the specifications that send transactions of their own
rely on. From `Inv`:
`TypeCorrect`, `CommitmentsExact`, `EscrowIsSolvent`, `LedgerIsSolvent`, `ContractsAgree`,
`TagsNeverReused`, `DeliveryVersusPayment`, `NeverBlocked`, and the action
property `HonestMakerSafe`, which is arithmetic on the two deadlines.

Its last part is about the terms of a match: they are written by its `lock` and by
nothing after it (`SameTerms`), on which the proofs about the server rest; and
`DropsStayInBand`. The drops are an integer quotient of a product of
the amount and the price; the proof bounds the quotient from both sides, multiplies
the band on the price by the amount and cancels the oracle's mid. One lemma does
this for one `lock`, and no other action writes drops or amounts.

`SettlementProofs`: `EscrowImplementsSettlement`, the contracts implement `Settlement`
under the mapping `Promise`. Under `Inv` every action is mapped to one step or to
none: deposits, withdrawals, bonds, keys and the pause leave every claim, deal and
payment of a deal as they are (what leaves the tokens enters the available balance
or the free bond); `lock` opens a deal that nothing funds yet, which is where
`TagsFresh` is needed (no payment made before carries the new tag); `release` is a
delivery, `refundExpired` a return; an XRPL payment funds at most one deal. As with `Inv`,
no lemma uses which inputs a run enumerates: every step of `AnyNext` is mapped
(`PromiseStep`, from `PromiseInv`, which is `Inv` and how far apart the deadlines of a match
are). So the specifications that put something in front of the contracts keep the
promise as soon as their steps are, on chain, steps of `AnyNext`; and a maker who paid in time
is not slashed early in any of them (`DeskMakerHasTime`, `MakerDeskHasTime`,
`ServerMakerHasTime`).

`QuotasProofs`, from `QuotasAssumption`. `ReserveOvershootBounded` is not inductive: a
drip is sent by a request that compared the balance two steps earlier. The invariant
`ReserveInv` counts the requests that have compared and not yet sent (`Promised`):
what the owner holds and the desk has spent covers the reserve and a drip for each
of them, less one drip for every call but one. `ClaimsAreSpaced` needs that the last
claim recorded is the latest (`LastIsLatest`); `DayBudgetKept` that the counter of the
day is the number of its recorded drips (`DayInv`).

The rolling quotas rest on `LimitInv`: a list holds every granted hit that still counts
(`Kept`), may hold some that no longer do, since the list that does not refuse is not pruned, and
never more than its limit. So when a hit is let through, the hits of any window it
falls in were all on the list that had room (`WindowGrows`), and `QuotasRoll` holds for the
windows to come as well. `RetryAfterIsHonest`: a list that refuses is exactly full and
its wait is that of its oldest hit; up to then all count, and from then on that one does not.
That a set of times has a smallest one is proved from cardinalities (`LeastElement`: the numbers
below all of them would be finitely many and closed under adding one). The limits are
assumed positive, as all in `LIMITS` are: with a limit of zero a list refuses
while empty, and no wait helps.

`DeskServerProofs`, from the assumptions above and `DeskServerAssumption` (the desk's
wallets are parties of their own, the buffer is no narrower than the band). Every step
of the server is, on chain, a step of `AnyNext`, a transfer between two parties, or
nothing, so `Inv` holds under it; `DeskTypes` adds the server's types and that a run has
its id from the signature on. `LockNotOrphaned` is then inductive: no step takes a
request out of its run and keeps a lock without a match. The three about terms rest on
`TermsStay` (only `lock` writes them, and once). `AnswersMatchChain` needs that a
one-click run between its lock and its answer has its match on chain
(`LockedBeforeAnswer`). `PayCoversMatch` needs `RecordInv`: an id is signed for once, so
a run about to lock has no record under its id, and whoever was answered an id with a
record is the visitor it was written for; that the record's drops suffice is
arithmetic on the quotient `lock` takes inside the band and on the one the server takes
of its buffer (`LockCovered`), whatever the mid has become.

The server does not refine `Settlement` as it stands: the owner's key tops up the
desk's taker and maker wallets, which changes two claims with no deal. `ServerKeepsSettlement`
says that this is all: with `Gift` (the owner gives one of the two part of its claim) beside
the steps of `Settlement`, every step of every route is one of them or none.

`MakerDeskProofs`, from those of `DvPEscrow` and `MakerDeskAssumption`: a block is worth
a drop at any price in the band, and hand payments are on the ledger the scan reads. Neither
property is inductive: a record is written a request's step after the lock, and a
payment is recorded a step after it was sent, when anything may have happened in
between. `DeskInv` adds what the enclave holds for an RFQ (`Sound`) and that an outcome found is as
sound before it is stored (`SoundMatch`), what every handler
relies on from its steps before, by its `pc` (`Fits`), that a locked match asks for
something one can pay in time (`Payable`), and that of a record everything is true
(`Truthful`), its payment included: sent to the address, under the tag and with the amount
that `release` will ask for, so that it is accepted if delivered in full and in time. Every step but a restart takes at most
one request on and writes at most one record (`StepMoves`), and takes back neither a
match, nor a payment, nor that a record is there (`Onward`); so what other requests rely
on stays (`FitsStays`). A restart leaves no request and no record.
`MakerDeskImplementsSettlement`: on chain the routes only make transactions of `AnyNext`.

`EnclaveProofs`, from the assumptions of `Matcher`, `SealedBook`, `ChainCache` and
`Enclave` (types of what is on the wire and on the chain). `SignedWithinTerms` is
not inductive: what is signed was decided steps earlier, from quotes and an RFQ
read earlier still, and the book may have changed in between. `Inv` adds that
every RFQ and every resting quote in the book is backed by a message
(`BookInv`), that every outcome a request carries is within terms (`TaskInv`),
and that no quote has a later sequence number than the counter. From it:
`TypeCorrect`, `OnlyAgreedTradesSigned`, `QuotesNeverRegress`,
`PrefilterIsConservative`, for any number of requests in flight, RFQs, makers and
restarts.

`PriceTimePriority` says what the matcher's loop computes: for any number of resting
quotes and every order of them it ends at the one quote that `IsWinner` names, the form
the actions use. The loop is a recursive function; that it has a value, and that after
each turn the winner beats all it has met (`ScanTurns`, `ScanWins`), are inductions over
the turns. The library's induction theorems are out of reach, so the induction is by
counting: the turns that fail, up to one of them, would be as many as their predecessors, which
are fewer (`UpTo`). Ties are decided because no two quotes of an RFQ have the same
sequence number (`QuotesInTurn`, inductive beside `Inv`: `nextSeq` never goes back while
a quote rests).

`RequestsInTurnAgree` is about what two requests at once can break
(`enclave_double_match`): under `OneAtATime`, that no two requests are between their
intake and their answer together, `AnswersAgree` holds. `AgreeInv` adds to `Inv` that what was
answered for an RFQ is the outcome the book has stored for it, and that a request
which has not stored its outcome finds none stored. What is compared is what was
answered since the RFQ was taken in: one that `GC` has forgotten and its taker sends
again starts anew.

`WhisperDeskProofs` composes the two, from their assumptions and `DeskAssumption`. The
enclave's invariant was proved beside a chain that may show anything: every step of the
contracts is to the enclave a tick or a chain that moves (`ContractsMove`), and every
step of the enclave leaves the contracts alone, so both invariants hold side by side
(`HalvesStep`). Between them is one fact: `lock` is given what is in `signed`, which
`OnlyAgreedTradesSigned` is about, and from which nothing is ever taken back
(`SignaturesStay`). `TradesAreAgreed` follows, as only `lock` writes the terms of a match. `PrefilterSuffices`
needs of the enclave that the least block was checked at intake (`RfqBacked`) and that
`available` never says more than the escrow has, and of the contracts their types. It
assumes a least block above zero: the constructor takes any, and with zero an RFQ of
nothing is matched for a taker who has armed nothing. `DeskImplementsSettlement`: whatever is
signed, and however often it is presented, the contracts keep their promise.

`ConsoleProofs` is about the screens, for any number of tabs, deals and bounds; of the
constants it assumes the bounds to be numbers, and `None` and the desk to be no tab and no deal. None of the properties is inductive: a screen's state is
split between what it shows and what its handlers still await, and most of what
happens to it was asked for several steps before. `IInv` says, of every tab (`TabOK`):

* what a mounted screen awaits for a trade, a payment or a settlement is a function of
  what it shows (`TradeAwaits`, `PayAwaits`, `SettleAwaits`), down to the deal, the round
  and the proof it was asked with; in the flows that may be started anew beside
  themselves (publishing, bond, quote) a stage under way awaits something
  (`PublishInv`, `BondInv`, `QuoteInv`). A screen that is gone has kept nothing
  (`TakerGone`, `MakerGone`), whatever its handlers still await;
* what was kept for a retry is of the match shown, and kept exactly in the stages that
  have it behind them (`TradeSaved`, `SettleInv`);
* what the screen says of the chain is so (`TakerTrue`, `MakerTrue`): the match is released,
  or it is too late to pay for it. No step of any tab takes either back (`WorldStep`), so a
  step of one tab keeps what another was told.

Every press and every answer moves one flow of one screen and leaves the
others (`SameTrade`, `PaySame`, `SettleSame`), which is proved once for each flow; a
step of the screen is then a few lines. From `IInv`: `ScreensTypes`, `ScreensGoOn`
(`NothingStalls`: whatever a screen shows without a button is a call it
awaits), `RetriesAreOfTheMatch`, `HeardOnce`, `SettledIsReleased`, and the action property
`TradesAreWaitedFor` ("Quote it" is offered beside a screen that awaits nothing).

The proof of `ScreensGoOn` failed for a reason the run's bounds hide. A maker's
payment answered "asleep" leaves the payment step without a button. Once it was thought that this takes
the wallet's account being lost; but a bond of an earlier request that is answered late
wakes the screen as well, with no loss. `NothingStalls` now excepts exactly the payment
that was slept through (`slept`, which nothing in the code reads).

Only model-checked: what needs fairness (`EveryMatchSettles`), and the properties the
runs expect to be violated.

## 5. Not modelled, and simplifications

* `syncFromRegistry` has an empty body. Events and view functions carry no state.
* `refresh` reads a value and stores it in one step, though the RPC between may
  take seconds: for the enclave's own properties the chain may show anything at
  any time, so an old read is as good as a late one but for the age of the mid,
  which the code counts from the end of the fetch as the model does.
* ABI encoding, keccak and ECDSA are a record and a key. The byte layout is what
  the repository's own test vectors check.
* One enclave. `submitRfq` and `triggerMatch` each pick a random machine; with
  several a match may reach one that never saw the RFQ.
* In the server: ERC-20 allowances and pings. A block's FXRP is the one size the
  server trades. In the maker mode refunds and a moving mid, which no route there
  reads (`desk_server` has both).
* The quotas are not restarted: all they are about is lost with the process, and the
  limits start anew, as the code says.
* The screens: the body of the one-click mode, which no state of `DemoConsole` shows
  at this commit, and `handleFaucet`, which `Holdings` never calls; the landing page and its
  animations, which keep nothing; amounts, prices and balances, and so the
  validation of what is typed; a tab with more than one account; the maker's own
  quoting of their own order under another account.
* The scripts under `scripts/` run the steps of one trade in order, awaiting each, and
  exit at the first failure; they keep no state of their own, and what they call
  is in the models above.
* Deployment, the unused schema, mocks and vendored code.

## 6. Plan

Done: the contracts (with `Settlement`), the enclave, their composition, the
three modes of the server, its quotas, the screens, the proofs above. Next, in this
order:

1. Several enclaves behind `WhisperDeskInstructionSender`. Property: what a match
   on the wrong machine can and cannot answer.
2. The screens over `MakerDesk` and `DeskServer` themselves in place of `DeskApi`.
