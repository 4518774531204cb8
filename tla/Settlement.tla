----------------------------- MODULE Settlement -----------------------------
(***************************************************************************)
(* What DvPEscrow and BondLedger together promise the two sides of a trade,*)
(* with no mention of armed balances, counters, tags or proofs.            *)
(*                                                                         *)
(* claims[p] is the FXRP party p can call its own, wherever it is kept.    *)
(* Opening a deal takes the amount from the taker's claim and the bond     *)
(* from the maker's.  The deal ends once, in one of two ways: delivered    *)
(* against an XRPL payment that no other delivery has used, and then the   *)
(* maker's claim grows by amount and bond; or returned, more than Margin   *)
(* after the last moment to pay, and then the taker's does.  No other step *)
(* changes anybody's claim.                                                *)
(***************************************************************************)
EXTENDS Naturals

CONSTANTS Parties, MatchIds, TxIds,
          Margin    \* time between the last moment to pay and a return

VARIABLES
  clock,
  claims,   \* FXRP each party can call its own
  deals,    \* terms and phase of each deal
  funded,   \* the XRPL payments that satisfy the terms of each deal
  spent     \* the XRPL payments that have been delivered against

settlementVars == <<clock, claims, deals, funded, spent>>

Deal == [phase : {"none", "open", "delivered", "returned"},
         taker : Parties, maker : Parties, amount : Nat, bond : Nat, payBy : Nat]

Funding(tx) == {id \in MatchIds : tx \in funded[id]}

SInit ==
  /\ clock = 0
  /\ claims \in [Parties -> Nat]
  /\ \A id \in MatchIds : deals[id].phase = "none" /\ funded[id] = {}
  /\ spent = {}

\* Deal id takes its terms; everything else about the deals stays.
OnlyDeal(id) == \A j \in MatchIds \ {id} : deals'[j] = deals[j] /\ funded'[j] = funded[j]

Open(id) ==
  LET d == deals'[id] IN
  /\ deals[id].phase = "none"
  /\ d \in Deal
  /\ d.phase = "open"
  /\ d.taker # d.maker
  /\ d.amount <= claims[d.taker] /\ d.bond <= claims[d.maker]
  /\ claims' = [claims EXCEPT ![d.taker] = @ - d.amount, ![d.maker] = @ - d.bond]
  /\ \A tx \in funded'[id] : Funding(tx) = {} /\ tx \notin spent
  /\ OnlyDeal(id)
  /\ UNCHANGED <<clock, spent>>

\* A payment that satisfies the terms of deal id, and of no other deal.
Pay(id, tx) ==
  /\ deals[id].phase # "none"
  /\ Funding(tx) = {}
  /\ tx \notin spent
  /\ funded' = [funded EXCEPT ![id] = @ \cup {tx}]
  /\ UNCHANGED <<clock, claims, deals, spent>>

Deliver(id, tx) ==
  /\ deals[id].phase = "open"
  /\ tx \in funded[id] \ spent
  /\ spent' = spent \cup {tx}
  /\ deals' = [deals EXCEPT ![id].phase = "delivered"]
  /\ claims' = [claims EXCEPT ![deals[id].maker] = @ + deals[id].amount + deals[id].bond]
  /\ UNCHANGED <<clock, funded>>

Return(id) ==
  /\ deals[id].phase = "open"
  /\ clock > deals[id].payBy + Margin
  /\ deals' = [deals EXCEPT ![id].phase = "returned"]
  /\ claims' = [claims EXCEPT ![deals[id].taker] = @ + deals[id].amount + deals[id].bond]
  /\ UNCHANGED <<clock, funded, spent>>

Elapse ==
  /\ clock' > clock
  /\ UNCHANGED <<claims, deals, funded, spent>>

SNext ==
  \/ Elapse
  \/ \E id \in MatchIds :
       \/ Open(id)
       \/ Return(id)
       \/ \E tx \in TxIds : Pay(id, tx) \/ Deliver(id, tx)

SSpec == SInit /\ [][SNext]_settlementVars
=============================================================================
