---------------------------- MODULE MCDeskServer -----------------------------
(***************************************************************************)
(* Small instances of DeskServer.  A block needs 4 units of FXRP and a bond *)
(* of 1; the payment buffer is twice the band, as 102 of 100 is to 1%.     *)
(***************************************************************************)
EXTENDS DeskServer, TLC

CONSTANTS deskOwner, deskTaker, deskMaker, visitor, rDesk, rVisitor

MCParties == {deskOwner, deskTaker, deskMaker, visitor}

MCVisitorXrpl == visitor :> rVisitor

\* The wallets of the desk hold what two runs need but for one bond, which the reserve
\* has; or all of it.
TightFxrp == deskOwner :> 1 @@ deskTaker :> 8 @@ deskMaker :> 1 @@ visitor :> 4
ToppedUpFxrp == deskOwner :> 0 @@ deskTaker :> 8 @@ deskMaker :> 2 @@ visitor :> 4

\* Somebody posts a tag and an amount of no match of the desk, or more than the ceiling.
MCPayBodies == {[tag |-> 3, drops |-> 1], [tag |-> 1, drops |-> MAX_XRP_DROPS + 1]}

\* Bound: the price moves, or the time when refund is due comes, or a payment nobody was
\* asked for is made, during the first run, with no other request in flight; and of the
\* first two not both.
FirstRunAlone ==
  /\ Cardinality(UsedIds \ {NoId}) <= 1
  /\ Cardinality({r \in Requests : requests[r] # Idle}) <= 1

OddPayment ==
  \/ \E r \in Requests : requests[r].pc = "pay" /\ requests[r].tag = 3
  \/ \E tx \in TxIds : payments[tx].made /\ payments[tx].form.destinationTag = 3

MovedInFirstRun ==
  /\ oracle.mid # InitialMid \/ now > 1 \/ OddPayment => FirstRunAlone
  /\ oracle.mid = InitialMid \/ now <= 1

DeskSymmetry == Permutations(Requests) \cup Permutations(TxIds) \cup Permutations(MatchIds)
=============================================================================
