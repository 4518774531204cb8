----------------------------- MODULE MCMakerDesk -----------------------------
(***************************************************************************)
(* A small maker desk: one block for the desk and one for the visitor, and *)
(* one bond.                                                               *)
(***************************************************************************)
EXTENDS MakerDesk, TLC

CONSTANTS deskTaker, visitor, m1, rDesk, rVisitor

MCParties == {deskTaker, visitor, m1}

MCXrplOf == deskTaker :> rDesk @@ visitor :> rVisitor

MCFxrp == deskTaker :> 4 @@ visitor :> 4 @@ m1 :> 1

\* What makers send by hand under the first tag: too little, just enough, or as much
\* with too little of it delivered.
MCPaymentForms ==
  {[source |-> EXPECTED_SOURCE_ID, status |-> 0, receivingAddress |-> rVisitor,
    hasDestinationTag |-> TRUE, destinationTag |-> 1, receivedAmount |-> got,
    intendedReceivedAmount |-> sent] : <<got, sent>> \in {<<2, 2>>, <<3, 3>>, <<2, 3>>}}

MakerSymmetry == Permutations(Requests) \cup Permutations(TxIds) \cup Permutations(MatchIds)
=============================================================================
