---------------------------- MODULE MCDvPEscrow -----------------------------
(***************************************************************************)
(* Small instances of DvPEscrow.  Basis points are scaled to BIPS = 4, so  *)
(* the band is 25% and the bond a quarter: amounts of 4 and 5 units then   *)
(* have the rounding and band cases the contract has with 10_000.          *)
(***************************************************************************)
EXTENDS DvPEscrow, TLC

CONSTANTS alice, bob, id1, id2, otherEscrow, otherSource, rAlice, rBob

MI(id, e, t, m, a, p, x, exp) ==
  [matchId |-> id, escrow |-> e, taker |-> t, maker |-> m, amountFxrp |-> a,
   priceUsd18 |-> p, takerXrplAddress |-> x, instructionExpiresAt |-> exp]

Pay(source, status, dest, tagged, tag, amount) ==
  [source |-> source, status |-> status, receivingAddress |-> dest,
   hasDestinationTag |-> tagged, destinationTag |-> tag, receivedAmount |-> amount,
   intendedReceivedAmount |-> 5]

MCParties == {alice, bob}

TxSymmetry == Permutations(TxIds)

(***************************************************************************)
(* Accounting: two matches of one taker against one maker, who can afford  *)
(* both bonds, a second instruction for the first match id, and a payment  *)
(* for either tag.                                                         *)
(***************************************************************************)
AccountingFxrp == alice :> 8 @@ bob :> 2

AccountingInstructions ==
  {MI(id1, EscrowAddr, alice, bob, 4, 4, rAlice, 0),
   MI(id1, EscrowAddr, alice, bob, 5, 4, rAlice, 0),
   MI(id2, EscrowAddr, alice, bob, 4, 5, rAlice, 0)}

AccountingPayments ==
  {Pay(EXPECTED_SOURCE_ID, 0, rAlice, TRUE, 1, 5),
   Pay(EXPECTED_SOURCE_ID, 0, rAlice, TRUE, 2, 5)}

(***************************************************************************)
(* Checks: one match, every way an instruction or a payment can be wrong,  *)
(* a moving oracle, and skewed clocks.                                     *)
(***************************************************************************)
ChecksFxrp == alice :> 4 @@ bob :> 1

ChecksInstructions ==
  {MI(id1, EscrowAddr, alice, bob, 4, p, rAlice, 0) : p \in {3, 4, 6}} \cup
  {MI(id1, EscrowAddr, alice, bob, 4, 5, rAlice, 1),
   MI(id1, otherEscrow, alice, bob, 4, 4, rAlice, 0),
   MI(id1, EscrowAddr, alice, alice, 4, 4, rAlice, 0),
   MI(id1, EscrowAddr, alice, bob, 3, 4, rAlice, 0),
   MI(id1, EscrowAddr, alice, bob, 4, 4, EmptyXrplAddress, 0)}

ChecksPayments ==
  {Pay(EXPECTED_SOURCE_ID, 0, rAlice, TRUE, 1, a) : a \in {3, 5}} \cup
  {Pay(EXPECTED_SOURCE_ID, 0, rAlice, TRUE, 2, 5),
   Pay(EXPECTED_SOURCE_ID, 0, rAlice, FALSE, 0, 5),
   Pay(EXPECTED_SOURCE_ID, 0, rBob, TRUE, 1, 5),
   Pay(EXPECTED_SOURCE_ID, 2, EmptyXrplAddress, TRUE, 1, 5),
   Pay(otherSource, 0, rAlice, TRUE, 1, 5)}
=============================================================================
