--------------------------- MODULE MCWhisperDesk ----------------------------
(***************************************************************************)
(* A small desk: a taker with 4 to sell, a maker with a bond of 1, and one *)
(* RFQ id.                                                                 *)
(***************************************************************************)
EXTENDS WhisperDesk, TLC

CONSTANTS alice, bob, id1, rAlice

MCParties == {alice, bob}

DeskFxrp == alice :> 4 @@ bob :> 1

\* alice's own submission, and her ciphertext in bob's envelope.
Sealed(submitter) ==
  [id |-> id1, submitter |-> submitter, sender |-> submitter, taker |-> alice,
   amount |-> 4, limit |-> 4, xrplAddress |-> rAlice]

DeskRfqs == {Sealed(alice), Sealed(bob)}

Quoted(price, nonce) ==
  [id |-> id1, signer |-> bob, maker |-> bob, price |-> price, maxFxrp |-> 4, nonce |-> nonce]

\* One at the upper edge of the band of a mid of 4 and above that of a mid of 3, and
\* one in both bands but below the taker's limit.
DeskQuotes == {Quoted(5, 1), Quoted(3, 2)}

KeySymmetry == Permutations(Keys)
=============================================================================
