----------------------------- MODULE MCEnclave ------------------------------
(***************************************************************************)
(* Small instances of Enclave.  Basis points are scaled to BIPS = 4 as in  *)
(* MCDvPEscrow: with a mid of 4 the band is 3..5, and an RFQ of 4 needs a  *)
(* bond of 1.                                                              *)
(***************************************************************************)
EXTENDS Enclave, TLC

CONSTANTS alice, bob, carol, r1, rAlice

MCParties == {alice, bob, carol}

\* alice sells 4 at 4 or more.
Sealed(submitter, sender, xrplAddress) ==
  [id |-> r1, submitter |-> submitter, sender |-> sender, taker |-> alice, amount |-> 4,
   limit |-> 4, xrplAddress |-> xrplAddress]

\* Her own submission, her ciphertext in bob's envelope, and one without address.
AliceRfq ==
  {Sealed(alice, alice, rAlice), Sealed(bob, bob, rAlice),
   Sealed(alice, alice, EmptyXrplAddress)}

\* Over /direct anybody can write alice into the envelope.
DirectRfqs ==
  {Sealed(bob, alice, rAlice), Sealed(bob, bob, rAlice), Sealed(alice, alice, EmptyXrplAddress)}

Quoted(signer, maker, price, maxFxrp, nonce) ==
  [id |-> r1, signer |-> signer, maker |-> maker, price |-> price, maxFxrp |-> maxFxrp,
   nonce |-> nonce]

\* Two good quotes at one price, the same makers repricing below her limit and for
\* less than her size, and a quote that its maker has not signed.
BookQuotes ==
  {Quoted(bob, bob, 4, 4, 1), Quoted(bob, bob, 3, 4, 2),
   Quoted(carol, carol, 4, 4, 1), Quoted(carol, carol, 5, 3, 2), Quoted(bob, carol, 5, 4, 1)}

OneQuote == {Quoted(bob, bob, 4, 4, 1)}

TwoQuotes == {Quoted(bob, bob, 4, 4, 1), Quoted(carol, carol, 5, 4, 1)}

Chain(mid, armed, committed, armedUntil, bond) ==
  [mid |-> mid,
   bond |-> [p \in MCParties |-> IF p = alice THEN 0 ELSE bond],
   balances |-> [p \in MCParties |->
     IF p = alice THEN [armed |-> armed, committed |-> committed, armedUntil |-> armedUntil]
     ELSE [armed |-> 0, committed |-> 0, armedUntil |-> 0]]]

FundedChain == {Chain(4, 4, 0, 9, 1)}

\* Alice has more armed than 64 bits (here 7) hold, and part of it committed; the
\* bonds are past that limit too.  Bob could sell as well.
ClampedChain ==
  {[Chain(4, 9, 3, 9, 9) EXCEPT !.balances[bob].armed = 4, !.balances[bob].armedUntil = 9]}
=============================================================================
