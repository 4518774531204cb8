------------------------------ MODULE MCConsole ------------------------------
(***************************************************************************)
(* One tab with two deals, and two makers with a quote each for one.       *)
(***************************************************************************)
EXTENDS Console

Tools == INSTANCE TLC

DealSymmetry == Tools!Permutations(Deals)

\* Bound: a second deal begins only where all deals are of the screen that is open, and
\* while the account has never been lost.
used == {d \in Deals : deal[d].phase # "unused"}

SecondDeal ==
  Cardinality(used) <= 1 \/ \A t \in Tabs :
    /\ M(t).mounted => \A d \in used : deal[d].taker = Desk
    /\ T(t).mounted => \A d \in used : deal[d].taker = t
    /\ desk[t].losses = 0

\* A request of the desk is open, and every tab has just opened it to quote.
SeatedMaker == [mounted |-> TRUE, enabled |-> TRUE, funded |-> TRUE] @@ NewMaker

DuelSpec ==
  /\ deal = [d \in Deals |-> [phase |-> "sealed", taker |-> Desk, quoting |-> TRUE, recorded |-> TRUE]
                             @@ UnusedDeal]
  /\ armed = [t \in Tabs |-> 0] /\ bond = [t \in Tabs |-> 0] /\ calls = [t \in Tabs |-> {}]
  /\ account = [t \in Tabs |-> TRUE]
  /\ taker = [t \in Tabs |-> Absent @@ NewTaker]
  /\ maker = [t \in Tabs |-> SeatedMaker]
  /\ desk = [t \in Tabs |-> [mode |-> "maker", lastWalletBusy |-> FALSE, lastMakerBusy |-> FALSE,
                             losses |-> 0]]
  /\ [][Next]_vars

DuelSymmetry == Tools!Permutations(Tabs)
=============================================================================
