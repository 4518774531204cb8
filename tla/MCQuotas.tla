------------------------------ MODULE MCQuotas -------------------------------
(***************************************************************************)
(* A small instance of Quotas.  The one kind of the run is the maker       *)
(* faucet's: the code keeps the lists of the kinds apart and relates none. *)
(***************************************************************************)
EXTENDS Quotas, TLC

MCPerIp == [k \in Kinds |-> 1]
MCGlobal == [k \in Kinds |-> 2]

CONSTANTS a1, a2, a3

MCAskers == [s \in Scopes |-> IF s = "gas" THEN {a1, a2, a3} ELSE {a1}]

QuotaSymmetry == Permutations(Calls) \cup Permutations(Ips)
=============================================================================
