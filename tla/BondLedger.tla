----------------------------- MODULE BondLedger -----------------------------
(***************************************************************************)
(* contracts/src/BondLedger.sol: the contract that holds the makers' FXRP  *)
(* bonds, and the FXRP token it and the escrow move.  A maker's bond is    *)
(* free or locked behind one match; only the bound escrow locks, releases  *)
(* or slashes.  Every external function of the two contracts that moves    *)
(* tokens is nonReentrant or escrow-only, so each is one atomic action; a  *)
(* revert is a step that does not happen.                                  *)
(***************************************************************************)
EXTENDS Totals

CONSTANTS
  Parties,     \* addresses that trade: any of them may take or make
  EscrowAddr,  \* address of the DvPEscrow instance
  LedgerAddr,  \* address of this contract
  Nobody,      \* address(0)
  MatchIds,    \* bytes32 match ids in play
  MAX_U128     \* type(uint128).max

ASSUME LedgerAssumption ==
  /\ IsFiniteSet(Parties)
  /\ IsFiniteSet(MatchIds)
  /\ EscrowAddr \notin Parties
  /\ LedgerAddr \notin Parties
  /\ Nobody \notin Parties
  /\ EscrowAddr # LedgerAddr
  /\ EscrowAddr # Nobody
  /\ MAX_U128 \in Nat

VARIABLES
  fxrp,         \* the token: balance of every account (external contract)
  escrow,       \* the escrow allowed to call lockBond/releaseBond/slashBond
  freeBond,     \* mapping(maker => uint256)
  lockedBonds   \* mapping(matchId => LockedBond)

ledgerVars == <<escrow, freeBond, lockedBonds>>

Accounts == Parties \cup {EscrowAddr, LedgerAddr}

LockedBond == [maker : Parties \cup {Nobody}, amount : Nat, active : BOOLEAN]

NoBond == [maker |-> Nobody, amount |-> 0, active |-> FALSE]

LedgerTypeOK ==
  /\ fxrp \in [Accounts -> Nat]
  /\ escrow \in {Nobody, EscrowAddr}
  /\ freeBond \in [Parties -> Nat]
  /\ lockedBonds \in [MatchIds -> LockedBond]

LedgerInit ==
  /\ escrow = Nobody
  /\ freeBond = [p \in Parties |-> 0]
  /\ lockedBonds = [id \in MatchIds |-> NoBond]

(***************************************************************************)
(* The token.  transfer and transferFrom revert when the payer's balance   *)
(* is short; the makers and takers have approved both contracts.           *)
(***************************************************************************)
CanPay(from, amount) == fxrp[from] >= amount

Moved(tokens, from, to, amount) ==
  [tokens EXCEPT ![from] = @ - amount, ![to] = @ + amount]

(***************************************************************************)
(* Maker side.                                                             *)
(***************************************************************************)
depositBond(m, amount) ==
  /\ CanPay(m, amount)
  /\ freeBond' = [freeBond EXCEPT ![m] = @ + amount]
  /\ fxrp' = Moved(fxrp, m, LedgerAddr, amount)
  /\ UNCHANGED <<escrow, lockedBonds>>

withdrawBond(m, amount) ==
  /\ amount <= freeBond[m]
  /\ CanPay(LedgerAddr, amount)
  /\ freeBond' = [freeBond EXCEPT ![m] = @ - amount]
  /\ fxrp' = Moved(fxrp, LedgerAddr, m, amount)
  /\ UNCHANGED <<escrow, lockedBonds>>

(***************************************************************************)
(* Escrow side: called from inside lock, release and refund, in the same   *)
(* transaction.  slashBond's token transfer is one of the two transfers of *)
(* refund, which states the token balances after both.                     *)
(***************************************************************************)
lockBondUnchecked(caller, id, maker, amount) ==
  /\ caller = escrow
  /\ amount <= MAX_U128
  /\ freeBond' = [freeBond EXCEPT ![maker] = @ - amount]
  /\ lockedBonds' = [lockedBonds EXCEPT ![id] =
                       [maker |-> maker, amount |-> amount, active |-> TRUE]]
  /\ UNCHANGED escrow

lockBond(caller, id, maker, amount) ==
  /\ caller = escrow
  /\ amount <= freeBond[maker]
  /\ amount <= MAX_U128
  /\ freeBond' = [freeBond EXCEPT ![maker] = @ - amount]
  /\ lockedBonds' = [lockedBonds EXCEPT ![id] =
                       [maker |-> maker, amount |-> amount, active |-> TRUE]]
  /\ UNCHANGED escrow

releaseBondForgotten(caller, id) ==
  /\ caller = escrow
  /\ lockedBonds[id].active
  /\ lockedBonds' = [lockedBonds EXCEPT ![id].active = FALSE]
  /\ UNCHANGED <<escrow, freeBond>>

releaseBond(caller, id) ==
  /\ caller = escrow
  /\ lockedBonds[id].active
  /\ lockedBonds' = [lockedBonds EXCEPT ![id].active = FALSE]
  /\ freeBond' = [freeBond EXCEPT ![lockedBonds[id].maker] = @ + lockedBonds[id].amount]
  /\ UNCHANGED escrow

slashBondStaysActive(caller, id) ==
  /\ caller = escrow
  /\ lockedBonds[id].active
  /\ CanPay(LedgerAddr, lockedBonds[id].amount)
  /\ UNCHANGED <<escrow, freeBond, lockedBonds>>

slashBond(caller, id) ==
  /\ caller = escrow
  /\ lockedBonds[id].active
  /\ CanPay(LedgerAddr, lockedBonds[id].amount)
  /\ lockedBonds' = [lockedBonds EXCEPT ![id].active = FALSE]
  /\ UNCHANGED <<escrow, freeBond>>

\* Owner only, once.
setEscrow(e) ==
  /\ escrow = Nobody
  /\ e # Nobody
  /\ escrow' = e
  /\ UNCHANGED <<fxrp, freeBond, lockedBonds>>

ActiveBonds == {id \in MatchIds : lockedBonds[id].active}

LockedAmount == [id \in MatchIds |-> lockedBonds[id].amount]
=============================================================================
