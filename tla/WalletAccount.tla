---------------------------- MODULE WalletAccount ----------------------------
(***************************************************************************)
(* The account part that WalletMode.tsx and MakerMode.tsx have in common,  *)
(* with web/src/lib/useWalletAccount.ts: whether the page knows the        *)
(* account, and what a screen shows of it: whether the balance is above    *)
(* zero and whether the server runs.  A tab's wallet holds one account.    *)
(***************************************************************************)
EXTENDS DeskApi

VARIABLE account   \* whether the components of a tab, which all hear of it, know its account

NoStatus == [enabled |-> TRUE, funded |-> FALSE]

\* A status that is read, or an error that changes nothing.
StatusRead == Status \cup {<<>>}

\* A screen mounts with the account restored silently, and reads its status.
FreshAccount == {[mounted |-> TRUE] @@ status @@ NoStatus : status \in StatusRead}
Absent == [mounted |-> FALSE] @@ NoStatus

\* The account appears, by the reconnect card or from the wallet: the status is read again.
accountAppears(t, s) == /\ s.mounted /\ ~account[t]
                        /\ account' = [account EXCEPT ![t] = TRUE]
                        /\ UNCHANGED <<world, calls>>

\* Gas changes nothing that is modelled, unless the server says that the mode is asleep.
handleGas(t, s) == /\ s.mounted /\ s.enabled /\ account[t]
                   /\ UNCHANGED <<world, calls>>
=============================================================================
