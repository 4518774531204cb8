-------------------------- MODULE DvPEscrowProofs ---------------------------
(***************************************************************************)
(* DvPEscrow and BondLedger, for any number of parties, matches and        *)
(* payments and any windows, bands and amounts: types, custody, tags,      *)
(* payments, and the terms a match is locked with.                         *)
(***************************************************************************)
EXTENDS DvPEscrow, FiniteSetTheorems, TLAPS

-----------------------------------------------------------------------------
(***************************************************************************)
(* What the sums of Totals return, and how they change when an index joins *)
(* the set, leaves it, or has its value replaced.                          *)
(***************************************************************************)
\* The units of one index are finitely many, as many as its value.
LEMMA UnitsOfCardinality ==
  ASSUME NEW f, NEW x, f[x] \in Nat
  PROVE  /\ IsFiniteSet(UnitsOf(f, x))
         /\ Cardinality(UnitsOf(f, x)) = f[x]
<1>1. IsFiniteSet({x}) /\ Cardinality({x}) = 1
  BY FS_Singleton
<1>2. IsFiniteSet(1..f[x]) /\ Cardinality(1..f[x]) = f[x]
  <2>1. 1 \in Int /\ f[x] \in Int
    OBVIOUS
  <2>2. /\ IsFiniteSet(1..f[x])
        /\ Cardinality(1..f[x]) = IF 1 > f[x] THEN 0 ELSE (f[x] - 1) + 1
    BY <2>1, FS_Interval
  <2> QED
    BY <2>2
<1>3. /\ IsFiniteSet({x} \X (1..f[x]))
      /\ Cardinality({x} \X (1..f[x])) = 1 * f[x]
  <2>1. /\ IsFiniteSet({x} \X (1..f[x]))
        /\ Cardinality({x} \X (1..f[x])) = Cardinality({x}) * Cardinality(1..f[x])
    BY <1>1, <1>2, FS_Product
  <2> QED
    BY <1>1, <1>2, <2>1
<1>4. 1 * f[x] = f[x]
  OBVIOUS
<1> QED
  BY <1>3, <1>4 DEF UnitsOf

\* A finite index set has finitely many units.
LEMMA UnitsFinite ==
  ASSUME NEW S, IsFiniteSet(S), NEW f, \A x \in S : f[x] \in Nat
  PROVE  IsFiniteSet(Units(f, S))
<1> DEFINE T == {UnitsOf(f, x) : x \in S}
           g == [x \in S |-> UnitsOf(f, x)]
<1>1. g \in Surjection(S, T)
  BY DEF Surjection
<1>2. IsFiniteSet(T)
  BY <1>1, FS_Surjection
<1>3. \A t \in T : IsFiniteSet(t)
  BY UnitsOfCardinality
<1> HIDE DEF T
<1>4. IsFiniteSet(UNION T)
  BY <1>2, <1>3, FS_UNION
<1> QED
  BY <1>4 DEF Units, T

\* A sum of naturals over a finite set is a natural.
LEMMA TotalNat ==
  ASSUME NEW S, IsFiniteSet(S), NEW f, \A x \in S : f[x] \in Nat
  PROVE  Total(f, S) \in Nat
BY UnitsFinite, FS_CardinalityType DEF Total

\* The empty sum is zero.
LEMMA TotalEmpty ==
  ASSUME NEW f
  PROVE  Total(f, {}) = 0
<1>1. Units(f, {}) = {}
  BY DEF Units
<1> QED
  BY <1>1, FS_EmptySet DEF Total

\* A sum of zeros is zero.
LEMMA TotalZero ==
  ASSUME NEW S, NEW f, \A x \in S : f[x] = 0
  PROVE  Total(f, S) = 0
<1>1. \A x \in S : UnitsOf(f, x) = {}
  BY DEF UnitsOf
<1>2. Units(f, S) = {}
  BY <1>1 DEF Units
<1> QED
  BY <1>2, FS_EmptySet DEF Total

\* Functions that agree on the index set have the same sum over it.
LEMMA TotalSame ==
  ASSUME NEW S, NEW f, NEW g, \A x \in S : f[x] = g[x]
  PROVE  Total(f, S) = Total(g, S)
<1>1. \A x \in S : UnitsOf(f, x) = UnitsOf(g, x)
  BY DEF UnitsOf
<1>2. {UnitsOf(f, x) : x \in S} = {UnitsOf(g, x) : x \in S}
  BY <1>1
<1> QED
  BY <1>2 DEF Total, Units

\* An index that joins the set adds its value to the sum.
LEMMA TotalAdd ==
  ASSUME NEW S, IsFiniteSet(S), NEW f, NEW a, a \notin S,
         f[a] \in Nat, \A x \in S : f[x] \in Nat
  PROVE  Total(f, S \cup {a}) = Total(f, S) + f[a]
<1>1. Units(f, S \cup {a}) = Units(f, S) \cup UnitsOf(f, a)
  BY DEF Units
<1>2. Units(f, S) \cap UnitsOf(f, a) = {}
  BY DEF Units, UnitsOf
<1>3. IsFiniteSet(Units(f, S))
  BY UnitsFinite
<1>4. IsFiniteSet(UnitsOf(f, a)) /\ Cardinality(UnitsOf(f, a)) = f[a]
  BY UnitsOfCardinality
<1>5. Cardinality(Units(f, S) \cup UnitsOf(f, a))
        = Cardinality(Units(f, S)) + f[a] - Cardinality({})
  BY <1>2, <1>3, <1>4, FS_Union
<1>6. Cardinality({}) = 0 /\ Cardinality(Units(f, S)) \in Nat
  BY <1>3, FS_EmptySet, FS_CardinalityType
<1>7. Cardinality(Units(f, S) \cup UnitsOf(f, a))
        = Cardinality(Units(f, S)) + f[a]
  BY <1>5, <1>6
<1>8. Cardinality(Units(f, S \cup {a}))
        = Cardinality(Units(f, S) \cup UnitsOf(f, a))
  BY <1>1
<1> QED
  BY <1>7, <1>8, Zenon DEF Total

\* An index of the set contributes its value on top of the others.
LEMMA TotalSplit ==
  ASSUME NEW S, IsFiniteSet(S), NEW f, NEW a \in S, \A x \in S : f[x] \in Nat
  PROVE  /\ Total(f, S) = Total(f, S \ {a}) + f[a]
         /\ Total(f, S \ {a}) \in Nat
         /\ f[a] <= Total(f, S)
<1>1. IsFiniteSet(S \ {a})
  BY FS_RemoveElement
<1>2. Total(f, (S \ {a}) \cup {a}) = Total(f, S \ {a}) + f[a]
  BY <1>1, TotalAdd
<1>3. (S \ {a}) \cup {a} = S
  OBVIOUS
<1>4. Total(f, S \ {a}) \in Nat
  BY <1>1, TotalNat
<1>5. Total(f, S) = Total(f, S \ {a}) + f[a]
  BY <1>2, <1>3, Zenon
<1>6. f[a] \in Nat
  OBVIOUS
<1> QED
  BY <1>4, <1>5, <1>6

\* Replacing the value of one index moves the sum by the difference.
LEMMA TotalChange ==
  ASSUME NEW S, IsFiniteSet(S), NEW f, NEW g, NEW a \in S,
         \A x \in S : f[x] \in Nat /\ g[x] \in Nat,
         \A x \in S \ {a} : g[x] = f[x]
  PROVE  Total(g, S) = (Total(f, S) - f[a]) + g[a]
<1>1. Total(f, S) = Total(f, S \ {a}) + f[a] /\ Total(f, S \ {a}) \in Nat
  BY TotalSplit
<1>2. Total(g, S) = Total(g, S \ {a}) + g[a]
  BY TotalSplit
<1>3. Total(g, S \ {a}) = Total(f, S \ {a})
  BY TotalSame
<1> QED
  BY <1>1, <1>2, <1>3

-----------------------------------------------------------------------------
(***************************************************************************)
(* Arithmetic and the token.                                               *)
(***************************************************************************)
\* Products of naturals are naturals.
LEMMA ProductNat == \A a, b \in Nat : a * b \in Nat
OBVIOUS

\* The same for integer quotients.
LEMMA QuotientNat == \A a \in Nat, b \in Nat \ {0} : a \div b \in Nat
OBVIOUS

\* The bond of a natural amount is a natural.
LEMMA BondForNat == \A a \in Nat : BondFor(a) \in Nat
<1>1. BOND_BIPS \in Nat /\ BIPS \in Nat \ {0}
  BY EscrowAssumption
<1> SUFFICES ASSUME NEW a \in Nat PROVE BondFor(a) \in Nat
  OBVIOUS
<1>2. a * BOND_BIPS \in Nat
  BY <1>1, ProductNat
<1> QED
  BY <1>1, <1>2, QuotientNat DEF BondFor

\* A covered transfer between two accounts keeps the balances natural, and
\* says what each account holds afterwards.
LEMMA MovedType ==
  ASSUME NEW tokens \in [Accounts -> Nat], NEW from \in Accounts, NEW to \in Accounts,
         NEW amount \in Nat, from # to, amount <= tokens[from]
  PROVE  /\ Moved(tokens, from, to, amount) \in [Accounts -> Nat]
         /\ Moved(tokens, from, to, amount)[from] = tokens[from] - amount
         /\ Moved(tokens, from, to, amount)[to] = tokens[to] + amount
         /\ \A a \in Accounts \ {from, to} : Moved(tokens, from, to, amount)[a] = tokens[a]
BY DEF Moved

\* The two contracts and the parties are distinct accounts.
LEMMA AccountTypes ==
  /\ EscrowAddr \in Accounts /\ LedgerAddr \in Accounts
  /\ \A p \in Parties : p \in Accounts /\ p # EscrowAddr /\ p # LedgerAddr
  /\ EscrowAddr # LedgerAddr
BY LedgerAssumption DEF Accounts

\* The fields of an instruction have their types.
LEMMA InstructionTypes ==
  ASSUME NEW mi \in MatchInstruction
  PROVE  /\ mi.matchId \in MatchIds /\ mi.taker \in Parties /\ mi.maker \in Parties
         /\ mi.amountFxrp \in Nat /\ mi.priceUsd18 \in Nat
         /\ mi.takerXrplAddress \in XrplAddresses \cup {EmptyXrplAddress}
BY DEF MatchInstruction

-----------------------------------------------------------------------------
(***************************************************************************)
(* The steps with any input of the right type.  Next bounds amounts, times *)
(* and instructions for TLC; nothing below depends on those bounds, and a  *)
(* module that composes the contracts may take other inputs.               *)
(***************************************************************************)
AnyTaker ==
  \E t \in Parties, a \in Nat :
    \/ \E u \in Nat : deposit(t, a, u)
    \/ withdraw(t, a)

AnyMaker ==
  /\ \E m \in Parties, a \in Nat : depositBond(m, a) \/ withdrawBond(m, a)
  /\ Unescrowed

AnyLock ==
  \E mi \in MatchInstruction, sig \in Signers \cup {Nobody, Malformed}, value \in Nat :
    lock(mi, sig, value)

AnyWorld ==
  \/ Tick
  \/ \E mid \in Nat : OracleUpdate(mid)
  \/ \E tx \in TxIds, form \in PaymentForm, ts \in Nat : XrplPay(tx, form, ts)
  \/ \E tx \in TxIds, o \in Escrows : FdcAttest(tx, o)

AnyNext ==
  \/ AnyTaker
  \/ AnyMaker
  \/ AnyLock
  \/ ReleaseStep
  \/ RefundStep
  \/ OwnerStep
  \/ AnyWorld

\* The inputs Next chooses from have the right types.
LEMMA NextIsAny == TypeOK /\ Next => AnyNext
<1> SUFFICES ASSUME TypeOK, Next PROVE AnyNext
  OBVIOUS
<1>1. /\ Amounts \subseteq Nat /\ BondAmounts \subseteq Nat /\ ArmTimes \subseteq Nat
      /\ Mids \subseteq Nat /\ {0, FTSO_FEE} \subseteq Nat
      /\ Instructions \subseteq MatchInstruction /\ PaymentForms \subseteq PaymentForm
  BY EscrowAssumption
<1>2. LedgerClose \subseteq Nat
  BY EscrowAssumption DEF LedgerClose, TypeOK
<1>3. CASE TakerStep
  BY <1>1, <1>3 DEF TakerStep, AnyTaker, AnyNext
<1>4. CASE MakerStep
  BY <1>1, <1>4 DEF MakerStep, AnyMaker, AnyNext
<1>5. CASE LockStep
  BY <1>1, <1>5 DEF LockStep, AnyLock, AnyNext
<1>6. CASE WorldStep
  BY <1>1, <1>2, <1>6 DEF WorldStep, AnyWorld, AnyNext
<1> QED
  BY <1>3, <1>4, <1>5, <1>6 DEF Next, AnyNext

-----------------------------------------------------------------------------
(***************************************************************************)
(* Type correctness: one lemma per group of actions.                       *)
(***************************************************************************)
\* The taker's actions keep every variable in its type.
LEMMA TakerTypes == TypeOK /\ AnyTaker => TypeOK'
<1> SUFFICES ASSUME TypeOK, NEW t \in Parties, NEW a \in Nat,
                    (\E u \in Nat : deposit(t, a, u)) \/ withdraw(t, a)
             PROVE  TypeOK'
  BY DEF AnyTaker
<1>2. CASE \E u \in Nat : deposit(t, a, u)
  <2> PICK u \in Nat : deposit(t, a, u)
    BY <1>2
  <2>2. fxrp' \in [Accounts -> Nat]
    BY MovedType, AccountTypes DEF deposit, CanPay, TypeOK, LedgerTypeOK
  <2>3. Larger(balances[t].armedUntil, u) \in Nat
    BY DEF TypeOK, TakerBalance, Larger
  <2>4. balances' \in [Parties -> TakerBalance]
    BY <2>3 DEF deposit, TypeOK, TakerBalance
  <2> QED
    BY <2>2, <2>4 DEF deposit, TypeOK, LedgerTypeOK, ledgerVars, adminVars, worldVars
<1>3. CASE withdraw(t, a)
  <2>1. a <= balances[t].armed
    BY <1>3 DEF withdraw, Available, TypeOK, TakerBalance
  <2>2. fxrp' \in [Accounts -> Nat]
    BY <1>3, MovedType, AccountTypes DEF withdraw, CanPay, TypeOK, LedgerTypeOK
  <2>3. balances' \in [Parties -> TakerBalance]
    BY <1>3, <2>1 DEF withdraw, TypeOK, TakerBalance
  <2> QED
    BY <1>3, <2>2, <2>3 DEF withdraw, TypeOK, LedgerTypeOK, ledgerVars, adminVars, worldVars
<1> QED
  BY <1>2, <1>3

\* So do the maker's.
LEMMA MakerTypes == TypeOK /\ AnyMaker => TypeOK'
<1> SUFFICES ASSUME TypeOK, NEW m \in Parties, NEW a \in Nat,
                    depositBond(m, a) \/ withdrawBond(m, a), Unescrowed
             PROVE  TypeOK'
  BY DEF AnyMaker
<1>2. fxrp' \in [Accounts -> Nat]
  BY MovedType, AccountTypes
     DEF depositBond, withdrawBond, CanPay, TypeOK, LedgerTypeOK
<1>3. freeBond' \in [Parties -> Nat]
  BY DEF depositBond, withdrawBond, TypeOK, LedgerTypeOK
<1> QED
  BY <1>2, <1>3
     DEF depositBond, withdrawBond, TypeOK, LedgerTypeOK, Unescrowed, escrowVars,
         adminVars, worldVars

\* A lock writes a well-typed match and bond.
LEMMA LockTypes ==
  ASSUME TypeOK, NEW mi \in MatchInstruction, NEW sig, NEW value, lock(mi, sig, value)
  PROVE  TypeOK'
<1>1. /\ BondFor(mi.amountFxrp) \in Nat
      /\ mi.matchId \in MatchIds /\ mi.taker \in Parties /\ mi.maker \in Parties
      /\ mi.amountFxrp \in Nat /\ mi.priceUsd18 \in Nat
      /\ mi.takerXrplAddress \in XrplAddresses \cup {EmptyXrplAddress}
  BY InstructionTypes, BondForNat
<1>2. Drops(mi) \in Nat
  <2>1. mi.amountFxrp * mi.priceUsd18 \in Nat
    BY <1>1, ProductNat
  <2>2. oracle.mid \in Nat \ {0}
    BY DEF lock, OracleFresh, TypeOK
  <2> QED
    BY <2>1, <2>2, QuotientNat DEF Drops
<1>3. PAYMENT_WINDOW \in Nat /\ SETTLEMENT_WINDOW \in Nat
  BY EscrowAssumption DEF PAYMENT_WINDOW
<1>4. NewMatch(mi) \in Match
  BY <1>1, <1>2, <1>3 DEF NewMatch, MatchWithTag, Match, MatchState, TypeOK
<1>5. matches' \in [MatchIds -> Match]
  BY <1>4 DEF lock, TypeOK
<1>6. balances' \in [Parties -> TakerBalance]
  BY <1>1 DEF lock, TypeOK, TakerBalance
<1>7. freeBond' \in [Parties -> Nat]
  BY <1>1 DEF lock, lockBond, TypeOK, LedgerTypeOK
<1>8. lockedBonds' \in [MatchIds -> LockedBond]
  BY <1>1 DEF lock, lockBond, TypeOK, LedgerTypeOK, LockedBond
<1> QED
  BY <1>5, <1>6, <1>7, <1>8 DEF lock, lockBond, TypeOK, LedgerTypeOK, adminVars, worldVars

\* What taking a settled principal out of a taker's balance leaves.
LEMMA UncommitType ==
  ASSUME TypeOK, NEW t \in Parties, NEW amount \in Nat, Uncommit(t, amount)
  PROVE  /\ balances' \in [Parties -> TakerBalance]
         /\ balances[t].committed >= amount /\ balances[t].armed >= amount
         /\ balances'[t].committed = balances[t].committed - amount
         /\ balances'[t].armed = balances[t].armed - amount
         /\ \A p \in Parties \ {t} : balances'[p] = balances[p]
BY DEF Uncommit, TypeOK, TakerBalance

\* A release keeps every type.  The taker, the maker and the bond's owner are
\* parties: an open match has real ones.
LEMMA ReleaseTypes ==
  ASSUME TypeOK, BondBacksMatch,
         NEW id \in MatchIds, NEW tx \in TxIds, NEW o, release(id, tx, o)
  PROVE  TypeOK'
<1>1. /\ matches[id].taker \in Parties /\ matches[id].maker \in Parties
      /\ matches[id].amountFxrp \in Nat
      /\ lockedBonds[id].maker \in Parties /\ lockedBonds[id].amount \in Nat
  BY DEF release, ProofAccepted, BondBacksMatch, TypeOK, Match, LedgerTypeOK, LockedBond
<1>2. matches' \in [MatchIds -> Match]
  <2>1. matches' = [matches EXCEPT ![id].state = "Released"]
    BY DEF release
  <2>2. matches \in [MatchIds -> Match]
    BY DEF TypeOK
  <2> QED
    BY <2>1, <2>2 DEF Match, MatchState
<1>3. balances' \in [Parties -> TakerBalance]
  BY <1>1, UncommitType DEF release
<1>4. lockedBonds' \in [MatchIds -> LockedBond]
  BY DEF release, ProofAccepted, releaseBond, TypeOK, LedgerTypeOK, LockedBond
<1>5. freeBond' \in [Parties -> Nat]
  BY <1>1 DEF release, ProofAccepted, releaseBond, TypeOK, LedgerTypeOK
<1>6. fxrp' \in [Accounts -> Nat]
  BY <1>1, MovedType, AccountTypes DEF release, ProofAccepted, CanPay, TypeOK, LedgerTypeOK
<1> QED
  BY <1>2, <1>3, <1>4, <1>5, <1>6
     DEF release, ProofAccepted, releaseBond, TypeOK, LedgerTypeOK, adminVars, worldVars

\* A refund makes two transfers, from the ledger and then from the escrow.
LEMMA RefundMoves ==
  ASSUME TypeOK, NEW t \in Parties, NEW bond \in Nat, NEW amount \in Nat,
         CanPay(LedgerAddr, bond), CanPay(EscrowAddr, amount)
  PROVE  LET after == Moved(Moved(fxrp, LedgerAddr, t, bond), EscrowAddr, t, amount)
         IN  /\ after \in [Accounts -> Nat]
             /\ after[LedgerAddr] = fxrp[LedgerAddr] - bond
             /\ after[EscrowAddr] = fxrp[EscrowAddr] - amount
             /\ after[t] = fxrp[t] + bond + amount
             /\ \A p \in Parties \ {t} : after[p] = fxrp[p]
<1> DEFINE first == Moved(fxrp, LedgerAddr, t, bond)
<1>0. fxrp \in [Accounts -> Nat] /\ bond <= fxrp[LedgerAddr] /\ amount <= fxrp[EscrowAddr]
  BY AccountTypes DEF CanPay, TypeOK, LedgerTypeOK
<1>1. /\ first \in [Accounts -> Nat]
      /\ first[LedgerAddr] = fxrp[LedgerAddr] - bond
      /\ first[t] = fxrp[t] + bond
      /\ \A a \in Accounts \ {LedgerAddr, t} : first[a] = fxrp[a]
  BY <1>0, MovedType, AccountTypes
<1>2. first[EscrowAddr] = fxrp[EscrowAddr]
  BY <1>1, AccountTypes
<1> HIDE DEF first
<1>3. /\ Moved(first, EscrowAddr, t, amount) \in [Accounts -> Nat]
      /\ Moved(first, EscrowAddr, t, amount)[EscrowAddr] = first[EscrowAddr] - amount
      /\ Moved(first, EscrowAddr, t, amount)[t] = first[t] + amount
      /\ \A a \in Accounts \ {EscrowAddr, t} :
           Moved(first, EscrowAddr, t, amount)[a] = first[a]
  BY <1>0, <1>1, <1>2, MovedType, AccountTypes
<1> QED
  BY <1>1, <1>2, <1>3, AccountTypes DEF first

\* A refund keeps every type.
LEMMA RefundTypes ==
  ASSUME TypeOK, BondBacksMatch, NEW id \in MatchIds, refund(id)
  PROVE  TypeOK'
<1>1. /\ matches[id].taker \in Parties
      /\ matches[id].amountFxrp \in Nat
      /\ lockedBonds[id].amount \in Nat
  BY DEF refund, BondBacksMatch, TypeOK, Match, LedgerTypeOK, LockedBond
<1>2. matches' \in [MatchIds -> Match]
  BY DEF refund, TypeOK, Match, MatchState
<1>3. balances' \in [Parties -> TakerBalance]
  BY <1>1, UncommitType DEF refund
<1>4. lockedBonds' \in [MatchIds -> LockedBond]
  BY DEF refund, slashBond, TypeOK, LedgerTypeOK, LockedBond
<1>5. fxrp' \in [Accounts -> Nat]
  BY <1>1, RefundMoves DEF refund, slashBond
<1> QED
  BY <1>2, <1>3, <1>4, <1>5
     DEF refund, slashBond, TypeOK, LedgerTypeOK, adminVars, worldVars

\* The owner and the outside services write values of the declared types.
LEMMA OwnerTypes == TypeOK /\ OwnerStep => TypeOK'
<1> SUFFICES ASSUME TypeOK, OwnerStep PROVE TypeOK'
  OBVIOUS
<1>1. CASE \E k \in Signers : setTeeSigner(k)
  BY <1>1 DEF setTeeSigner, TypeOK, LedgerTypeOK, ledgerVars, escrowVars, worldVars
<1>2. CASE \E t \in Treasuries : setFeeTreasury(t)
  BY <1>2 DEF setFeeTreasury, TypeOK, LedgerTypeOK, ledgerVars, escrowVars, worldVars
<1>3. CASE \E p \in BOOLEAN : setLockPaused(p)
  BY <1>3 DEF setLockPaused, TypeOK, LedgerTypeOK, ledgerVars, escrowVars, worldVars
<1>4. CASE setEscrow(EscrowAddr) /\ Unescrowed
  BY <1>4 DEF setEscrow, Unescrowed, TypeOK, LedgerTypeOK, escrowVars, adminVars, worldVars
<1> QED
  BY <1>1, <1>2, <1>3, <1>4 DEF OwnerStep

\* So do the clock, the feed, the XRP Ledger and the FDC.
LEMMA WorldTypes == TypeOK /\ AnyWorld => TypeOK'
<1> SUFFICES ASSUME TypeOK, AnyWorld PROVE TypeOK'
  OBVIOUS
<1>1. CASE Tick
  BY <1>1 DEF Tick, TypeOK, LedgerTypeOK, ledgerVars, escrowVars, adminVars, worldVars
<1>2. CASE \E mid \in Nat : OracleUpdate(mid)
  BY <1>2
     DEF OracleUpdate, TypeOK, LedgerTypeOK, ledgerVars, escrowVars, adminVars
<1>3. CASE \E tx \in TxIds, form \in PaymentForm, ts \in Nat : XrplPay(tx, form, ts)
  <2> PICK tx \in TxIds, form \in PaymentForm, ts \in Nat : XrplPay(tx, form, ts)
    BY <1>3
  <2>2. payments' \in [TxIds -> Payment]
    BY DEF XrplPay, TypeOK, Payment
  <2>3. \A x \in TxIds : payments[x].made => payments'[x].made
    BY DEF XrplPay, TypeOK
  <2>4. attested' \subseteq {x \in TxIds : payments'[x].made} \X Escrows
    BY <2>3 DEF XrplPay, TypeOK
  <2> QED
    BY <2>2, <2>4 DEF XrplPay, TypeOK, LedgerTypeOK, ledgerVars, escrowVars, adminVars
<1>4. CASE \E tx \in TxIds, o \in Escrows : FdcAttest(tx, o)
  BY <1>4 DEF FdcAttest, TypeOK, LedgerTypeOK, ledgerVars, escrowVars, adminVars
<1> QED
  BY <1>1, <1>2, <1>3, <1>4 DEF AnyWorld

-----------------------------------------------------------------------------
(***************************************************************************)
(* The inductive invariant.  Each part needs others: the counters are      *)
(* natural only while releases and refunds subtract what a lock added, the *)
(* two contracts must agree on which bonds are active for the ledger's sum *)
(* to move with the match, and payments are told apart by fresh tags.      *)
(***************************************************************************)
Inv ==
  /\ TypeOK
  /\ CommittedIsOpen
  /\ EscrowSolvent
  /\ LedgerSolvent
  /\ BondBacksMatch
  /\ TagsFresh
  /\ EveryReleasePaid
  /\ UsedFundsRelease

\* The sums range over finite sets of naturals.
LEMMA SumTypes ==
  ASSUME TypeOK
  PROVE  /\ IsFiniteSet(Parties)
         /\ \A p \in Parties : Armed[p] = balances[p].armed /\ Armed[p] \in Nat
         /\ \A p \in Parties : freeBond[p] \in Nat
         /\ \A id \in MatchIds : LockedAmount[id] \in Nat /\ LockedAmount[id] = lockedBonds[id].amount
         /\ \A id \in MatchIds : AmountOf[id] \in Nat /\ AmountOf[id] = matches[id].amountFxrp
         /\ \A S \in SUBSET MatchIds : IsFiniteSet(S)
         /\ IsFiniteSet(ActiveBonds)
         /\ \A t \in Parties : IsFiniteSet(OpenOf(t))
<1>1. \A S \in SUBSET MatchIds : IsFiniteSet(S)
  BY FS_Subset, LedgerAssumption
<1>2. ActiveBonds \in SUBSET MatchIds /\ \A t \in Parties : OpenOf(t) \in SUBSET MatchIds
  BY DEF ActiveBonds, OpenOf, OpenMatches
<1> QED
  BY <1>1, <1>2, LedgerAssumption
     DEF TypeOK, TakerBalance, LedgerTypeOK, LockedBond, Match, Armed, LockedAmount, AmountOf

\* Steps that leave matches and payments alone keep the facts about them.
LEMMA MatchesUnchanged ==
  ASSUME Inv, UNCHANGED <<matches, nextDestinationTag, usedTxId, payments>>
  PROVE  TagsFresh' /\ EveryReleasePaid' /\ UsedFundsRelease'
<1>1. TagsFresh'
  BY DEF Inv, TagsFresh
<1>2. ReleasedMatches' = ReleasedMatches
  BY DEF ReleasedMatches
<1>3. EveryReleasePaid'
  BY <1>2 DEF Inv, EveryReleasePaid, PaysFor
<1>4. UsedFundsRelease'
  BY <1>2 DEF Inv, UsedFundsRelease, PaysFor
<1> QED
  BY <1>1, <1>3, <1>4

\* Steps that leave both contracts' state alone keep the accounting.
LEMMA AccountingUnchanged ==
  ASSUME Inv, UNCHANGED <<fxrp, freeBond, lockedBonds, balances, matches>>,
         escrow' = escrow \/ escrow' = EscrowAddr
  PROVE  CommittedIsOpen' /\ EscrowSolvent' /\ LedgerSolvent' /\ BondBacksMatch'
BY DEF Inv, CommittedIsOpen, EscrowSolvent, LedgerSolvent, BondBacksMatch,
       OpenOf, OpenMatches, AmountOf, Armed, LockedAmount, ActiveBonds

\* When one taker's balance changes, the armed total moves by the difference.
LEMMA ArmedMoves ==
  ASSUME TypeOK, TypeOK', NEW t \in Parties, \A p \in Parties \ {t} : balances'[p] = balances[p]
  PROVE  /\ Total(Armed, Parties) \in Nat
         /\ Total(Armed', Parties)
              = (Total(Armed, Parties) - balances[t].armed) + balances'[t].armed
<1>1. /\ IsFiniteSet(Parties)
      /\ \A p \in Parties : Armed[p] = balances[p].armed /\ Armed[p] \in Nat
      /\ \A p \in Parties : Armed'[p] = balances'[p].armed /\ Armed'[p] \in Nat
  BY LedgerAssumption DEF Armed, TypeOK, TakerBalance
<1>2. \A p \in Parties \ {t} : Armed'[p] = Armed[p]
  BY <1>1
<1>3. \A p \in Parties : Armed[p] \in Nat /\ Armed'[p] \in Nat
  BY <1>1
<1> HIDE DEF Armed
<1>4. Total(Armed', Parties) = (Total(Armed, Parties) - Armed[t]) + Armed'[t]
  BY <1>1, <1>2, <1>3, TotalChange
<1>5. Total(Armed, Parties) \in Nat
  BY <1>1, TotalNat
<1> QED
  BY <1>1, <1>4, <1>5

\* When one maker's free bond changes, the free total moves by the difference.
LEMMA FreeBondMoves ==
  ASSUME TypeOK, TypeOK', NEW m \in Parties, \A p \in Parties \ {m} : freeBond'[p] = freeBond[p]
  PROVE  /\ Total(freeBond, Parties) \in Nat
         /\ Total(freeBond', Parties)
              = (Total(freeBond, Parties) - freeBond[m]) + freeBond'[m]
<1>1. \A p \in Parties : freeBond[p] \in Nat /\ freeBond'[p] \in Nat
  BY DEF TypeOK, LedgerTypeOK
<1>2. Total(freeBond', Parties) = (Total(freeBond, Parties) - freeBond[m]) + freeBond'[m]
  BY <1>1, LedgerAssumption, TotalChange
<1>3. Total(freeBond, Parties) \in Nat
  BY <1>1, LedgerAssumption, TotalNat
<1> QED
  BY <1>2, <1>3

\* A deposit moves the token and the taker's armed balance together.
LEMMA DepositInv ==
  ASSUME Inv, NEW t \in Parties, NEW a \in Nat, NEW u \in Nat, deposit(t, a, u), TypeOK'
  PROVE  CommittedIsOpen' /\ EscrowSolvent' /\ LedgerSolvent' /\ BondBacksMatch'
<1>1. /\ balances'[t].armed = balances[t].armed + a
      /\ balances'[t].committed = balances[t].committed
      /\ \A p \in Parties \ {t} : balances'[p] = balances[p]
  BY DEF deposit, Inv, TypeOK, TakerBalance
<1>2. fxrp'[EscrowAddr] = fxrp[EscrowAddr] + a /\ fxrp'[LedgerAddr] = fxrp[LedgerAddr]
  <2>1. /\ fxrp \in [Accounts -> Nat] /\ a <= fxrp[t]
        /\ fxrp' = Moved(fxrp, t, EscrowAddr, a)
    BY AccountTypes DEF deposit, CanPay, Inv, TypeOK, LedgerTypeOK
  <2> QED
    BY <2>1, MovedType, AccountTypes
<1>3. CommittedIsOpen'
  <2>1. \A p \in Parties : OpenOf(p)' = OpenOf(p)
    BY DEF deposit, OpenOf, OpenMatches
  <2>2. AmountOf' = AmountOf
    BY DEF deposit, AmountOf
  <2>3. \A p \in Parties : balances'[p].committed = balances[p].committed
                         /\ balances'[p].armed >= balances[p].armed
    BY <1>1 DEF Inv, TypeOK, TakerBalance
  <2> QED
    BY <2>1, <2>2, <2>3 DEF Inv, CommittedIsOpen, TypeOK, TakerBalance
<1>4. EscrowSolvent'
  <2>1. /\ Total(Armed, Parties) \in Nat
        /\ Total(Armed', Parties)
             = (Total(Armed, Parties) - balances[t].armed) + balances'[t].armed
    BY <1>1, ArmedMoves DEF Inv
  <2>2. balances[t].armed \in Nat
    BY DEF Inv, TypeOK, TakerBalance
  <2> QED
    BY <1>1, <1>2, <2>1, <2>2 DEF Inv, EscrowSolvent
<1>5. LedgerSolvent' /\ BondBacksMatch'
  BY <1>2 DEF deposit, Inv, LedgerSolvent, BondBacksMatch, ledgerVars, LockedAmount, ActiveBonds
<1> QED
  BY <1>3, <1>4, <1>5

\* A withdrawal takes only what is not committed.
LEMMA WithdrawInv ==
  ASSUME Inv, NEW t \in Parties, NEW a \in Nat, withdraw(t, a), TypeOK'
  PROVE  CommittedIsOpen' /\ EscrowSolvent' /\ LedgerSolvent' /\ BondBacksMatch'
<1>1. /\ balances'[t].armed = balances[t].armed - a
      /\ balances'[t].committed = balances[t].committed
      /\ a <= balances[t].armed - balances[t].committed
      /\ \A p \in Parties \ {t} : balances'[p] = balances[p]
  BY DEF withdraw, Available, Inv, TypeOK, TakerBalance
<1>2. fxrp'[EscrowAddr] = fxrp[EscrowAddr] - a /\ fxrp'[LedgerAddr] = fxrp[LedgerAddr]
  <2>1. /\ fxrp \in [Accounts -> Nat] /\ a <= fxrp[EscrowAddr]
        /\ fxrp' = Moved(fxrp, EscrowAddr, t, a)
    BY AccountTypes DEF withdraw, CanPay, Inv, TypeOK, LedgerTypeOK
  <2> QED
    BY <2>1, MovedType, AccountTypes
<1>3. CommittedIsOpen'
  <2>1. \A p \in Parties : OpenOf(p)' = OpenOf(p)
    BY DEF withdraw, OpenOf, OpenMatches
  <2>2. AmountOf' = AmountOf
    BY DEF withdraw, AmountOf
  <2>3. \A p \in Parties : balances'[p].committed = balances[p].committed
                         /\ balances'[p].armed >= balances'[p].committed
    BY <1>1 DEF Inv, TypeOK, TakerBalance, CommittedIsOpen
  <2> QED
    BY <2>1, <2>2, <2>3 DEF Inv, CommittedIsOpen, TypeOK, TakerBalance
<1>4. EscrowSolvent'
  <2>1. /\ Total(Armed, Parties) \in Nat
        /\ Total(Armed', Parties)
             = (Total(Armed, Parties) - balances[t].armed) + balances'[t].armed
    BY <1>1, ArmedMoves DEF Inv
  <2>2. balances[t].armed \in Nat
    BY DEF Inv, TypeOK, TakerBalance
  <2> QED
    BY <1>1, <1>2, <2>1, <2>2 DEF Inv, EscrowSolvent
<1>5. LedgerSolvent' /\ BondBacksMatch'
  BY <1>2 DEF withdraw, Inv, LedgerSolvent, BondBacksMatch, ledgerVars, LockedAmount, ActiveBonds
<1> QED
  BY <1>3, <1>4, <1>5

\* A maker's deposit or withdrawal moves the token and the free bond together.
LEMMA MakerInv ==
  ASSUME Inv, NEW m \in Parties, NEW a \in Nat,
         depositBond(m, a) \/ withdrawBond(m, a), Unescrowed, TypeOK'
  PROVE  CommittedIsOpen' /\ EscrowSolvent' /\ LedgerSolvent' /\ BondBacksMatch'
<1> DEFINE d == freeBond'[m] - freeBond[m]
<1>1. /\ freeBond[m] \in Nat /\ freeBond'[m] \in Nat
      /\ \A p \in Parties \ {m} : freeBond'[p] = freeBond[p]
  BY DEF depositBond, withdrawBond, Inv, TypeOK, LedgerTypeOK
<1>2. /\ fxrp'[LedgerAddr] = fxrp[LedgerAddr] + d
      /\ fxrp'[EscrowAddr] = fxrp[EscrowAddr]
  <2>1. fxrp \in [Accounts -> Nat]
    BY DEF Inv, TypeOK, LedgerTypeOK
  <2>2. CASE depositBond(m, a)
    <3>1. a <= fxrp[m] /\ fxrp' = Moved(fxrp, m, LedgerAddr, a) /\ d = a
      BY <2>1, <2>2, AccountTypes DEF depositBond, CanPay, Inv, TypeOK, LedgerTypeOK
    <3> QED
      BY <2>1, <3>1, MovedType, AccountTypes
  <2>3. CASE withdrawBond(m, a)
    <3>1. a <= fxrp[LedgerAddr] /\ fxrp' = Moved(fxrp, LedgerAddr, m, a) /\ d = 0 - a
      BY <2>1, <2>3, AccountTypes DEF withdrawBond, CanPay, Inv, TypeOK, LedgerTypeOK
    <3>. HIDE DEF d
    <3>2. /\ LedgerAddr \in Accounts /\ m \in Accounts /\ LedgerAddr # m
          /\ EscrowAddr \in Accounts \ {LedgerAddr, m}
      BY AccountTypes
    <3>4. fxrp'[LedgerAddr] = fxrp[LedgerAddr] - a /\ fxrp'[EscrowAddr] = fxrp[EscrowAddr]
      BY <2>1, <3>1, <3>2, MovedType
    <3>3. fxrp[LedgerAddr] \in Nat
      BY <2>1, AccountTypes
    <3> QED
      BY <3>1, <3>3, <3>4
  <2> QED
    BY <2>2, <2>3
<1>3. CommittedIsOpen' /\ EscrowSolvent' /\ BondBacksMatch'
  BY <1>2 DEF Unescrowed, escrowVars, depositBond, withdrawBond, Inv, CommittedIsOpen,
              EscrowSolvent, BondBacksMatch, OpenOf, OpenMatches, AmountOf, Armed
<1>4. LedgerSolvent'
  <2>1. /\ Total(freeBond, Parties) \in Nat
        /\ Total(freeBond', Parties) = Total(freeBond, Parties) + d
    BY <1>1, FreeBondMoves DEF Inv
  <2>2. LockedAmount' = LockedAmount /\ ActiveBonds' = ActiveBonds
    BY DEF depositBond, withdrawBond, LockedAmount, ActiveBonds
  <2>3. Total(LockedAmount, ActiveBonds) \in Nat
    BY SumTypes, TotalNat DEF Inv, ActiveBonds
  <2> QED
    BY <1>1, <1>2, <2>1, <2>2, <2>3 DEF Inv, LedgerSolvent, TypeOK, LedgerTypeOK
<1> QED
  BY <1>3, <1>4

\* A new bond joins the active ones.
LEMMA BondJoins ==
  ASSUME TypeOK, TypeOK', NEW id \in MatchIds, ~lockedBonds[id].active, lockedBonds'[id].active,
         \A j \in MatchIds \ {id} : lockedBonds'[j] = lockedBonds[j]
  PROVE  /\ Total(LockedAmount, ActiveBonds) \in Nat
         /\ Total(LockedAmount', ActiveBonds')
              = Total(LockedAmount, ActiveBonds) + lockedBonds'[id].amount
<1>1. ActiveBonds' = ActiveBonds \cup {id} /\ id \notin ActiveBonds
  BY DEF ActiveBonds
<1>2. /\ \A j \in ActiveBonds : LockedAmount'[j] = LockedAmount[j] /\ LockedAmount'[j] \in Nat
      /\ LockedAmount'[id] = lockedBonds'[id].amount /\ LockedAmount'[id] \in Nat
  BY <1>1 DEF LockedAmount, ActiveBonds, TypeOK, LedgerTypeOK, LockedBond
<1>3. /\ IsFiniteSet(ActiveBonds)
      /\ \A j \in ActiveBonds : LockedAmount[j] \in Nat
      /\ \A j \in ActiveBonds : LockedAmount'[j] \in Nat
  BY <1>2, SumTypes
<1> HIDE DEF LockedAmount, ActiveBonds
<1>4. Total(LockedAmount', ActiveBonds \cup {id}) = Total(LockedAmount', ActiveBonds) + LockedAmount'[id]
  BY <1>1, <1>2, <1>3, TotalAdd
<1>5. Total(LockedAmount', ActiveBonds) = Total(LockedAmount, ActiveBonds)
  BY <1>2, TotalSame
<1>6. Total(LockedAmount, ActiveBonds) \in Nat
  BY <1>3, TotalNat
<1> QED
  BY <1>1, <1>2, <1>4, <1>5, <1>6

\* A settled bond leaves the active ones.
LEMMA BondLeaves ==
  ASSUME TypeOK, NEW id \in MatchIds, lockedBonds[id].active,
         lockedBonds' = [lockedBonds EXCEPT ![id].active = FALSE]
  PROVE  /\ Total(LockedAmount, ActiveBonds) \in Nat
         /\ Total(LockedAmount', ActiveBonds') \in Nat
         /\ Total(LockedAmount, ActiveBonds)
              = Total(LockedAmount', ActiveBonds') + lockedBonds[id].amount
<1>1. ActiveBonds' = ActiveBonds \ {id} /\ id \in ActiveBonds
  BY DEF ActiveBonds, TypeOK, LedgerTypeOK, LockedBond
<1>2. \A j \in MatchIds : LockedAmount'[j] = LockedAmount[j]
  BY DEF LockedAmount, TypeOK, LedgerTypeOK, LockedBond
<1>3. /\ IsFiniteSet(ActiveBonds) /\ ActiveBonds \subseteq MatchIds
      /\ \A j \in ActiveBonds : LockedAmount[j] \in Nat
      /\ LockedAmount[id] = lockedBonds[id].amount
  BY SumTypes DEF ActiveBonds
<1> HIDE DEF LockedAmount, ActiveBonds
<1>4. /\ Total(LockedAmount, ActiveBonds) = Total(LockedAmount, ActiveBonds \ {id}) + LockedAmount[id]
      /\ Total(LockedAmount, ActiveBonds \ {id}) \in Nat
  BY <1>1, <1>3, TotalSplit
<1>5. Total(LockedAmount', ActiveBonds \ {id}) = Total(LockedAmount, ActiveBonds \ {id})
  BY <1>2, <1>3, TotalSame
<1>6. Total(LockedAmount, ActiveBonds) \in Nat
  BY <1>3, TotalNat
<1> QED
  BY <1>1, <1>3, <1>4, <1>5, <1>6

\* What one lock changes, in the terms the invariant uses.
LEMMA LockEffect ==
  ASSUME Inv, NEW mi \in MatchInstruction, NEW sig, NEW value, lock(mi, sig, value), TypeOK'
  PROVE  /\ mi.matchId \in MatchIds /\ mi.taker \in Parties /\ mi.maker \in Parties
         /\ mi.amountFxrp \in Nat /\ BondFor(mi.amountFxrp) \in Nat
         /\ matches[mi.matchId].state = "None"
         /\ matches'[mi.matchId] = NewMatch(mi)
         /\ \A j \in MatchIds \ {mi.matchId} : matches'[j] = matches[j]
         /\ balances'[mi.taker].committed = balances[mi.taker].committed + mi.amountFxrp
         /\ balances'[mi.taker].armed = balances[mi.taker].armed
         /\ balances'[mi.taker].committed <= balances'[mi.taker].armed
         /\ \A p \in Parties \ {mi.taker} : balances'[p] = balances[p]
<1>1. /\ mi.matchId \in MatchIds /\ mi.taker \in Parties /\ mi.maker \in Parties
      /\ mi.amountFxrp \in Nat /\ BondFor(mi.amountFxrp) \in Nat
  BY InstructionTypes, BondForNat
<1>2. /\ matches[mi.matchId].state = "None"
      /\ matches'[mi.matchId] = NewMatch(mi)
      /\ \A j \in MatchIds \ {mi.matchId} : matches'[j] = matches[j]
  BY <1>1 DEF lock, WellFormed, Inv, TypeOK
<1>3. /\ balances'[mi.taker].committed = balances[mi.taker].committed + mi.amountFxrp
      /\ balances'[mi.taker].armed = balances[mi.taker].armed
      /\ \A p \in Parties \ {mi.taker} : balances'[p] = balances[p]
  BY <1>1 DEF lock, Inv, TypeOK, TakerBalance
<1>4. balances[mi.taker].armed - balances[mi.taker].committed >= mi.amountFxrp
  BY DEF lock, Available
<1>5. balances[mi.taker].armed \in Nat /\ balances[mi.taker].committed \in Nat
  BY <1>1 DEF Inv, TypeOK, TakerBalance
<1> QED
  BY <1>1, <1>2, <1>3, <1>4, <1>5

\* A lock commits exactly the amount of the match it opens.
LEMMA LockCommits ==
  ASSUME Inv, NEW mi \in MatchInstruction, NEW sig, NEW value, lock(mi, sig, value), TypeOK'
  PROVE  CommittedIsOpen'
<1> DEFINE id == mi.matchId
           t == mi.taker
<1>1. /\ id \in MatchIds /\ t \in Parties /\ mi.amountFxrp \in Nat
      /\ matches[id].state = "None" /\ matches'[id] = NewMatch(mi)
      /\ \A j \in MatchIds \ {id} : matches'[j] = matches[j]
      /\ balances'[t].committed = balances[t].committed + mi.amountFxrp
      /\ balances'[t].committed <= balances'[t].armed
      /\ \A p \in Parties \ {t} : balances'[p] = balances[p]
  BY LockEffect
<1>2. NewMatch(mi).taker = t /\ NewMatch(mi).state = "Locked" /\ NewMatch(mi).amountFxrp = mi.amountFxrp
  BY DEF NewMatch, MatchWithTag
<1> HIDE DEF id, t
<1>3. /\ OpenOf(t)' = OpenOf(t) \cup {id}
      /\ \A p \in Parties \ {t} : OpenOf(p)' = OpenOf(p)
      /\ \A p \in Parties : id \notin OpenOf(p)
  BY <1>1, <1>2 DEF OpenOf, OpenMatches
<1>4. /\ \A j \in MatchIds : AmountOf'[j] \in Nat /\ AmountOf[j] \in Nat
      /\ \A j \in MatchIds \ {id} : AmountOf'[j] = AmountOf[j]
      /\ AmountOf'[id] = mi.amountFxrp
  BY <1>1, <1>2 DEF AmountOf, Inv, TypeOK, Match
<1>5. \A p \in Parties : OpenOf(p) \subseteq MatchIds /\ IsFiniteSet(OpenOf(p))
  BY SumTypes DEF OpenOf, OpenMatches, Inv
<1>6. \A p \in Parties : Total(AmountOf', OpenOf(p)) = Total(AmountOf, OpenOf(p))
  <2> TAKE p \in Parties
  <2>1. \A j \in OpenOf(p) : AmountOf'[j] = AmountOf[j]
    BY <1>3, <1>4, <1>5
  <2> HIDE DEF AmountOf, OpenOf
  <2> QED
    BY <2>1, TotalSame
<1>7. Total(AmountOf', OpenOf(t) \cup {id}) = Total(AmountOf', OpenOf(t)) + mi.amountFxrp
  <2>1. \A j \in OpenOf(t) : AmountOf'[j] \in Nat
    BY <1>1, <1>4, <1>5
  <2>2. IsFiniteSet(OpenOf(t)) /\ id \notin OpenOf(t) /\ AmountOf'[id] \in Nat
    BY <1>1, <1>3, <1>4, <1>5
  <2>3. AmountOf'[id] = mi.amountFxrp
    BY <1>4
  <2>4. Total(AmountOf', OpenOf(t) \cup {id}) = Total(AmountOf', OpenOf(t)) + AmountOf'[id]
    BY <2>1, <2>2, TotalAdd
  <2> QED
    BY <2>3, <2>4
<1>8. \A p \in Parties : /\ balances[p].committed = Total(AmountOf, OpenOf(p))
                        /\ balances[p].committed <= balances[p].armed
  BY DEF Inv, CommittedIsOpen
<1>9. \A p \in Parties : /\ balances'[p].committed = Total(AmountOf', OpenOf(p)')
                        /\ balances'[p].committed <= balances'[p].armed
  <2> SUFFICES ASSUME NEW p \in Parties
               PROVE  /\ balances'[p].committed = Total(AmountOf', OpenOf(p)')
                      /\ balances'[p].committed <= balances'[p].armed
    OBVIOUS
  <2>1. CASE p = t
    BY <1>1, <1>3, <1>6, <1>7, <1>8, <2>1
  <2>2. CASE p # t
    BY <1>1, <1>3, <1>6, <1>8, <2>2
  <2> QED
    BY <2>1, <2>2
<1> QED
  BY <1>9 DEF CommittedIsOpen

\* A lock moves the bond from free to locked and no token at all.
LEMMA LockBonds ==
  ASSUME Inv, NEW mi \in MatchInstruction, NEW sig, NEW value, lock(mi, sig, value), TypeOK'
  PROVE  EscrowSolvent' /\ LedgerSolvent' /\ BondBacksMatch'
<1> DEFINE id == mi.matchId
           bond == BondFor(mi.amountFxrp)
<1>1. /\ id \in MatchIds /\ mi.taker \in Parties /\ mi.maker \in Parties /\ bond \in Nat
      /\ matches[id].state = "None" /\ matches'[id] = NewMatch(mi)
      /\ \A j \in MatchIds \ {id} : matches'[j] = matches[j]
      /\ balances'[mi.taker].armed = balances[mi.taker].armed
      /\ \A p \in Parties \ {mi.taker} : balances'[p] = balances[p]
  BY LockEffect
<1>2. /\ fxrp' = fxrp
      /\ escrow = EscrowAddr /\ escrow' = escrow
      /\ freeBond' = [freeBond EXCEPT ![mi.maker] = @ - bond]
      /\ lockedBonds' = [lockedBonds EXCEPT ![id] =
                           [maker |-> mi.maker, amount |-> bond, active |-> TRUE]]
  BY DEF lock, lockBond
<1>3. /\ freeBond'[mi.maker] = freeBond[mi.maker] - bond /\ freeBond[mi.maker] \in Nat
      /\ \A p \in Parties \ {mi.maker} : freeBond'[p] = freeBond[p]
      /\ lockedBonds'[id] = [maker |-> mi.maker, amount |-> bond, active |-> TRUE]
      /\ \A j \in MatchIds \ {id} : lockedBonds'[j] = lockedBonds[j]
      /\ ~lockedBonds[id].active
  BY <1>1, <1>2 DEF Inv, TypeOK, LedgerTypeOK, BondBacksMatch, LockedBond
<1>4. NewMatch(mi).taker = mi.taker /\ NewMatch(mi).maker = mi.maker
      /\ NewMatch(mi).state = "Locked" /\ NewMatch(mi).bondAmount = bond
  BY DEF NewMatch, MatchWithTag
<1> HIDE DEF id, bond
<1>5. EscrowSolvent'
  <2>1. \A p \in Parties : Armed'[p] = Armed[p]
    BY <1>1 DEF Armed
  <2>2. Armed' = Armed
    BY <2>1 DEF Armed
  <2> QED
    BY <1>2, <2>2 DEF Inv, EscrowSolvent
<1>6. LedgerSolvent'
  <2>1. /\ Total(freeBond, Parties) \in Nat
        /\ Total(freeBond', Parties)
             = (Total(freeBond, Parties) - freeBond[mi.maker]) + freeBond'[mi.maker]
    BY <1>1, <1>3, FreeBondMoves DEF Inv
  <2>2. /\ Total(LockedAmount, ActiveBonds) \in Nat
        /\ Total(LockedAmount', ActiveBonds') = Total(LockedAmount, ActiveBonds) + bond
    BY <1>1, <1>3, BondJoins DEF Inv
  <2>3. fxrp[LedgerAddr] = Total(freeBond, Parties) + Total(LockedAmount, ActiveBonds)
    BY DEF Inv, LedgerSolvent
  <2>4. fxrp'[LedgerAddr] = Total(freeBond', Parties) + Total(LockedAmount', ActiveBonds')
    BY <1>1, <1>2, <1>3, <2>1, <2>2, <2>3
  <2> QED
    BY <2>4 DEF LedgerSolvent
<1>7. BondBacksMatch'
  BY <1>1, <1>2, <1>3, <1>4 DEF Inv, BondBacksMatch
<1> QED
  BY <1>5, <1>6, <1>7

\* A lock takes a tag above all earlier ones and settles nothing.
LEMMA LockTags ==
  ASSUME Inv, NEW mi \in MatchInstruction, NEW sig, NEW value, lock(mi, sig, value), TypeOK'
  PROVE  TagsFresh' /\ EveryReleasePaid' /\ UsedFundsRelease'
<1> DEFINE id == mi.matchId
<1>1. /\ id \in MatchIds
      /\ matches[id].state = "None" /\ matches'[id] = NewMatch(mi)
      /\ \A j \in MatchIds \ {id} : matches'[j] = matches[j]
  BY LockEffect
<1>2. /\ nextDestinationTag \in Nat /\ nextDestinationTag' = nextDestinationTag + 1
      /\ usedTxId' = usedTxId /\ payments' = payments
  BY DEF lock, worldVars, Inv, TypeOK
<1>3. NewMatch(mi).state = "Locked" /\ NewMatch(mi).destinationTag = nextDestinationTag
  BY DEF NewMatch, MatchWithTag
<1> HIDE DEF id
<1>4. \A j \in MatchIds : matches[j].destinationTag \in Nat
  BY DEF Inv, TypeOK, Match
<1>5. TagsFresh'
  BY <1>1, <1>2, <1>3, <1>4 DEF Inv, TagsFresh
<1>6. /\ ReleasedMatches' = ReleasedMatches
      /\ \A j \in ReleasedMatches : matches'[j] = matches[j]
  BY <1>1, <1>3 DEF ReleasedMatches
<1>7. EveryReleasePaid'
  BY <1>2, <1>6 DEF Inv, EveryReleasePaid
<1>8. UsedFundsRelease'
  BY <1>2, <1>6 DEF Inv, UsedFundsRelease
<1> QED
  BY <1>5, <1>7, <1>8

\* Settling a match, either way, takes its amount out of the taker's counters
\* and out of the escrow, and its id out of the taker's open matches.
LEMMA SettleCommits ==
  ASSUME Inv, TypeOK', NEW id \in MatchIds, NEW s \in MatchState \ {"Locked"},
         matches[id].state = "Locked",
         matches' = [matches EXCEPT ![id].state = s],
         Uncommit(matches[id].taker, matches[id].amountFxrp),
         fxrp'[EscrowAddr] = fxrp[EscrowAddr] - matches[id].amountFxrp
  PROVE  CommittedIsOpen' /\ EscrowSolvent'
<1>1. PICK t \in Parties, a \in Nat : t = matches[id].taker /\ a = matches[id].amountFxrp
  BY DEF Inv, BondBacksMatch, TypeOK, Match
<1>2. /\ balances[t].committed >= a /\ balances[t].armed >= a
      /\ balances'[t].committed = balances[t].committed - a
      /\ balances'[t].armed = balances[t].armed - a
      /\ \A p \in Parties \ {t} : balances'[p] = balances[p]
  BY <1>1, UncommitType DEF Inv
<1>3. /\ balances[t].committed \in Nat /\ balances[t].armed \in Nat
      /\ fxrp[EscrowAddr] \in Nat
  BY <1>1, AccountTypes DEF Inv, TypeOK, TakerBalance, LedgerTypeOK
<1>4. /\ OpenOf(t)' = OpenOf(t) \ {id} /\ id \in OpenOf(t)
      /\ \A p \in Parties \ {t} : OpenOf(p)' = OpenOf(p)
  BY <1>1 DEF OpenOf, OpenMatches, Inv, TypeOK, Match
<1>5. AmountOf' = AmountOf
  <2>1. \A j \in MatchIds : matches'[j].amountFxrp = matches[j].amountFxrp
    BY DEF Inv, TypeOK, Match
  <2> QED
    BY <2>1 DEF AmountOf
<1>6. /\ IsFiniteSet(OpenOf(t)) /\ \A j \in OpenOf(t) : AmountOf[j] \in Nat
      /\ AmountOf[id] = a
  <2>1. OpenOf(t) \subseteq MatchIds
    BY DEF OpenOf, OpenMatches
  <2> QED
    BY <1>1, <2>1, SumTypes DEF Inv
<1>7. /\ Total(AmountOf, OpenOf(t)) = Total(AmountOf, OpenOf(t) \ {id}) + a
      /\ Total(AmountOf, OpenOf(t) \ {id}) \in Nat
  <2> HIDE DEF OpenOf, AmountOf
  <2> QED
    BY <1>4, <1>6, TotalSplit
<1>8. \A p \in Parties : /\ balances[p].committed = Total(AmountOf, OpenOf(p))
                        /\ balances[p].committed <= balances[p].armed
  BY DEF Inv, CommittedIsOpen
<1>9. CommittedIsOpen'
  <2> SUFFICES ASSUME NEW p \in Parties
               PROVE  /\ balances'[p].committed = Total(AmountOf', OpenOf(p)')
                      /\ balances'[p].committed <= balances'[p].armed
    BY DEF CommittedIsOpen
  <2>1. CASE p = t
    <3>1. balances[t].committed = Total(AmountOf, OpenOf(t) \ {id}) + a
          /\ balances[t].committed <= balances[t].armed
      BY <1>7, <1>8
    <3>2. balances'[t].committed = Total(AmountOf, OpenOf(t) \ {id})
          /\ balances'[t].committed <= balances'[t].armed
      BY <1>1, <1>2, <1>3, <1>7, <3>1
    <3>3. Total(AmountOf', OpenOf(t)') = Total(AmountOf, OpenOf(t) \ {id})
      BY <1>4, <1>5
    <3> QED
      BY <2>1, <3>2, <3>3
  <2>2. CASE p # t
    BY <1>2, <1>4, <1>5, <1>8, <2>2
  <2> QED
    BY <2>1, <2>2
<1>10. EscrowSolvent'
  <2>1. /\ Total(Armed, Parties) \in Nat
        /\ Total(Armed', Parties) = (Total(Armed, Parties) - balances[t].armed) + balances'[t].armed
    BY <1>1, <1>2, ArmedMoves DEF Inv
  <2>2. fxrp'[EscrowAddr] = fxrp[EscrowAddr] - a
    BY <1>1
  <2>3. fxrp[EscrowAddr] = Total(Armed, Parties)
    BY DEF Inv, EscrowSolvent
  <2>4. fxrp'[EscrowAddr] = Total(Armed', Parties)
    BY <1>1, <1>2, <1>3, <2>1, <2>2, <2>3
  <2> QED
    BY <2>4 DEF EscrowSolvent
<1> QED
  BY <1>9, <1>10

\* The bond that leaves goes to its maker's free bond, or out of the ledger.
LEMMA SettleBonds ==
  ASSUME Inv, TypeOK', NEW id \in MatchIds, NEW s \in MatchState \ {"Locked"},
         matches[id].state = "Locked",
         matches' = [matches EXCEPT ![id].state = s],
         escrow' = escrow,
         lockedBonds' = [lockedBonds EXCEPT ![id].active = FALSE],
         \/ /\ freeBond' = [freeBond EXCEPT ![lockedBonds[id].maker] = @ + lockedBonds[id].amount]
            /\ fxrp'[LedgerAddr] = fxrp[LedgerAddr]
         \/ /\ freeBond' = freeBond
            /\ fxrp'[LedgerAddr] = fxrp[LedgerAddr] - lockedBonds[id].amount
  PROVE  LedgerSolvent' /\ BondBacksMatch'
<1> DEFINE m == lockedBonds[id].maker
           b == lockedBonds[id].amount
<1>1. /\ lockedBonds[id].active /\ m \in Parties /\ b \in Nat
      /\ fxrp[LedgerAddr] \in Nat
  BY AccountTypes DEF Inv, BondBacksMatch, TypeOK, LedgerTypeOK, LockedBond
<1>2. /\ Total(LockedAmount, ActiveBonds) \in Nat
      /\ Total(LockedAmount', ActiveBonds') \in Nat
      /\ Total(LockedAmount, ActiveBonds) = Total(LockedAmount', ActiveBonds') + b
  BY <1>1, BondLeaves DEF Inv
<1>3. fxrp[LedgerAddr] = Total(freeBond, Parties) + Total(LockedAmount, ActiveBonds)
  BY DEF Inv, LedgerSolvent
<1>4. Total(freeBond, Parties) \in Nat
  BY SumTypes, TotalNat DEF Inv
<1>5. fxrp'[LedgerAddr] = Total(freeBond', Parties) + Total(LockedAmount', ActiveBonds')
  <2>1. CASE freeBond' = [freeBond EXCEPT ![m] = @ + b] /\ fxrp'[LedgerAddr] = fxrp[LedgerAddr]
    <3>1. /\ freeBond'[m] = freeBond[m] + b /\ freeBond[m] \in Nat
          /\ \A p \in Parties \ {m} : freeBond'[p] = freeBond[p]
      BY <1>1, <2>1 DEF Inv, TypeOK, LedgerTypeOK
    <3>2. Total(freeBond', Parties) = (Total(freeBond, Parties) - freeBond[m]) + freeBond'[m]
      BY <1>1, <3>1, FreeBondMoves DEF Inv
    <3> QED
      BY <1>1, <1>2, <1>3, <1>4, <2>1, <3>1, <3>2
  <2>2. CASE freeBond' = freeBond /\ fxrp'[LedgerAddr] = fxrp[LedgerAddr] - b
    BY <1>1, <1>2, <1>3, <1>4, <2>2
  <2> QED
    BY <2>1, <2>2
<1>6. LedgerSolvent'
  BY <1>5 DEF LedgerSolvent
<1>7. BondBacksMatch'
  BY DEF Inv, BondBacksMatch, TypeOK, Match, LedgerTypeOK, LockedBond
<1> QED
  BY <1>6, <1>7

\* Settling changes no tag.
LEMMA SettleTags ==
  ASSUME Inv, NEW id \in MatchIds, NEW s \in MatchState, matches[id].state = "Locked",
         matches' = [matches EXCEPT ![id].state = s],
         nextDestinationTag' = nextDestinationTag
  PROVE  TagsFresh'
<1>1. \A j \in MatchIds : /\ matches'[j].destinationTag = matches[j].destinationTag
                         /\ matches'[j].state # "None" => matches[j].state # "None"
  BY DEF Inv, TypeOK, Match
<1> QED
  BY <1>1 DEF Inv, TagsFresh

\* The terms of a match that PaysFor reads survive a change of its state.
LEMMA SettleTerms ==
  ASSUME Inv, NEW id \in MatchIds, NEW s \in MatchState,
         matches' = [matches EXCEPT ![id].state = s],
         NEW p, NEW j \in MatchIds
  PROVE  PaysFor(p, matches'[j]) <=> PaysFor(p, matches[j])
<1>1. /\ matches'[j].takerXrplAddress = matches[j].takerXrplAddress
      /\ matches'[j].destinationTag = matches[j].destinationTag
      /\ matches'[j].xrpDrops = matches[j].xrpDrops
      /\ matches'[j].lockedAt = matches[j].lockedAt
      /\ matches'[j].paymentDeadline = matches[j].paymentDeadline
  BY DEF Inv, TypeOK, Match
<1> QED
  BY <1>1 DEF PaysFor

\* A release adds the payment it consumed to those already matched up.
LEMMA ReleasePaid ==
  ASSUME Inv, NEW id \in MatchIds, NEW tx \in TxIds, NEW o, release(id, tx, o),
         payments[tx].made
  PROVE  EveryReleasePaid' /\ UsedFundsRelease'
<1>1. /\ matches' = [matches EXCEPT ![id].state = "Released"]
      /\ matches[id].state = "Locked"
      /\ usedTxId' = usedTxId \cup {tx} /\ tx \notin usedTxId
      /\ payments' = payments
      /\ PaysFor(payments[tx], matches[id])
  BY DEF release, ProofAccepted, worldVars
<1>2. /\ ReleasedMatches' = ReleasedMatches \cup {id} /\ id \notin ReleasedMatches
      /\ ReleasedMatches \subseteq MatchIds
  BY <1>1 DEF ReleasedMatches, Inv, TypeOK, Match
<1>3. \A p : \A j \in MatchIds : PaysFor(p, matches'[j]) <=> PaysFor(p, matches[j])
  BY <1>1, SettleTerms DEF MatchState
<1>4. EveryReleasePaid'
  <2>1. PICK f \in [ReleasedMatches -> usedTxId] :
          /\ \A i, j \in ReleasedMatches : f[i] = f[j] => i = j
          /\ \A i \in ReleasedMatches : PaysFor(payments[f[i]], matches[i])
    BY DEF Inv, EveryReleasePaid
  <2> DEFINE g == [i \in ReleasedMatches \cup {id} |-> IF i = id THEN tx ELSE f[i]]
  <2>2. g \in [ReleasedMatches \cup {id} -> usedTxId \cup {tx}]
    OBVIOUS
  <2>3. \A i, j \in ReleasedMatches \cup {id} : g[i] = g[j] => i = j
    BY <1>1, <1>2, <2>1
  <2>4. \A i \in ReleasedMatches \cup {id} : PaysFor(payments[g[i]], matches[i])
    BY <1>1, <1>2, <2>1
  <2> HIDE DEF g
  <2>5. \A i \in ReleasedMatches \cup {id} : PaysFor(payments'[g[i]], matches'[i])
    BY <1>1, <1>2, <1>3, <2>4
  <2> QED
    BY <1>1, <1>2, <2>2, <2>3, <2>5 DEF EveryReleasePaid
<1>5. UsedFundsRelease'
  <2> SUFFICES ASSUME NEW x \in usedTxId'
               PROVE  /\ payments'[x].made
                      /\ \E j \in ReleasedMatches' : PaysFor(payments'[x], matches'[j])
    BY DEF UsedFundsRelease
  <2>1. CASE x = tx
    BY <1>1, <1>2, <1>3, <2>1
  <2>2. CASE x \in usedTxId
    BY <1>1, <1>2, <1>3, <2>2 DEF Inv, UsedFundsRelease
  <2> QED
    BY <1>1, <2>1, <2>2
<1> QED
  BY <1>4, <1>5

\* A refund releases nothing, so the matching of payments stands.
LEMMA RefundPaid ==
  ASSUME Inv, NEW id \in MatchIds, refund(id)
  PROVE  EveryReleasePaid' /\ UsedFundsRelease'
<1>1. /\ matches' = [matches EXCEPT ![id].state = "Refunded"]
      /\ matches[id].state = "Locked"
      /\ usedTxId' = usedTxId /\ payments' = payments
  BY DEF refund, worldVars
<1>2. /\ ReleasedMatches' = ReleasedMatches
      /\ ReleasedMatches \subseteq MatchIds
  BY <1>1 DEF ReleasedMatches, Inv, TypeOK, Match
<1>3. \A p : \A j \in MatchIds : PaysFor(p, matches'[j]) <=> PaysFor(p, matches[j])
  BY <1>1, SettleTerms DEF MatchState
<1>4. EveryReleasePaid'
  BY <1>1, <1>2, <1>3 DEF Inv, EveryReleasePaid
<1>5. UsedFundsRelease'
  BY <1>1, <1>2, <1>3 DEF Inv, UsedFundsRelease
<1> QED
  BY <1>4, <1>5

\* A new payment is a transaction id nobody has used yet.
LEMMA XrplPayPaid ==
  ASSUME Inv, NEW tx \in TxIds, NEW form, NEW ts, XrplPay(tx, form, ts)
  PROVE  EveryReleasePaid' /\ UsedFundsRelease'
<1>1. /\ matches' = matches /\ usedTxId' = usedTxId /\ tx \notin usedTxId
      /\ \A x \in TxIds \ {tx} : payments'[x] = payments[x]
  BY DEF XrplPay, escrowVars, Inv, TypeOK, UsedFundsRelease
<1>2. \A x \in usedTxId : payments'[x] = payments[x]
  BY <1>1 DEF Inv, TypeOK
<1>3. ReleasedMatches' = ReleasedMatches
  BY <1>1 DEF ReleasedMatches
<1>4. EveryReleasePaid'
  <2>1. PICK f \in [ReleasedMatches -> usedTxId] :
          /\ \A i, j \in ReleasedMatches : f[i] = f[j] => i = j
          /\ \A i \in ReleasedMatches : PaysFor(payments[f[i]], matches[i])
    BY DEF Inv, EveryReleasePaid
  <2>2. \A i \in ReleasedMatches : PaysFor(payments'[f[i]], matches'[i])
    BY <1>1, <1>2, <2>1
  <2> QED
    BY <1>1, <1>3, <2>1, <2>2 DEF EveryReleasePaid
<1>5. UsedFundsRelease'
  BY <1>1, <1>2, <1>3 DEF Inv, UsedFundsRelease
<1> QED
  BY <1>4, <1>5

-----------------------------------------------------------------------------
(***************************************************************************)
(* The invariant holds initially, and every action keeps it.               *)
(***************************************************************************)
\* Before the first deposit every sum is zero and nothing is locked.
LEMMA InitTypes == Init => TypeOK
<1> SUFFICES ASSUME Init PROVE TypeOK
  OBVIOUS
<1>1. fxrp \in [Accounts -> Nat]
  BY EscrowAssumption DEF Init, Accounts
<1>2. LedgerTypeOK
  BY <1>1, LedgerAssumption
     DEF Init, LedgerInit, LedgerTypeOK, LockedBond, NoBond
<1>3. matches \in [MatchIds -> Match] /\ balances \in [Parties -> TakerBalance]
  BY DEF Init, Match, NoMatch, MatchState, TakerBalance
<1>4. payments \in [TxIds -> Payment] /\ oracle \in [mid : Nat, ts : Nat]
  BY EscrowAssumption DEF Init, Payment, NoPayment, PaymentForm
<1> QED
  BY <1>2, <1>3, <1>4 DEF Init, TypeOK

LEMMA InitInv == Init => Inv
<1> SUFFICES ASSUME Init PROVE Inv
  OBVIOUS
<1>1. TypeOK
  BY InitTypes
<1>2. /\ OpenMatches = {} /\ ReleasedMatches = {} /\ ActiveBonds = {}
      /\ usedTxId = {}
  BY DEF Init, LedgerInit, OpenMatches, ReleasedMatches, ActiveBonds, NoMatch, NoBond
<1>3. \A t \in Parties : OpenOf(t) = {}
  BY <1>2 DEF OpenOf
<1>4. fxrp[EscrowAddr] = 0 /\ fxrp[LedgerAddr] = 0
  BY LedgerAssumption DEF Init, Accounts
<1>5. CommittedIsOpen
  <2>1. \A t \in Parties : balances[t].committed = 0 /\ balances[t].armed = 0
    BY DEF Init
  <2> QED
    BY <1>3, <2>1, TotalEmpty DEF CommittedIsOpen
<1>6. EscrowSolvent
  <2>1. \A t \in Parties : Armed[t] = 0
    BY DEF Init, Armed
  <2> QED
    BY <1>4, <2>1, TotalZero DEF EscrowSolvent
<1>7. LedgerSolvent
  <2>1. \A t \in Parties : freeBond[t] = 0
    BY DEF Init, LedgerInit
  <2>2. Total(freeBond, Parties) = 0 /\ Total(LockedAmount, ActiveBonds) = 0
    BY <1>2, <2>1, TotalZero, TotalEmpty
  <2> QED
    BY <1>4, <2>2 DEF LedgerSolvent
<1>8. BondBacksMatch
  BY DEF Init, LedgerInit, BondBacksMatch, NoMatch, NoBond
<1>9. TagsFresh
  BY DEF Init, TagsFresh, NoMatch
<1>10. EveryReleasePaid
  <2>1. [i \in {} |-> i] \in [ReleasedMatches -> usedTxId]
    BY <1>2
  <2> QED
    BY <1>2, <2>1 DEF EveryReleasePaid
<1>11. UsedFundsRelease
  BY <1>2 DEF UsedFundsRelease
<1> QED
  BY <1>1, <1>5, <1>6, <1>7, <1>8, <1>9, <1>10, <1>11 DEF Inv

\* A release: its principal leaves the escrow, its bond goes back to the maker.
LEMMA ReleaseInv ==
  ASSUME Inv, NEW id \in MatchIds, NEW tx \in TxIds, NEW o, release(id, tx, o)
  PROVE  Inv'
<1>1. TypeOK'
  BY ReleaseTypes DEF Inv
<1>2. /\ matches[id].state = "Locked"
      /\ matches' = [matches EXCEPT ![id].state = "Released"]
      /\ Uncommit(matches[id].taker, matches[id].amountFxrp)
      /\ nextDestinationTag' = nextDestinationTag
      /\ payments[tx].made
  BY DEF release, ProofAccepted, Inv, TypeOK
<1>3. /\ escrow' = escrow
      /\ lockedBonds' = [lockedBonds EXCEPT ![id].active = FALSE]
      /\ freeBond' = [freeBond EXCEPT ![lockedBonds[id].maker] = @ + lockedBonds[id].amount]
  BY DEF release, ProofAccepted, releaseBond
<1>4. /\ fxrp'[EscrowAddr] = fxrp[EscrowAddr] - matches[id].amountFxrp
      /\ fxrp'[LedgerAddr] = fxrp[LedgerAddr]
  <2>1. /\ matches[id].maker \in Parties /\ matches[id].amountFxrp \in Nat
        /\ fxrp \in [Accounts -> Nat]
        /\ matches[id].amountFxrp <= fxrp[EscrowAddr]
        /\ fxrp' = Moved(fxrp, EscrowAddr, matches[id].maker, matches[id].amountFxrp)
    BY <1>2, AccountTypes
       DEF release, ProofAccepted, CanPay, Inv, BondBacksMatch, TypeOK, Match, LedgerTypeOK
  <2> QED
    BY <2>1, MovedType, AccountTypes
<1>5. CommittedIsOpen' /\ EscrowSolvent'
  BY <1>1, <1>2, <1>4, SettleCommits DEF MatchState
<1>6. LedgerSolvent' /\ BondBacksMatch'
  BY <1>1, <1>2, <1>3, <1>4, SettleBonds DEF MatchState
<1>7. TagsFresh'
  BY <1>2, SettleTags DEF MatchState
<1>8. EveryReleasePaid' /\ UsedFundsRelease'
  BY <1>2, ReleasePaid
<1> QED
  BY <1>1, <1>5, <1>6, <1>7, <1>8 DEF Inv

\* A refund: principal and bond leave the two contracts for the taker.
LEMMA RefundInv ==
  ASSUME Inv, NEW id \in MatchIds, refund(id)
  PROVE  Inv'
<1>1. TypeOK'
  BY RefundTypes DEF Inv
<1>2. /\ matches[id].state = "Locked"
      /\ matches' = [matches EXCEPT ![id].state = "Refunded"]
      /\ Uncommit(matches[id].taker, matches[id].amountFxrp)
      /\ nextDestinationTag' = nextDestinationTag
  BY DEF refund
<1>3. /\ escrow' = escrow
      /\ lockedBonds' = [lockedBonds EXCEPT ![id].active = FALSE]
      /\ freeBond' = freeBond
  BY DEF refund, slashBond
<1>4. /\ fxrp'[EscrowAddr] = fxrp[EscrowAddr] - matches[id].amountFxrp
      /\ fxrp'[LedgerAddr] = fxrp[LedgerAddr] - lockedBonds[id].amount
  <2>1. /\ matches[id].taker \in Parties /\ matches[id].amountFxrp \in Nat
        /\ lockedBonds[id].amount \in Nat
        /\ CanPay(LedgerAddr, lockedBonds[id].amount)
        /\ CanPay(EscrowAddr, matches[id].amountFxrp)
        /\ fxrp' = Moved(Moved(fxrp, LedgerAddr, matches[id].taker, lockedBonds[id].amount),
                         EscrowAddr, matches[id].taker, matches[id].amountFxrp)
    BY <1>2 DEF refund, slashBond, Inv, BondBacksMatch, TypeOK, Match, LedgerTypeOK, LockedBond
  <2> QED
    BY <2>1, RefundMoves DEF Inv
<1>5. CommittedIsOpen' /\ EscrowSolvent'
  BY <1>1, <1>2, <1>4, SettleCommits DEF MatchState
<1>6. LedgerSolvent' /\ BondBacksMatch'
  BY <1>1, <1>2, <1>3, <1>4, SettleBonds DEF MatchState
<1>7. TagsFresh'
  BY <1>2, SettleTags DEF MatchState
<1>8. EveryReleasePaid' /\ UsedFundsRelease'
  BY RefundPaid
<1> QED
  BY <1>1, <1>5, <1>6, <1>7, <1>8 DEF Inv

\* The owner touches no balance and no match.
LEMMA OwnerInv == Inv /\ OwnerStep => Inv'
<1> SUFFICES ASSUME Inv, OwnerStep PROVE Inv'
  OBVIOUS
<1>1. TypeOK'
  BY OwnerTypes DEF Inv
<1>2. /\ UNCHANGED <<fxrp, freeBond, lockedBonds, balances, matches>>
      /\ UNCHANGED <<nextDestinationTag, usedTxId, payments>>
      /\ escrow' = escrow \/ escrow' = EscrowAddr
  BY DEF OwnerStep, setTeeSigner, setFeeTreasury, setLockPaused, setEscrow, Unescrowed,
         ledgerVars, escrowVars, worldVars
<1>3. CommittedIsOpen' /\ EscrowSolvent' /\ LedgerSolvent' /\ BondBacksMatch'
  BY <1>2, AccountingUnchanged
<1>4. TagsFresh' /\ EveryReleasePaid' /\ UsedFundsRelease'
  BY <1>2, MatchesUnchanged
<1> QED
  BY <1>1, <1>3, <1>4 DEF Inv

\* Nor does the world outside, which only adds payments and proofs of them.
LEMMA WorldInv == Inv /\ AnyWorld => Inv'
<1> SUFFICES ASSUME Inv, AnyWorld PROVE Inv'
  OBVIOUS
<1>1. TypeOK'
  BY WorldTypes DEF Inv
<1>2. /\ UNCHANGED <<fxrp, freeBond, lockedBonds, escrow, balances, matches>>
      /\ UNCHANGED <<nextDestinationTag, usedTxId>>
  BY DEF AnyWorld, Tick, OracleUpdate, XrplPay, FdcAttest, ledgerVars, escrowVars
<1>3. CommittedIsOpen' /\ EscrowSolvent' /\ LedgerSolvent' /\ BondBacksMatch'
  BY <1>2, AccountingUnchanged
<1>4. TagsFresh'
  BY <1>2 DEF Inv, TagsFresh
<1>5. EveryReleasePaid' /\ UsedFundsRelease'
  <2>1. CASE \E tx \in TxIds, form \in PaymentForm, ts \in Nat : XrplPay(tx, form, ts)
    BY <2>1, XrplPayPaid
  <2>2. CASE payments' = payments
    BY <1>2, <2>2, MatchesUnchanged
  <2> QED
    BY <2>1, <2>2 DEF AnyWorld, Tick, OracleUpdate, FdcAttest, worldVars
<1> QED
  BY <1>1, <1>3, <1>4, <1>5 DEF Inv

\* Every step keeps the invariant, whatever the inputs.
LEMMA AnyInv == Inv /\ (AnyNext \/ UNCHANGED vars) => Inv'
<1> SUFFICES ASSUME Inv, AnyNext \/ UNCHANGED vars PROVE Inv'
  OBVIOUS
<1>1. CASE AnyTaker
  <2>1. TypeOK'
    BY <1>1, TakerTypes DEF Inv
  <2>2. PICK t \in Parties, a \in Nat :
          (\E u \in Nat : deposit(t, a, u)) \/ withdraw(t, a)
    BY <1>1 DEF AnyTaker
  <2>4. CommittedIsOpen' /\ EscrowSolvent' /\ LedgerSolvent' /\ BondBacksMatch'
    BY <2>1, <2>2, DepositInv, WithdrawInv
  <2>5. UNCHANGED <<matches, nextDestinationTag, usedTxId, payments>>
    BY <2>2 DEF deposit, withdraw, worldVars
  <2> QED
    BY <2>1, <2>4, <2>5, MatchesUnchanged DEF Inv
<1>2. CASE AnyMaker
  <2>1. TypeOK'
    BY <1>2, MakerTypes DEF Inv
  <2>2. PICK m \in Parties, a \in Nat :
          (depositBond(m, a) \/ withdrawBond(m, a)) /\ Unescrowed
    BY <1>2 DEF AnyMaker
  <2>4. CommittedIsOpen' /\ EscrowSolvent' /\ LedgerSolvent' /\ BondBacksMatch'
    BY <2>1, <2>2, MakerInv
  <2>5. UNCHANGED <<matches, nextDestinationTag, usedTxId, payments>>
    BY <2>2 DEF Unescrowed, escrowVars, worldVars
  <2> QED
    BY <2>1, <2>4, <2>5, MatchesUnchanged DEF Inv
<1>3. CASE AnyLock
  <2>1. PICK mi \in MatchInstruction, sig \in Signers \cup {Nobody, Malformed},
             value \in Nat : lock(mi, sig, value)
    BY <1>3 DEF AnyLock
  <2>2. TypeOK'
    BY <2>1, LockTypes DEF Inv
  <2> QED
    BY <2>1, <2>2, LockCommits, LockBonds, LockTags DEF Inv
<1>4. CASE ReleaseStep
  BY <1>4, ReleaseInv DEF ReleaseStep
<1>5. CASE RefundStep
  BY <1>5, RefundInv DEF RefundStep
<1>6. CASE OwnerStep
  BY <1>6, OwnerInv
<1>7. CASE AnyWorld
  BY <1>7, WorldInv
<1>8. CASE UNCHANGED vars
  <2>1. /\ UNCHANGED <<fxrp, freeBond, lockedBonds, escrow, balances, matches>>
        /\ UNCHANGED <<nextDestinationTag, usedTxId, payments>>
        /\ UNCHANGED <<now, adminVars, worldVars>>
    BY <1>8 DEF vars, ledgerVars, escrowVars, worldVars
  <2>2. TypeOK'
    BY <2>1 DEF Inv, TypeOK, LedgerTypeOK, adminVars, worldVars
  <2> QED
    BY <2>1, <2>2, AccountingUnchanged, MatchesUnchanged DEF Inv
<1> QED
  BY <1>1, <1>2, <1>3, <1>4, <1>5, <1>6, <1>7, <1>8 DEF AnyNext

\* So does every step of the specification.
LEMMA InvStep == Inv /\ [Next]_vars => Inv'
BY NextIsAny, AnyInv DEF Inv

-----------------------------------------------------------------------------
(***************************************************************************)
(* Deadlines.  PAYMENT_WINDOW and SETTLEMENT_WINDOW are read once, at lock,*)
(* so what separates the two times of a match never changes.               *)
(***************************************************************************)
DeadlinesApart ==
  \A id \in MatchIds : matches[id].state # "None" =>
    matches[id].refundAfter = matches[id].paymentDeadline + ATTESTATION_BUDGET

\* Only lock writes the two times.
LEMMA DeadlinesStep == Inv /\ DeadlinesApart /\ (AnyNext \/ UNCHANGED vars) => DeadlinesApart'
<1> SUFFICES ASSUME Inv, DeadlinesApart, AnyNext \/ UNCHANGED vars PROVE DeadlinesApart'
  OBVIOUS
<1>1. CASE AnyLock
  <2>1. PICK mi \in MatchInstruction, sig \in Signers \cup {Nobody, Malformed},
             value \in Nat : lock(mi, sig, value)
    BY <1>1 DEF AnyLock
  <2>2. matches' = [matches EXCEPT ![mi.matchId] = NewMatch(mi)]
    BY <2>1 DEF lock
  <2>3. /\ SETTLEMENT_WINDOW \in Nat /\ ATTESTATION_BUDGET \in Nat /\ now \in Nat
        /\ matches \in [MatchIds -> Match]
    BY EscrowAssumption DEF Inv, TypeOK
  <2>4. NewMatch(mi).refundAfter = NewMatch(mi).paymentDeadline + ATTESTATION_BUDGET
    BY <2>3 DEF NewMatch, MatchWithTag, PAYMENT_WINDOW
  <2> QED
    BY <2>2, <2>3, <2>4 DEF DeadlinesApart
<1>2. CASE ReleaseStep
  <2>1. PICK id \in MatchIds : /\ matches[id].state = "Locked"
                              /\ matches' = [matches EXCEPT ![id].state = "Released"]
    BY <1>2 DEF ReleaseStep, release, ProofAccepted
  <2> QED
    BY <2>1 DEF DeadlinesApart, Inv, TypeOK, Match
<1>3. CASE RefundStep
  <2>1. PICK id \in MatchIds : /\ matches[id].state = "Locked"
                              /\ matches' = [matches EXCEPT ![id].state = "Refunded"]
    BY <1>3 DEF RefundStep, refund
  <2> QED
    BY <2>1 DEF DeadlinesApart, Inv, TypeOK, Match
<1>4. CASE matches' = matches
  BY <1>4 DEF DeadlinesApart
<1>5. AnyTaker \/ AnyMaker \/ OwnerStep \/ AnyWorld \/ UNCHANGED vars => matches' = matches
  BY DEF AnyTaker, deposit, withdraw, AnyMaker, Unescrowed, OwnerStep, setTeeSigner,
         setFeeTreasury, setLockPaused, AnyWorld, Tick, OracleUpdate, XrplPay, FdcAttest,
         escrowVars, vars
<1> QED
  BY <1>1, <1>2, <1>3, <1>4, <1>5 DEF AnyNext

\* HonestMakerHasTime of one step.
NoHastyRefund ==
  \A id \in MatchIds, tx \in TxIds :
    /\ matches[id].state = "Locked"
    /\ matches'[id].state = "Refunded"
    /\ payments[tx].made
    /\ PaysFor(payments[tx], matches[id])
    => now > payments[tx].blockTimestamp + ATTESTATION_BUDGET + REFUND_GRACE

\* A refund comes after the grace that follows the deadline, and a payment that
\* satisfies the match was made before the deadline.
LEMMA HonestMakerStep ==
  ASSUME Inv, DeadlinesApart, AnyNext, NEW id \in MatchIds, NEW tx \in TxIds,
         matches[id].state = "Locked", matches'[id].state = "Refunded",
         PaysFor(payments[tx], matches[id])
  PROVE  now > payments[tx].blockTimestamp + ATTESTATION_BUDGET + REFUND_GRACE
<1>1. matches \in [MatchIds -> Match]
  BY DEF Inv, TypeOK
<1>2. refund(id)
  <2>1. CASE AnyLock
    <3>1. PICK mi \in MatchInstruction, sig \in Signers \cup {Nobody, Malformed},
               value \in Nat : lock(mi, sig, value)
      BY <2>1 DEF AnyLock
    <3>2. matches' = [matches EXCEPT ![mi.matchId] = NewMatch(mi)]
          /\ matches[mi.matchId].state = "None"
      BY <3>1 DEF lock, WellFormed
    <3> QED
      BY <1>1, <3>2
  <2>2. CASE ReleaseStep
    <3>1. PICK j \in MatchIds : matches' = [matches EXCEPT ![j].state = "Released"]
      BY <2>2 DEF ReleaseStep, release, ProofAccepted
    <3> QED
      BY <1>1, <3>1 DEF Match
  <2>3. CASE RefundStep
    <3>1. PICK j \in MatchIds : refund(j)
      BY <2>3 DEF RefundStep
    <3>2. matches' = [matches EXCEPT ![j].state = "Refunded"]
      BY <3>1 DEF refund
    <3>3. j = id
      BY <1>1, <3>2 DEF Match
    <3> QED
      BY <3>1, <3>3
  <2>4. AnyTaker \/ AnyMaker \/ OwnerStep \/ AnyWorld \/ UNCHANGED vars => matches' = matches
    BY DEF AnyTaker, deposit, withdraw, AnyMaker, Unescrowed, OwnerStep, setTeeSigner,
           setFeeTreasury, setLockPaused, AnyWorld, Tick, OracleUpdate, XrplPay, FdcAttest,
           escrowVars, vars
  <2> QED
    BY <2>1, <2>2, <2>3, <2>4 DEF AnyNext
<1>3. /\ now > matches[id].refundAfter + REFUND_GRACE
      /\ payments[tx].blockTimestamp <= matches[id].paymentDeadline
      /\ matches[id].refundAfter = matches[id].paymentDeadline + ATTESTATION_BUDGET
  BY <1>2 DEF refund, PaysFor, DeadlinesApart
<1>4. /\ matches[id].paymentDeadline \in Nat /\ payments[tx].blockTimestamp \in Nat
      /\ now \in Nat /\ ATTESTATION_BUDGET \in Nat /\ REFUND_GRACE \in Nat
  BY <1>1, EscrowAssumption DEF Inv, TypeOK, Match, Payment
<1> QED
  BY <1>3, <1>4

-----------------------------------------------------------------------------
(***************************************************************************)
(* Settlement can always go ahead.                                         *)
(***************************************************************************)
\* The principal of an open match is covered by the taker's counters, those by
\* the escrow's tokens, and its bond by the ledger's; a payment under its tag
\* cannot have funded another match.
LEMMA InvUnblocks == Inv => SettlementUnblocked
<1> SUFFICES ASSUME Inv, NEW id \in OpenMatches
             PROVE  /\ \A tx \in TxIds :
                         payments[tx].made /\ PaysFor(payments[tx], matches[id]) => tx \notin usedTxId
                    /\ CanPay(EscrowAddr, matches[id].amountFxrp)
                    /\ CanPay(LedgerAddr, lockedBonds[id].amount)
                    /\ matches[id].amountFxrp <= balances[matches[id].taker].committed
                    /\ matches[id].amountFxrp <= balances[matches[id].taker].armed
                    /\ lockedBonds[id].active
  BY DEF SettlementUnblocked
<1>1. id \in MatchIds /\ matches[id].state = "Locked" /\ lockedBonds[id].active
  BY DEF OpenMatches, Inv, BondBacksMatch
<1>2. PICK t \in Parties, a \in Nat : t = matches[id].taker /\ a = matches[id].amountFxrp
  BY <1>1 DEF Inv, BondBacksMatch, TypeOK, Match
<1>3. ASSUME NEW tx \in TxIds, PaysFor(payments[tx], matches[id]), tx \in usedTxId
      PROVE  FALSE
  <2>1. PICK j \in ReleasedMatches : PaysFor(payments[tx], matches[j])
    BY <1>3 DEF Inv, UsedFundsRelease
  <2>2. matches[j].destinationTag = matches[id].destinationTag
    BY <1>3, <2>1 DEF PaysFor
  <2>3. j \in MatchIds /\ matches[j].state = "Released"
    BY DEF ReleasedMatches
  <2> QED
    BY <1>1, <2>2, <2>3 DEF Inv, TagsFresh
<1>4. a <= balances[t].committed /\ a <= balances[t].armed
  <2>1. /\ id \in OpenOf(t) /\ IsFiniteSet(OpenOf(t)) /\ AmountOf[id] = a
        /\ \A j \in OpenOf(t) : AmountOf[j] \in Nat
    BY <1>1, <1>2, SumTypes DEF Inv, OpenOf, OpenMatches
  <2>2. /\ balances[t].committed = Total(AmountOf, OpenOf(t))
        /\ balances[t].committed <= balances[t].armed
        /\ balances[t].armed \in Nat
    BY <1>2 DEF Inv, CommittedIsOpen, TypeOK, TakerBalance
  <2> HIDE DEF OpenOf, AmountOf
  <2>3. /\ Total(AmountOf, OpenOf(t)) = Total(AmountOf, OpenOf(t) \ {id}) + a
        /\ Total(AmountOf, OpenOf(t) \ {id}) \in Nat
    BY <2>1, TotalSplit
  <2> QED
    BY <2>2, <2>3
<1>5. CanPay(EscrowAddr, a)
  <2>1. IsFiniteSet(Parties) /\ Armed[t] = balances[t].armed
        /\ \A p \in Parties : Armed[p] \in Nat
    BY <1>2, SumTypes DEF Inv
  <2>2. fxrp[EscrowAddr] = Total(Armed, Parties)
    BY DEF Inv, EscrowSolvent
  <2> HIDE DEF Armed
  <2>3. /\ Total(Armed, Parties) = Total(Armed, Parties \ {t}) + Armed[t]
        /\ Total(Armed, Parties \ {t}) \in Nat
    BY <2>1, TotalSplit
  <2> QED
    BY <1>2, <1>4, <2>1, <2>2, <2>3 DEF CanPay
<1>6. CanPay(LedgerAddr, lockedBonds[id].amount)
  <2>1. /\ IsFiniteSet(ActiveBonds) /\ id \in ActiveBonds
        /\ LockedAmount[id] = lockedBonds[id].amount /\ LockedAmount[id] \in Nat
        /\ \A j \in ActiveBonds : LockedAmount[j] \in Nat
    BY <1>1, SumTypes DEF Inv, ActiveBonds
  <2>2. fxrp[LedgerAddr] = Total(freeBond, Parties) + Total(LockedAmount, ActiveBonds)
    BY DEF Inv, LedgerSolvent
  <2>3. Total(freeBond, Parties) \in Nat
    BY SumTypes, TotalNat DEF Inv
  <2> HIDE DEF LockedAmount, ActiveBonds
  <2>4. /\ Total(LockedAmount, ActiveBonds) = Total(LockedAmount, ActiveBonds \ {id}) + LockedAmount[id]
        /\ Total(LockedAmount, ActiveBonds \ {id}) \in Nat
    BY <2>1, TotalSplit
  <2> QED
    BY <2>1, <2>2, <2>3, <2>4 DEF CanPay
<1> QED
  BY <1>1, <1>2, <1>3, <1>4, <1>5, <1>6

-----------------------------------------------------------------------------
(***************************************************************************)
(* The theorems.                                                           *)
(***************************************************************************)
\* The invariant holds in every reachable state.
THEOREM InvAlways == Spec => []Inv
BY InitInv, InvStep, PTL DEF Spec

\* Every variable of the two contracts and of the services keeps its type; in
\* particular no counter ever goes below zero.
THEOREM TypeCorrect == Spec => []TypeOK
<1>1. Inv => TypeOK
  BY DEF Inv
<1> QED
  BY <1>1, InvAlways, PTL

\* Each taker's committed counter is the sum of that taker's open matches and is
\* covered by what the taker has armed, whatever the order of the operations.
THEOREM CommitmentsExact == Spec => []CommittedIsOpen
<1>1. Inv => CommittedIsOpen
  BY DEF Inv
<1> QED
  BY <1>1, InvAlways, PTL

\* The escrow holds exactly the tokens its takers have armed: what deposit, withdraw,
\* release and refund move is what they write into the counters.
THEOREM EscrowIsSolvent == Spec => []EscrowSolvent
<1>1. Inv => EscrowSolvent
  BY DEF Inv
<1> QED
  BY <1>1, InvAlways, PTL

\* The bond ledger holds exactly the free bonds and the bonds of open matches, across
\* the calls from lock, release and refund of the other contract.
THEOREM LedgerIsSolvent == Spec => []LedgerSolvent
<1>1. Inv => LedgerSolvent
  BY DEF Inv
<1> QED
  BY <1>1, InvAlways, PTL

\* Open matches and active bonds correspond one to one, with equal amounts.
THEOREM ContractsAgree == Spec => []BondBacksMatch
<1>1. Inv => BondBacksMatch
  BY DEF Inv
<1> QED
  BY <1>1, InvAlways, PTL

\* No two matches ever share a destination tag.
THEOREM TagsNeverReused == Spec => []TagsFresh
<1>1. Inv => TagsFresh
  BY DEF Inv
<1> QED
  BY <1>1, InvAlways, PTL

\* Delivery versus payment: released matches and the payments that funded them
\* pair off one to one, each payment satisfying its match's terms.
THEOREM DeliveryVersusPayment == Spec => []EveryReleasePaid
<1>1. Inv => EveryReleasePaid
  BY DEF Inv
<1> QED
  BY <1>1, InvAlways, PTL

\* A paid open match can always be released and an expired one refunded: neither
\* a consumed payment, nor a counter, nor a balance can stand in the way.
THEOREM NeverBlocked == Spec => []SettlementUnblocked
<1> QED
  BY InvUnblocks, InvAlways, PTL

\* A maker who paid in time has ATTESTATION_BUDGET and REFUND_GRACE to prove it.
THEOREM HonestMakerSafe == Spec => HonestMakerHasTime
<1>1. Init => DeadlinesApart
  BY DEF Init, DeadlinesApart, NoMatch
<1>2. Inv /\ [Next]_vars => AnyNext \/ UNCHANGED vars
  BY NextIsAny DEF Inv
<1>3. Inv /\ DeadlinesApart /\ [Next]_vars => [NoHastyRefund]_vars
  BY <1>2, HonestMakerStep DEF NoHastyRefund
<1> QED
  BY <1>1, <1>2, <1>3, DeadlinesStep, InvAlways, PTL
     DEF Spec, HonestMakerHasTime, NoHastyRefund

-----------------------------------------------------------------------------
(***************************************************************************)
(* The terms a match is locked with: they are written once, and the drops  *)
(* asked of the maker are those the FXRP is worth, for every band, price,  *)
(* mid and amount.                                                         *)
(***************************************************************************)
\* The match is there, and asks for the same.
SameTerms(m, n) ==
  /\ n.state # "None"
  /\ n.destinationTag = m.destinationTag
  /\ n.xrpDrops = m.xrpDrops
  /\ n.takerXrplAddress = m.takerXrplAddress
  /\ n.lockedAt = m.lockedAt /\ n.paymentDeadline = m.paymentDeadline

\* Settling a match leaves its terms, and all other matches.
LEMMA SettledTerms ==
  ASSUME Inv, ReleaseStep \/ RefundStep, NEW id \in MatchIds
  PROVE  /\ matches[id].state = "None" => matches'[id] = matches[id]
         /\ matches[id].state # "None" => SameTerms(matches[id], matches'[id])
<1>1. PICK j \in MatchIds, s \in {"Released", "Refunded"} :
        /\ matches[j].state = "Locked"
        /\ matches' = [matches EXCEPT ![j].state = s]
  BY DEF ReleaseStep, RefundStep, release, ProofAccepted, refund
<1>2. matches \in [MatchIds -> Match]
  BY DEF Inv, TypeOK
<1>3. CASE id = j
  <2>1. /\ matches'[id].state = s
        /\ matches'[id].destinationTag = matches[id].destinationTag
        /\ matches'[id].xrpDrops = matches[id].xrpDrops
        /\ matches'[id].takerXrplAddress = matches[id].takerXrplAddress
        /\ matches'[id].lockedAt = matches[id].lockedAt
        /\ matches'[id].paymentDeadline = matches[id].paymentDeadline
    BY <1>1, <1>2, <1>3 DEF Match
  <2> QED
    BY <1>1, <1>3, <2>1 DEF SameTerms
<1>4. CASE id # j
  BY <1>1, <1>2, <1>4 DEF SameTerms
<1> QED
  BY <1>3, <1>4

\* A lock writes the match of its instruction, which had no terms, and no other.
LEMMA LockTerms ==
  ASSUME Inv, NEW mi \in MatchInstruction, NEW sig, NEW value, lock(mi, sig, value),
         NEW id \in MatchIds
  PROVE  /\ matches[mi.matchId].state = "None" /\ matches'[mi.matchId] = NewMatch(mi)
         /\ id # mi.matchId => matches'[id] = matches[id]
<1>1. mi.matchId \in MatchIds
  BY InstructionTypes
<1> QED
  BY <1>1 DEF lock, WellFormed, Inv, TypeOK

-----------------------------------------------------------------------------
(***************************************************************************)
(* Arithmetic.                                                             *)
(***************************************************************************)
\* An integer quotient is the largest number whose multiple fits.
LEMMA QuotientBounds ==
  \A x \in Nat, d \in Nat \ {0} :
    (x \div d) * d <= x /\ x < ((x \div d) + 1) * d
OBVIOUS

\* Products grow with their factors.
LEMMA ProductGrows == \A x, y, z \in Nat : x <= y => x * z <= y * z
OBVIOUS

\* And strictly, when the other one is positive.
LEMMA ProductGrowsStrictly == \A x, y \in Nat, z \in Nat \ {0} : x < y => x * z < y * z
OBVIOUS

\* A positive factor may be cancelled on both sides of an inequality.
LEMMA ProductCancels ==
  \A x, y \in Nat, z \in Nat \ {0} : (x * z <= y * z => x <= y) /\ (x * z < y * z => x < y)
OBVIOUS

\* The order of three factors does not matter.
LEMMA ProductReorders ==
  \A x, y, z \in Nat : (x * y) * z = (x * z) * y /\ (x * y) * z = x * (y * z)
OBVIOUS

-----------------------------------------------------------------------------
(***************************************************************************)
(* One lock.                                                               *)
(***************************************************************************)
\* The quotient that lock takes of a price inside the band.  price * BIPS lies between
\* mid * (BIPS - BAND_BIPS) and mid * (BIPS + BAND_BIPS); both sides are multiplied by
\* the amount, the quotient is bounded, and the mid is cancelled.
LEMMA QuotientInBand ==
  ASSUME NEW amount \in Nat, NEW price \in Nat, NEW mid \in Nat \ {0}, InBand(price, mid)
  PROVE  LET drops == (amount * price) \div mid IN
         /\ drops * BIPS <= amount * (BIPS + BAND_BIPS)
         /\ (drops + 1) * BIPS > amount * (BIPS - BAND_BIPS)
<1> DEFINE drops == (amount * price) \div mid
<1>1. PICK low \in Nat, high \in Nat :
        /\ low = BIPS - BAND_BIPS /\ high = BIPS + BAND_BIPS
        /\ BIPS \in Nat \ {0}
  BY EscrowAssumption
<1>2. mid * low <= price * BIPS /\ price * BIPS <= mid * high
  BY <1>1 DEF InBand
<1>3. PICK worth \in Nat : worth = amount * price
  BY ProductNat
<1>4. drops \in Nat /\ drops * mid <= worth /\ worth < (drops + 1) * mid
  BY <1>3, QuotientNat, QuotientBounds
<1> HIDE DEF drops
<1>5. amount * (mid * low) <= worth * BIPS /\ worth * BIPS <= amount * (mid * high)
  <2>1. /\ mid * low \in Nat /\ mid * high \in Nat /\ price * BIPS \in Nat
    BY <1>1, ProductNat
  <2>2. /\ (mid * low) * amount <= (price * BIPS) * amount
        /\ (price * BIPS) * amount <= (mid * high) * amount
    BY <1>2, <2>1, ProductGrows
  <2>3. (price * BIPS) * amount = worth * BIPS
    <3>1. (price * BIPS) * amount = (price * amount) * BIPS
      BY <1>1, ProductReorders
    <3>2. price * amount = worth
      BY <1>3
    <3> QED
      BY <3>1, <3>2
  <2>4. /\ (mid * low) * amount = amount * (mid * low)
        /\ (mid * high) * amount = amount * (mid * high)
    BY <2>1
  <2> QED
    BY <2>2, <2>3, <2>4
<1>6. drops * BIPS <= amount * high
  <2>1. (drops * mid) * BIPS <= worth * BIPS
    BY <1>1, <1>4, ProductNat, ProductGrows
  <2>2. (drops * mid) * BIPS = (drops * BIPS) * mid
    BY <1>1, <1>4, ProductReorders
  <2>3. amount * (mid * high) = (amount * high) * mid
    BY <1>1, ProductReorders
  <2>4. /\ drops * BIPS \in Nat /\ amount * high \in Nat /\ worth * BIPS \in Nat
        /\ (drops * BIPS) * mid \in Nat /\ (amount * high) * mid \in Nat
    BY <1>1, <1>4, ProductNat
  <2>5. (drops * BIPS) * mid <= (amount * high) * mid
    BY <1>5, <2>1, <2>2, <2>3, <2>4
  <2> QED
    BY <2>4, <2>5, ProductCancels
<1>7. amount * low < (drops + 1) * BIPS
  <2>1. worth * BIPS < ((drops + 1) * mid) * BIPS
    <3>1. (drops + 1) * mid \in Nat
      BY <1>4, ProductNat
    <3> QED
      BY <1>1, <1>4, <3>1, ProductGrowsStrictly
  <2>2. ((drops + 1) * mid) * BIPS = ((drops + 1) * BIPS) * mid
    BY <1>1, <1>4, ProductReorders
  <2>3. amount * (mid * low) = (amount * low) * mid
    BY <1>1, ProductReorders
  <2>4. /\ (drops + 1) * BIPS \in Nat /\ amount * low \in Nat /\ worth * BIPS \in Nat
        /\ ((drops + 1) * BIPS) * mid \in Nat /\ (amount * low) * mid \in Nat
    BY <1>1, <1>4, ProductNat
  <2>5. (amount * low) * mid < ((drops + 1) * BIPS) * mid
    BY <1>5, <2>1, <2>2, <2>3, <2>4
  <2> QED
    BY <2>4, <2>5, ProductCancels
<1> QED
  BY <1>1, <1>4, <1>6, <1>7, ProductNat DEF drops

-----------------------------------------------------------------------------
(***************************************************************************)
(* Every match.                                                            *)
(***************************************************************************)
\* What DropsWithinBand says of one match.
InBandDrops(m) ==
  /\ m.xrpDrops * BIPS <= m.amountFxrp * (BIPS + BAND_BIPS)
  /\ m.state # "None" => (m.xrpDrops + 1) * BIPS > m.amountFxrp * (BIPS - BAND_BIPS)

\* Only lock writes the drops and the amount of a match, and it does so together.
LEMMA DropsStep == Inv /\ DropsWithinBand /\ [Next]_vars => DropsWithinBand'
<1> SUFFICES ASSUME Inv, DropsWithinBand, [Next]_vars, NEW id \in MatchIds
             PROVE  InBandDrops(matches'[id])
  BY DEF DropsWithinBand, InBandDrops
<1>0. matches \in [MatchIds -> Match] /\ InBandDrops(matches[id])
  BY DEF Inv, TypeOK, DropsWithinBand, InBandDrops
<1>1. CASE LockStep
  <2>1. PICK mi \in Instructions, sig \in Signers \cup {Nobody, Malformed},
             value \in {0, FTSO_FEE} : lock(mi, sig, value)
    BY <1>1 DEF LockStep
  <2>2. /\ matches' = [matches EXCEPT ![mi.matchId] = NewMatch(mi)]
        /\ InBand(mi.priceUsd18, oracle.mid) /\ oracle.mid \in Nat \ {0}
        /\ mi.amountFxrp \in Nat /\ mi.priceUsd18 \in Nat
    BY <2>1, EscrowAssumption, InstructionTypes DEF lock, OracleFresh, Inv, TypeOK
  <2>3. NewMatch(mi).amountFxrp = mi.amountFxrp /\ NewMatch(mi).xrpDrops = Drops(mi)
    BY DEF NewMatch, MatchWithTag
  <2>4. InBandDrops(NewMatch(mi))
    BY <2>2, <2>3, QuotientInBand DEF InBandDrops, Drops
  <2> QED
    BY <1>0, <2>2, <2>4
<1>2. CASE ReleaseStep \/ RefundStep
  <2>1. PICK j \in MatchIds, s \in {"Released", "Refunded"} :
          /\ matches[j].state = "Locked"
          /\ matches' = [matches EXCEPT ![j].state = s]
    BY <1>2 DEF ReleaseStep, RefundStep, release, ProofAccepted, refund
  <2>2. /\ matches'[id].xrpDrops = matches[id].xrpDrops
        /\ matches'[id].amountFxrp = matches[id].amountFxrp
        /\ matches'[id].state # "None" => matches[id].state # "None"
    BY <1>0, <2>1 DEF Match
  <2> QED
    BY <1>0, <2>2 DEF InBandDrops
<1>3. CASE TakerStep \/ MakerStep \/ OwnerStep \/ WorldStep \/ UNCHANGED vars
  <2>1. matches' = matches
    BY <1>3 DEF TakerStep, deposit, withdraw, MakerStep, Unescrowed, OwnerStep, setTeeSigner,
         setFeeTreasury, setLockPaused, WorldStep, Tick, OracleUpdate, XrplPay, FdcAttest,
         escrowVars, vars
  <2> QED
    BY <1>0, <2>1
<1> QED
  BY <1>1, <1>2, <1>3 DEF Next

\* Whatever the feed showed at the lock, the maker owes the FXRP amount within the band,
\* and rounding takes less than one drop from the taker.
THEOREM DropsStayInBand == Spec => []DropsWithinBand
<1>1. Init => DropsWithinBand
  <2> SUFFICES ASSUME Init, NEW id \in MatchIds PROVE InBandDrops(matches[id])
    BY DEF DropsWithinBand, InBandDrops
  <2>1. matches[id].xrpDrops = 0 /\ matches[id].amountFxrp = 0 /\ matches[id].state = "None"
    BY DEF Init, NoMatch
  <2> QED
    BY <2>1, EscrowAssumption DEF InBandDrops
<1> QED
  BY <1>1, DropsStep, InvAlways, PTL DEF Spec
=============================================================================
