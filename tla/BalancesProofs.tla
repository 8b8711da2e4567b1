--------------------------- MODULE BalancesProofs ---------------------------
(***************************************************************************)
(* The ledger operations keep the ledger's invariants, for any accounts    *)
(* and any balance type. The pallets' proofs cite these theorems.          *)
(***************************************************************************)
EXTENDS Balances, LedgerProofs

\* The part of the ledger's state that its operations preserve together: the
\* issuance stays a balance because it is what the accounts hold.
LedgerInv == BalancesTypeOK /\ Conservation /\ NoDust

\* Genesis establishes the invariants of the ledger.
THEOREM GenesisLedger == BalancesInit => LedgerInv
  <1> SUFFICES ASSUME BalancesInit PROVE LedgerInv
    OBVIOUS
  <1>1. EmptySheet \in Sheets /\ \A a \in Accounts : EmptySheet[a] = 0
    BY SumOfAssumption DEF EmptySheet, Sheets, Balance
  <1>2. BalancesTypeOK
    BY <1>1, EndowmentAssumption DEF BalancesInit, BalancesTypeOK
  <1>3. Conservation
    <2>1. SumOf[Endowment] \in Nat /\ SumOf[EmptySheet] = 0
      BY SumOfAssumption, SumOfType, EndowmentAssumption
    <2> QED
      BY <2>1 DEF BalancesInit, Conservation
  <1>4. NoDust
    <2>1. \A a \in Accounts :
             /\ free[a] \in Nat /\ reserved[a] = 0
             /\ free[a] = 0 \/ free[a] >= ExistentialDeposit
      BY <1>1, EndowmentAssumption, SumOfType DEF BalancesInit
    <2>2. ASSUME NEW a \in Accounts
          PROVE  \/ free[a] + reserved[a] >= ExistentialDeposit
                 \/ free[a] = 0 /\ reserved[a] = 0
      <3>1. ExistentialDeposit \in Nat
        BY DepositAssumption, SumOfAssumption DEF Balance
      <3> QED
        BY <2>1, <3>1
    <2> QED
      BY <2>2 DEF NoDust
  <1> QED
    BY <1>2, <1>3, <1>4 DEF LedgerInv

\* Currency::transfer with AllowDeath conserves the issuance, up to the dust
\* it burns, and leaves no account below the existential deposit.
THEOREM CurrencyTransferKeepsLedger ==
    ASSUME LedgerInv, NEW from \in Accounts, NEW to \in Accounts, NEW v \in Balance,
           CurrencyTransfer(from, to, v)
    PROVE  LedgerInv'
  <1>1. CASE UNCHANGED balanceVars
    BY <1>1 DEF balanceVars, LedgerInv, BalancesTypeOK, Conservation, NoDust
  <1>2. CASE ~UNCHANGED balanceVars
    <2> DEFINE left == free[from] - v
               dies == Dies(from, left)
               kept == IF dies THEN 0 ELSE left
               held == IF dies THEN 0 ELSE reserved[from]
               dust == IF dies THEN left + reserved[from] ELSE 0
    <2>1. /\ v # 0 /\ from # to /\ v <= free[from]
          /\ free[to] + v <= MaxBalance
          /\ ~Dies(to, free[to] + v)
          /\ free' = [free EXCEPT ![from] = kept, ![to] = @ + v]
          /\ reserved' = [reserved EXCEPT ![from] = IF dies THEN 0 ELSE @]
          /\ issuance' = issuance - dust
      BY <1>2 DEF CurrencyTransfer
    <2>2. /\ free \in Sheets /\ reserved \in Sheets /\ issuance \in Balance
          /\ SumOf[free] + SumOf[reserved] = issuance
          /\ MaxBalance \in Nat /\ ExistentialDeposit \in Nat \ {0}
      BY SumOfAssumption, DepositAssumption DEF LedgerInv, BalancesTypeOK, Conservation, Balance
    <2>3. /\ free[from] \in Balance /\ reserved[from] \in Balance /\ free[to] \in Balance
          /\ reserved[to] \in Balance
          /\ SumOf[free] \in Nat /\ SumOf[reserved] \in Nat
      BY <2>2, SumOfType DEF Sheets
    <2>4. /\ left \in Balance /\ kept \in Balance /\ held \in Balance /\ dust \in Nat
          /\ free[to] + v \in Balance
      BY <2>1, <2>2, <2>3 DEF Balance
    <2>5. /\ free' = [free EXCEPT ![from] = kept, ![to] = free[to] + v]
          /\ reserved' = [reserved EXCEPT ![from] = held]
      BY <2>1, <2>2 DEF Sheets
    <2> HIDE DEF left, dies, kept, held, dust
    <2>6. free' \in Sheets /\ SumOf[free'] = SumOf[free] - free[from] + kept - free[to] + (free[to] + v)
      <3>1. /\ [free EXCEPT ![from] = kept, ![to] = free[to] + v] \in Sheets
            /\ SumOf[[free EXCEPT ![from] = kept, ![to] = free[to] + v]]
                  = SumOf[free] - free[from] + kept - free[to] + (free[to] + v)
        <4>1. from # to /\ free \in Sheets /\ kept \in Balance /\ free[to] + v \in Balance
          BY <2>1, <2>2, <2>4
        <4> QED
          BY <4>1, SumOfTwo, Zenon
      <3> QED
        BY <2>5, <3>1
    <2>7. reserved' \in Sheets /\ SumOf[reserved'] = SumOf[reserved] - reserved[from] + held
      BY <2>2, <2>4, <2>5, SumOfAssumption DEF Sheets
    <2>8. SumOf[free'] \in Nat /\ SumOf[reserved'] \in Nat
      BY <2>6, <2>7, SumOfType
    <2>9. dust = (free[from] - v - kept) + (reserved[from] - held)
      BY <2>2, <2>3 DEF left, kept, held, dust, Balance
    <2>10. SumOf[free'] + SumOf[reserved'] = issuance'
      BY <2>1, <2>2, <2>3, <2>4, <2>6, <2>7, <2>8, <2>9 DEF Balance
    <2>11. issuance' \in Balance
      BY <2>1, <2>2, <2>4, <2>8, <2>10 DEF Balance
    <2>12. ASSUME NEW a \in Accounts
           PROVE  \/ free'[a] + reserved'[a] >= ExistentialDeposit
                  \/ free'[a] = 0 /\ reserved'[a] = 0
      <3>1. CASE a = from
        BY <3>1, <2>1, <2>2, <2>3, <2>5 DEF Sheets, Dies, left, dies, kept, held, Balance
      <3>2. CASE a = to
        BY <3>2, <2>1, <2>2, <2>3, <2>5 DEF Sheets, Dies, Balance
      <3>3. CASE a # from /\ a # to
        <4>1. free'[a] = free[a] /\ reserved'[a] = reserved[a]
          BY <3>3, <2>2, <2>5 DEF Sheets
        <4> QED
          BY <4>1 DEF LedgerInv, NoDust
      <3> QED
        BY <3>1, <3>2, <3>3
    <2> QED
      BY <2>6, <2>7, <2>10, <2>11, <2>12 DEF LedgerInv, BalancesTypeOK, Conservation, NoDust
  <1> QED
    BY <1>1, <1>2

\* Moving an amount between the free and the reserved part of one account
\* keeps the ledger's invariants.
LEMMA ShiftKeepsLedger ==
    ASSUME LedgerInv, NEW a \in Accounts, NEW x \in Balance, NEW y \in Balance,
           x + y = free[a] + reserved[a],
           free' = [free EXCEPT ![a] = x], reserved' = [reserved EXCEPT ![a] = y],
           issuance' = issuance
    PROVE  LedgerInv'
  <1>1. free \in Sheets /\ reserved \in Sheets /\ issuance \in Balance
    BY DEF LedgerInv, BalancesTypeOK
  <1>2. free' \in Sheets /\ reserved' \in Sheets
    BY <1>1 DEF Sheets
  <1>3. SumOf[free'] = SumOf[free] - free[a] + x /\ SumOf[reserved'] = SumOf[reserved] - reserved[a] + y
    BY <1>1, SumOfAssumption
  <1>4. /\ SumOf[free] \in Nat /\ SumOf[reserved] \in Nat
        /\ free[a] \in Nat /\ reserved[a] \in Nat /\ x \in Nat /\ y \in Nat
    BY <1>1, SumOfType, SumOfAssumption DEF Balance
  <1>5. SumOf[free'] + SumOf[reserved'] = issuance'
    BY <1>3, <1>4 DEF LedgerInv, Conservation
  <1>6. ASSUME NEW b \in Accounts
        PROVE  \/ free'[b] + reserved'[b] >= ExistentialDeposit
               \/ free'[b] = 0 /\ reserved'[b] = 0
    <2>1. \/ free[b] + reserved[b] >= ExistentialDeposit
          \/ free[b] = 0 /\ reserved[b] = 0
      BY DEF LedgerInv, NoDust
    <2>2. CASE b = a
      <3>1. free'[b] = x /\ reserved'[b] = y
        BY <1>1, <2>2 DEF Sheets
      <3>2. x + y >= ExistentialDeposit \/ x + y = 0
        BY <1>4, <2>1, <2>2
      <3>3. x + y = 0 => x = 0 /\ y = 0
        BY <1>4
      <3> QED
        BY <3>1, <3>2, <3>3
    <2>3. CASE b # a
      <3>1. free'[b] = free[b] /\ reserved'[b] = reserved[b]
        BY <1>1, <2>3 DEF Sheets
      <3> QED
        BY <2>1, <3>1
    <2> QED
      BY <2>2, <2>3
  <1> QED
    BY <1>1, <1>2, <1>5, <1>6 DEF LedgerInv, BalancesTypeOK, Conservation, NoDust

\* reserve keeps the ledger's invariants.
THEOREM ReserveKeepsLedger ==
    ASSUME LedgerInv, NEW a \in Accounts, NEW v \in Balance, Reserve(a, v)
    PROVE  LedgerInv'
  <1>1. /\ free \in Sheets /\ reserved \in Sheets /\ MaxBalance \in Nat
        /\ v <= free[a] /\ reserved[a] + v <= MaxBalance
        /\ free' = [free EXCEPT ![a] = free[a] - v]
        /\ reserved' = [reserved EXCEPT ![a] = reserved[a] + v]
        /\ issuance' = issuance
    BY SumOfAssumption DEF LedgerInv, BalancesTypeOK, Reserve
  <1>2. free[a] \in Balance /\ reserved[a] \in Balance
    BY <1>1 DEF Sheets
  <1>3. /\ free[a] - v \in Balance /\ reserved[a] + v \in Balance
        /\ (free[a] - v) + (reserved[a] + v) = free[a] + reserved[a]
    BY <1>1, <1>2 DEF Balance
  <1> QED
    BY <1>1, <1>3, ShiftKeepsLedger

\* unreserve keeps the ledger's invariants: what comes back fits, because an
\* account never holds more than the issuance.
THEOREM UnreserveKeepsLedger ==
    ASSUME LedgerInv, NEW a \in Accounts, NEW v \in Balance, Unreserve(a, v)
    PROVE  LedgerInv'
  <1> DEFINE actual == IF reserved[a] < v THEN reserved[a] ELSE v
  <1>1. /\ free \in Sheets /\ reserved \in Sheets /\ MaxBalance \in Nat /\ issuance \in Balance
        /\ free' = [free EXCEPT ![a] = free[a] + actual]
        /\ reserved' = [reserved EXCEPT ![a] = reserved[a] - actual]
        /\ issuance' = issuance
        /\ SumOf[free] + SumOf[reserved] = issuance
    BY SumOfAssumption DEF LedgerInv, BalancesTypeOK, Conservation, Unreserve
  <1>2. /\ free[a] \in Balance /\ reserved[a] \in Balance
        /\ SumOf[free] \in Nat /\ SumOf[reserved] \in Nat
    BY <1>1, SumOfType DEF Sheets
  <1>3. free[a] <= SumOf[free] /\ reserved[a] <= SumOf[reserved]
    BY <1>1, SumOfBounds
  <1>4. actual \in Nat /\ actual <= reserved[a]
    BY <1>2 DEF Balance
  <1> HIDE DEF actual
  <1>5. /\ free[a] + actual \in Balance /\ reserved[a] - actual \in Balance
        /\ (free[a] + actual) + (reserved[a] - actual) = free[a] + reserved[a]
    BY <1>1, <1>2, <1>3, <1>4 DEF Balance
  <1> QED
    BY <1>1, <1>5, ShiftKeepsLedger
=============================================================================
