---------------------------- MODULE RuntimeProofs ----------------------------
(***************************************************************************)
(* What the pallets keep of each other's accounts when the runtime puts    *)
(* them on one ledger, for any accounts, fees and calls.                   *)
(***************************************************************************)
EXTENDS Runtime, MicropaymentProofs

\* The ledger that the deeper_node pallet calls is the one of the runtime.
LEMMA OneLedger ==
    /\ \A from, to, v : DN!CurrencyTransfer(from, to, v) <=> CurrencyTransfer(from, to, v)
    /\ \A a, v : DN!Reserve(a, v) <=> Reserve(a, v)
    /\ \A a, v : DN!Unreserve(a, v) <=> Unreserve(a, v)
    /\ \A a, left : DN!Dies(a, left) <=> Dies(a, left)
    /\ DN!balanceVars = balanceVars
  <1>1. \A a, left : DN!Dies(a, left) <=> Dies(a, left)
    BY DEF DN!Dies, Dies
  <1>2. \A from, to, v : DN!CurrencyTransfer(from, to, v) <=> CurrencyTransfer(from, to, v)
    BY DEF DN!CurrencyTransfer, CurrencyTransfer, DN!Dies, Dies, DN!balanceVars, balanceVars
  <1>3. \A a, v : (DN!Reserve(a, v) <=> Reserve(a, v)) /\ (DN!Unreserve(a, v) <=> Unreserve(a, v))
    BY DEF DN!Reserve, Reserve, DN!Unreserve, Unreserve
  <1>4. DN!balanceVars = balanceVars
    BY DEF DN!balanceVars, balanceVars
  <1> QED
    BY <1>1, <1>2, <1>3, <1>4

\* The signer of an extrinsic is an account.
LEMMA Signer ==
    ASSUME NEW x \in Extrinsics
    PROVE  x[2] \in Accounts
  BY PairParts, MicropaymentAssumption DEF Extrinsics, ClaimOf

-----------------------------------------------------------------------------
(* What the operations of the ledger do to one account *)

\* What there is of an account's balances
LEMMA Holdings ==
    ASSUME LedgerInv, NEW a \in Accounts
    PROVE  /\ free[a] \in Nat /\ reserved[a] \in Nat /\ Total(a) \in Nat /\ issuance \in Nat
           /\ Total(a) <= issuance
  <1>1. free \in Sheets /\ reserved \in Sheets /\ SumOf[free] + SumOf[reserved] = issuance
    BY DEF LedgerInv, BalancesTypeOK, Conservation
  <1>2. /\ free[a] \in Nat /\ reserved[a] \in Nat /\ SumOf[free] \in Nat /\ SumOf[reserved] \in Nat
        /\ free[a] <= SumOf[free] /\ reserved[a] <= SumOf[reserved]
    BY <1>1, SumOfType, SumOfBounds
  <1> QED
    BY <1>1, <1>2 DEF Total

\* A transfer takes from its payer only, the amount or, with the account, all;
\* and what is reserved only with the account.
LEMMA TransferEffect ==
    ASSUME LedgerInv, NEW from \in Accounts, NEW to \in Accounts, NEW v \in Balance,
           CurrencyTransfer(from, to, v), NEW a \in Accounts
    PROVE  /\ Total(a)' < Total(a) =>
                  a = from /\ (Total(a)' = Total(a) - v \/ Total(a)' = 0)
           /\ reserved'[a] # reserved[a] => Total(a)' = 0
  <1>0. /\ free[a] \in Nat /\ reserved[a] \in Nat /\ free[from] \in Nat /\ reserved[from] \in Nat
        /\ free[to] \in Nat /\ v \in Nat /\ free \in Sheets /\ reserved \in Sheets
        /\ ExistentialDeposit \in Nat
    BY Holdings, SumOfAssumption, DepositAssumption DEF LedgerInv, BalancesTypeOK, Balance
  <1>1. CASE UNCHANGED balanceVars
    <2>1. Total(a)' = Total(a) /\ reserved'[a] = reserved[a] /\ Total(a) \in Nat
      BY <1>0, <1>1 DEF balanceVars, Total
    <2> QED
      BY <2>1
  <1>2. CASE ~UNCHANGED balanceVars
    <2> DEFINE left == free[from] - v
               dies == Dies(from, left)
    <2>1. /\ from # to /\ v <= free[from]
          /\ free' = [free EXCEPT ![from] = IF dies THEN 0 ELSE left, ![to] = @ + v]
          /\ reserved' = [reserved EXCEPT ![from] = IF dies THEN 0 ELSE @]
      BY <1>2 DEF CurrencyTransfer
    <2>2. CASE a = from
      <3>1. free'[a] = (IF dies THEN 0 ELSE left) /\ reserved'[a] = IF dies THEN 0 ELSE reserved[a]
        BY <1>0, <2>1, <2>2 DEF Sheets
      <3>2. CASE dies
        <4>1. Total(a)' = 0
          BY <3>1, <3>2 DEF Total
        <4> QED
          BY <2>2, <4>1
      <3>3. CASE ~dies
        <4>1. Total(a)' = Total(a) - v /\ reserved'[a] = reserved[a]
          BY <1>0, <2>2, <3>1, <3>3 DEF Total
        <4> QED
          BY <2>2, <4>1
      <3> QED
        BY <3>2, <3>3
    <2>3. CASE a # from
      <3>1. free'[a] = (IF a = to THEN free[a] + v ELSE free[a]) /\ reserved'[a] = reserved[a]
        BY <1>0, <2>1, <2>3 DEF Sheets
      <3>2. ~(Total(a)' < Total(a))
        BY <1>0, <3>1 DEF Total
      <3> QED
        BY <3>1, <3>2
    <2> QED
      BY <2>2, <2>3
  <1> QED
    BY <1>1, <1>2

\* A deposit, made or given back, stays its account's own.
LEMMA ReserveEffect ==
    ASSUME LedgerInv, NEW a \in Accounts, NEW v \in Balance,
           Reserve(a, v) \/ Unreserve(a, v), NEW b \in Accounts
    PROVE  /\ Total(b)' = Total(b)
           /\ b # a => reserved'[b] = reserved[b]
           /\ Reserve(a, v) => reserved'[a] >= v
  <1>0. /\ free[a] \in Nat /\ reserved[a] \in Nat /\ free[b] \in Nat /\ reserved[b] \in Nat
        /\ v \in Nat /\ free \in Sheets /\ reserved \in Sheets
    BY Holdings, SumOfAssumption DEF LedgerInv, BalancesTypeOK, Balance
  <1>1. PICK d \in Int :
           /\ free' = [free EXCEPT ![a] = free[a] - d]
           /\ reserved' = [reserved EXCEPT ![a] = reserved[a] + d]
           /\ Reserve(a, v) => d = v
    <2>1. CASE Reserve(a, v)
      <3>1. /\ v \in Int
            /\ free' = [free EXCEPT ![a] = free[a] - v]
            /\ reserved' = [reserved EXCEPT ![a] = reserved[a] + v]
        BY <1>0, <2>1 DEF Reserve
      <3> QED
        BY <3>1
    <2>2. CASE Unreserve(a, v) /\ ~Reserve(a, v)
      <3> DEFINE actual == IF reserved[a] < v THEN reserved[a] ELSE v
      <3>1. /\ free' = [free EXCEPT ![a] = free[a] + actual]
            /\ reserved' = [reserved EXCEPT ![a] = reserved[a] - actual]
            /\ actual \in Nat
        BY <1>0, <2>2 DEF Unreserve
      <3> HIDE DEF actual
      <3>2. /\ 0 - actual \in Int /\ free[a] + actual = free[a] - (0 - actual)
            /\ reserved[a] - actual = reserved[a] + (0 - actual)
        BY <1>0, <3>1
      <3> QED
        BY <2>2, <3>1, <3>2
    <2> QED
      BY <2>1, <2>2
  <1>2. CASE b = a
    <2>1. free'[a] = free[a] - d /\ reserved'[a] = reserved[a] + d
      BY <1>0, <1>1 DEF Sheets
    <2> QED
      BY <1>0, <1>1, <1>2, <2>1 DEF Total
  <1>3. CASE b # a
    <2>1. free'[b] = free[b] /\ reserved'[b] = reserved[b]
      BY <1>0, <1>1, <1>3 DEF Sheets
    <2>2. Reserve(a, v) => reserved'[a] >= v
      <3>1. reserved'[a] = reserved[a] + d
        BY <1>0, <1>1 DEF Sheets
      <3> QED
        BY <1>0, <1>1, <3>1
    <2> QED
      BY <1>3, <2>1, <2>2 DEF Total
  <1> QED
    BY <1>2, <1>3

\* A fee is taken from its payer only, and from nothing that is reserved; what
\* it burns leaves the issuance.
LEMMA FeeEffect ==
    ASSUME LedgerInv, NEW a \in Accounts, NEW v \in Balance, Withdraw(a, v)
    PROVE  /\ LedgerInv'
           /\ reserved' = reserved
           /\ \A b \in Accounts : b # a => Total(b)' = Total(b)
  <1>0. /\ free[a] \in Nat /\ reserved[a] \in Nat /\ free \in Sheets /\ reserved \in Sheets
        /\ SumOf[free] \in Nat /\ SumOf[reserved] \in Nat /\ free[a] <= SumOf[free]
        /\ SumOf[free] + SumOf[reserved] = issuance /\ issuance \in Balance
        /\ MaxBalance \in Nat /\ v \in Nat /\ ExistentialDeposit \in Nat
    BY Holdings, SumOfAssumption, SumOfBounds, DepositAssumption, SumOfType
    DEF LedgerInv, BalancesTypeOK, Conservation, Balance
  <1>1. /\ v <= free[a] /\ ~Dies(a, free[a] - v)
        /\ free' = [free EXCEPT ![a] = free[a] - v]
        /\ issuance' = issuance - v /\ reserved' = reserved
    BY DEF Withdraw
  <1>2. free[a] - v \in Balance
    BY <1>0, <1>1 DEF Balance, Sheets
  <1>3. free' \in Sheets /\ SumOf[free'] = SumOf[free] - free[a] + (free[a] - v)
    BY <1>0, <1>1, <1>2, SumOfAssumption DEF Sheets
  <1>4. Conservation' /\ issuance' \in Balance
    <2>1. SumOf[free'] = SumOf[free] - v /\ SumOf[free'] \in Nat
      BY <1>0, <1>3, SumOfType
    <2> QED
      BY <1>0, <1>1, <2>1 DEF Conservation, Balance
  <1>5. \A b \in Accounts : free'[b] = IF b = a THEN free[a] - v ELSE free[b]
    BY <1>0, <1>1 DEF Sheets
  <1>6. NoDust'
    <2> SUFFICES ASSUME NEW b \in Accounts
                 PROVE  \/ free'[b] + reserved'[b] >= ExistentialDeposit
                        \/ free'[b] = 0 /\ reserved'[b] = 0
      BY DEF NoDust
    <2>1. CASE b = a
      BY <1>0, <1>1, <1>5, <2>1 DEF Dies
    <2>2. CASE b # a
      BY <1>1, <1>5, <2>2 DEF LedgerInv, NoDust
    <2> QED
      BY <2>1, <2>2
  <1>7. \A b \in Accounts : b # a => Total(b)' = Total(b)
    BY <1>1, <1>5 DEF Total
  <1> QED
    BY <1>0, <1>1, <1>3, <1>4, <1>6, <1>7 DEF LedgerInv, BalancesTypeOK

-----------------------------------------------------------------------------
\* What is in reserve of an account is accounted for; what was stranded has
\* been burnt if its device outlives the account.
Accounted(a) ==
    /\ stranded[a] \in Nat
    /\ a \in reaped => stranded[a] = 0
    /\ reserved[a] = stranded[a] + DN!Backing(a)

\* The ledger is sound, devices have a country, and deposits are accounted for.
RuntimeInv ==
    /\ LedgerInv
    /\ DeviceInfo \in [Accounts -> Countries \union {NoDevice}]
    /\ stranded \in [Accounts -> Nat]
    /\ \A a \in Accounts : Accounted(a)

\* A claim of a micropayment that a signed, which takes its amount or all
Claimed(a, x) ==
    \E v \in vouchers :
        /\ x = ClaimOf(v)
        /\ Sender(v.pair) = a
        /\ IsOpen(v.pair) /\ Channel[v.pair].nonce = v.nonce
        /\ Total(a)' = Total(a) - v.amount \/ Total(a)' = 0

\* An account of which a step changes nothing stays accounted for.
LEMMA AccountKept ==
    ASSUME NEW a, Accounted(a), reserved'[a] = reserved[a], stranded'[a] = stranded[a],
           DN!Registered(a)' <=> DN!Registered(a), a \in reaped' <=> a \in reaped
    PROVE  Accounted(a)'
  BY DEF Accounted, DN!Backing

\* A step that moves what is in reserve only by reaping the account keeps the
\* accounts, if it notes whom it reaps.
LEMMA DepositsSurvive ==
    ASSUME RuntimeInv, LedgerInv', DeviceInfo' = DeviceInfo,
           reaped' = reaped \union {a \in Reaped : DN!Registered(a)},
           stranded' = [a \in Accounts |-> IF a \in Reaped THEN 0 ELSE stranded[a]],
           \A a \in Accounts : reserved'[a] # reserved[a] => Total(a)' = 0
    PROVE  RuntimeInv'
  <1>1. stranded' \in [Accounts -> Nat]
    BY DEF RuntimeInv
  <1>2. \A a \in Accounts : DN!Registered(a)' <=> DN!Registered(a)
    BY DEF DN!Registered
  <1>3. ASSUME NEW a \in Accounts PROVE Accounted(a)'
    <2>1. /\ free[a] \in Nat /\ reserved[a] \in Nat /\ Total(a) = free[a] + reserved[a]
          /\ free'[a] \in Nat /\ reserved'[a] \in Nat /\ Total(a)' = free'[a] + reserved'[a]
          /\ Accounted(a)
      BY Holdings, SumOfType DEF RuntimeInv, Total, LedgerInv, BalancesTypeOK
    <2>2. CASE a \in Reaped
      <3>1. reserved'[a] = 0 /\ stranded'[a] = 0 /\ (DN!Registered(a) => a \in reaped')
        BY <2>1, <2>2 DEF Reaped
      <3> QED
        BY <1>2, <3>1 DEF Accounted, DN!Backing
    <2>3. CASE a \notin Reaped
      <3>1. reserved'[a] = reserved[a]
        <4>1. CASE Total(a)' = 0
          BY <2>1, <2>3, <4>1 DEF Reaped
        <4> QED
          BY <4>1
      <3> QED
        BY <1>2, <2>1, <2>3, <3>1, AccountKept
    <2> QED
      BY <2>2, <2>3
  <1> QED
    BY <1>1, <1>3 DEF RuntimeInv

\* The calls of the micropayment pallet
LEMMA MicropaymentCallEffect ==
    ASSUME RuntimeInv, NEW x, MicropaymentCall(x)
    PROVE  /\ RuntimeInv'
           /\ \A a \in Accounts : Total(a)' < Total(a) => Claimed(a, x)
  <1>1. /\ reaped' = reaped \union {a \in Reaped : DN!Registered(a)}
        /\ stranded' = [a \in Accounts |-> IF a \in Reaped THEN 0 ELSE stranded[a]]
        /\ DeviceInfo' = DeviceInfo /\ LedgerInv
    BY DEF MicropaymentCall, RuntimeInv
  <1>2. CASE UNCHANGED balanceVars
    <2>1. LedgerInv' /\ \A a \in Accounts : reserved'[a] = reserved[a] /\ Total(a)' = Total(a)
      BY <1>1, <1>2 DEF balanceVars, LedgerInv, BalancesTypeOK, Conservation, NoDust, Total
    <2>2. \A a \in Accounts : ~(Total(a)' < Total(a))
      BY <1>1, <2>1, Holdings
    <2> QED
      BY <1>1, <2>1, <2>2, DepositsSurvive
  <1>3. CASE ~UNCHANGED balanceVars
    <2>1. PICK v \in Vouchers : x = ClaimOf(v) /\ ClaimLive(v.pair, v.session, v.amount)
      BY <1>3, OneLedger DEF MicropaymentCall, open_channel, close_channel, ClaimExpired,
                             balanceVars
    <2> DEFINE from == Sender(v.pair)
               to == Receiver(v.pair)
               w == [pair |-> v.pair, nonce |-> Channel[v.pair].nonce,
                     session |-> v.session, amount |-> v.amount]
    <2>2. /\ CurrencyTransfer(from, to, v.amount) /\ w \in vouchers /\ IsOpen(v.pair)
      BY <2>1 DEF ClaimLive, verify_signature
    <2>3. from \in Accounts /\ to \in Accounts /\ v.amount \in Balance
      BY PairParts, MicropaymentAssumption
    <2>4. LedgerInv'
      BY <1>1, <2>2, <2>3, CurrencyTransferKeepsLedger
    <2>5. \A a \in Accounts :
             /\ Total(a)' < Total(a) =>
                   a = from /\ (Total(a)' = Total(a) - v.amount \/ Total(a)' = 0)
             /\ reserved'[a] # reserved[a] => Total(a)' = 0
      BY <1>1, <2>2, <2>3, TransferEffect
    <2>6. RuntimeInv'
      BY <1>1, <2>4, <2>5, DepositsSurvive
    <2>7. /\ w.pair = v.pair /\ w.nonce = Channel[v.pair].nonce /\ w.amount = v.amount
          /\ ClaimOf(w) = ClaimOf(v)
      BY DEF ClaimOf
    <2> HIDE DEF w
    <2>8. ASSUME NEW a \in Accounts, Total(a)' < Total(a)
          PROVE  Claimed(a, x)
      BY <2>1, <2>2, <2>5, <2>7, <2>8 DEF Claimed
    <2> QED
      BY <2>6, <2>8
  <1> QED
    BY <1>2, <1>3

\* The calls of the deeper_node pallet and Balances::transfer
LEMMA DeeperNodeCallEffect ==
    ASSUME RuntimeInv, NEW x, DeeperNodeCall(x)
    PROVE  /\ RuntimeInv'
           /\ \A a \in Accounts : Total(a)' < Total(a) => x[2] = a
  <1>0. /\ LedgerInv /\ DeviceInfo \in [Accounts -> Countries \union {NoDevice}]
        /\ 0 \in Countries /\ NoDevice \notin Countries /\ MIN_LOCK_AMT \in Balance
        /\ MIN_LOCK_AMT \in Nat
        /\ stranded \in [Accounts -> Nat] /\ reserved \in Sheets
        /\ \A b \in Accounts : Accounted(b) /\ Total(b) \in Nat /\ reserved[b] \in Nat
    BY RuntimeAssumption, SumOfAssumption, Holdings
    DEF RuntimeInv, LedgerInv, BalancesTypeOK, Balance
  <1>1. ASSUME NEW a \in Accounts, x = <<"unregister_device", a>>, DN!unregister_device(a)
        PROVE  RuntimeInv' /\ \A b \in Accounts : ~(Total(b)' < Total(b))
    <2>1. /\ Unreserve(a, MIN_LOCK_AMT) /\ reaped' = reaped \ {a} /\ stranded' = stranded
          /\ DeviceInfo' = [DeviceInfo EXCEPT ![a] = NoDevice] /\ DN!Registered(a)
      BY <1>1, OneLedger DEF DN!unregister_device
    <2>2. LedgerInv'
      BY <1>0, <2>1, UnreserveKeepsLedger
    <2>3. \A b \in Accounts : Total(b)' = Total(b) /\ (b # a => reserved'[b] = reserved[b])
      BY <1>0, <2>1, ReserveEffect
    <2>4. ASSUME NEW b \in Accounts PROVE Accounted(b)'
      <3>1. CASE b = a
        <4>1. reserved'[a] = reserved[a] - (IF reserved[a] < MIN_LOCK_AMT THEN reserved[a]
                                            ELSE MIN_LOCK_AMT)
          BY <1>0, <2>1 DEF Unreserve, Sheets
        <4>2. reserved'[a] = stranded[a] /\ stranded[a] \in Nat
          BY <1>0, <2>1, <4>1 DEF Accounted, DN!Backing
        <4>3. DeviceInfo'[a] = NoDevice /\ a \notin reaped'
          BY <1>0, <2>1
        <4> QED
          BY <2>1, <3>1, <4>2, <4>3 DEF Accounted, DN!Backing, DN!Registered
      <3>2. CASE b # a
        <4>1. (DN!Registered(b)' <=> DN!Registered(b)) /\ (b \in reaped' <=> b \in reaped)
          BY <1>0, <2>1, <3>2 DEF DN!Registered
        <4> QED
          BY <1>0, <2>1, <2>3, <3>2, <4>1, AccountKept
      <3> QED
        BY <3>1, <3>2
    <2> QED
      BY <1>0, <2>1, <2>2, <2>3, <2>4 DEF RuntimeInv
  <1>2. ASSUME NEW a \in Accounts, NEW c \in Countries, DN!register_device(a, c)
        PROVE  RuntimeInv' /\ \A b \in Accounts : ~(Total(b)' < Total(b))
    <2>1. /\ Reserve(a, MIN_LOCK_AMT) /\ reaped' = reaped \ {a}
          /\ stranded' = [stranded EXCEPT ![a] = @ + DN!Backing(a)]
          /\ DeviceInfo' = [DeviceInfo EXCEPT ![a] = c]
      BY <1>2, OneLedger DEF DN!register_device
    <2>2. LedgerInv'
      BY <1>0, <2>1, ReserveKeepsLedger
    <2>3. \A b \in Accounts : Total(b)' = Total(b) /\ (b # a => reserved'[b] = reserved[b])
      BY <1>0, <2>1, ReserveEffect
    <2>4. /\ DN!Backing(a) \in Nat /\ stranded' \in [Accounts -> Nat]
          /\ stranded'[a] = stranded[a] + DN!Backing(a)
      <3>1. DN!Backing(a) \in Nat
        BY <1>0 DEF DN!Backing
      <3> QED
        BY <1>0, <2>1, <3>1
    <2>5. ASSUME NEW b \in Accounts PROVE Accounted(b)'
      <3>1. CASE b = a
        <4>1. reserved'[a] = reserved[a] + MIN_LOCK_AMT
          BY <1>0, <2>1 DEF Reserve, Sheets
        <4>2. DN!Backing(a)' = MIN_LOCK_AMT /\ a \notin reaped'
          BY <1>0, <2>1 DEF DN!Backing, DN!Registered
        <4>3. reserved[a] = stranded[a] + DN!Backing(a) /\ stranded[a] \in Nat
          BY <1>0 DEF Accounted
        <4>4. reserved'[a] = stranded'[a] + DN!Backing(a)' /\ stranded'[a] \in Nat
          BY <1>0, <2>4, <4>1, <4>2, <4>3
        <4> QED
          BY <3>1, <4>2, <4>4 DEF Accounted
      <3>2. CASE b # a
        <4>1. /\ DN!Registered(b)' <=> DN!Registered(b)
              /\ b \in reaped' <=> b \in reaped
              /\ stranded'[b] = stranded[b]
          BY <1>0, <2>1, <3>2 DEF DN!Registered
        <4> QED
          BY <1>0, <2>3, <3>2, <4>1, AccountKept
      <3> QED
        BY <3>1, <3>2
    <2> QED
      BY <1>0, <2>1, <2>2, <2>3, <2>4, <2>5 DEF RuntimeInv
  <1>3. ASSUME NEW a \in Accounts, NEW c \in Countries,
               DN!register_server(a, c) \/ DN!unregister_server(a, c)
        PROVE  RuntimeInv' /\ \A b \in Accounts : ~(Total(b)' < Total(b))
    <2>1. /\ UNCHANGED balanceVars /\ reaped' = reaped /\ stranded' = stranded
          /\ DeviceInfo[a] # NoDevice
          /\ \E d \in Countries : DeviceInfo' = [DeviceInfo EXCEPT ![a] = d]
      BY <1>0, <1>3, OneLedger DEF DN!register_server, DN!unregister_server, DN!Registered,
                                   DN!balanceVars, balanceVars
    <2>2. LedgerInv' /\ \A b \in Accounts : reserved'[b] = reserved[b] /\ Total(b)' = Total(b)
      BY <1>0, <2>1 DEF balanceVars, LedgerInv, BalancesTypeOK, Conservation, NoDust, Total
    <2>3. /\ DeviceInfo' \in [Accounts -> Countries \union {NoDevice}]
          /\ \A b \in Accounts : DN!Registered(b)' <=> DN!Registered(b)
      BY <1>0, <2>1 DEF DN!Registered
    <2>4. \A b \in Accounts : Accounted(b)'
      BY <1>0, <2>1, <2>2, <2>3, AccountKept
    <2> QED
      BY <1>0, <2>1, <2>2, <2>3, <2>4 DEF RuntimeInv
  <1>4. ASSUME NEW a \in Accounts, NEW to \in Accounts, NEW v \in Amounts, DN!transfer(a, to, v)
        PROVE  RuntimeInv' /\ \A b \in Accounts : Total(b)' < Total(b) => b = a
    <2> DEFINE dead == {b \in {a} : DN!Kills(a, to, v)}
    <2>1. /\ CurrencyTransfer(a, to, v) /\ DeviceInfo' = DeviceInfo
          /\ reaped' = reaped \union {b \in dead : DN!Registered(b)}
          /\ stranded' = [b \in Accounts |-> IF b \in dead THEN 0 ELSE stranded[b]]
      BY <1>4, OneLedger DEF DN!transfer
    <2>2. v \in Balance
      BY MicropaymentAssumption
    <2>3. LedgerInv'
      BY <1>0, <2>1, <2>2, CurrencyTransferKeepsLedger
    <2>4. \A b \in Accounts : Total(b)' < Total(b) => b = a
      BY <1>0, <2>1, <2>2, TransferEffect
    <2>5. \A b \in Accounts : reserved'[b] # reserved[b] => Total(b)' = 0
      BY <1>0, <2>1, <2>2, TransferEffect
    <2>6. Reaped = dead
      <3>1. /\ free \in Sheets /\ reserved \in Sheets /\ v \in Nat
            /\ free[a] \in Nat /\ ExistentialDeposit \in Nat /\ ExistentialDeposit > 0
        BY <1>0, <2>2, Holdings, DepositAssumption, SumOfAssumption
        DEF LedgerInv, BalancesTypeOK, Balance
      <3>2. DN!Kills(a, to, v) <=> v # 0 /\ a # to /\ Dies(a, free[a] - v)
        BY OneLedger DEF DN!Kills
      <3>3. ASSUME NEW b \in Reaped PROVE b = a
        BY <1>0, <2>4, <3>3 DEF Reaped
      <3>4. ASSUME v = 0 \/ a = to PROVE a \notin Reaped
        <4>1. Total(a)' = Total(a)
          BY <2>1, <3>4 DEF CurrencyTransfer, balanceVars, Total
        <4> QED
          BY <1>0, <4>1 DEF Reaped
      <3>5. ASSUME v # 0, a # to
            PROVE  /\ Total(a) > 0
                   /\ Total(a)' = IF Dies(a, free[a] - v) THEN 0 ELSE free[a] - v + reserved[a]
        <4>1. /\ v <= free[a]
              /\ free' = [free EXCEPT ![a] = IF Dies(a, free[a] - v) THEN 0 ELSE free[a] - v,
                                      ![to] = @ + v]
              /\ reserved' = [reserved EXCEPT ![a] = IF Dies(a, free[a] - v) THEN 0 ELSE @]
          BY <2>1, <3>5 DEF CurrencyTransfer
        <4>2. /\ free'[a] = (IF Dies(a, free[a] - v) THEN 0 ELSE free[a] - v)
              /\ reserved'[a] = IF Dies(a, free[a] - v) THEN 0 ELSE reserved[a]
          BY <3>1, <3>5, <4>1 DEF Sheets
        <4> QED
          BY <1>0, <3>1, <3>5, <4>1, <4>2 DEF Total
      <3>6. ASSUME v # 0, a # to PROVE a \in Reaped <=> Dies(a, free[a] - v)
        <4>1. ~Dies(a, free[a] - v) => free[a] - v + reserved[a] # 0
          BY <1>0, <3>1 DEF Dies
        <4> QED
          BY <3>5, <3>6, <4>1 DEF Reaped
      <3>7. a \in Reaped <=> DN!Kills(a, to, v)
        BY <3>2, <3>4, <3>6
      <3> QED
        BY <3>3, <3>7
    <2>7. RuntimeInv'
      BY <2>1, <2>3, <2>5, <2>6, DepositsSurvive
    <2> QED
      BY <2>4, <2>7
  <1> QED
    BY <1>1, <1>2, <1>3, <1>4 DEF DeeperNodeCall

\* What a step may do to the holdings of an account that it does not favour
SpentStep ==
    \A a \in Accounts : Total(a)' < Total(a) =>
        \/ executing = Idle /\ executing'[2] = a
        \/ executing # Idle /\ executing[2] = a
        \/ Claimed(a, executing)

\* A step that leaves the balances and the devices alone
LEMMA OthersKeepInv ==
    ASSUME RuntimeInv, UNCHANGED <<balanceVars, deviceVars>>
    PROVE  RuntimeInv' /\ \A a \in Accounts : ~(Total(a)' < Total(a))
  <1>1. UNCHANGED <<free, reserved, issuance, DeviceInfo, reaped, stranded>>
    BY DEF balanceVars, deviceVars
  <1>2. RuntimeInv'
    BY <1>1 DEF RuntimeInv, LedgerInv, BalancesTypeOK, Conservation, NoDust, Accounted,
                DN!Backing, DN!Registered
  <1>3. \A a \in Accounts : Total(a)' = Total(a) /\ Total(a) \in Nat
    BY <1>1, Holdings DEF RuntimeInv, Total
  <1> QED
    BY <1>2, <1>3

\* Every step keeps the inductive invariant, and takes from an account only
\* what it signed.
LEMMA NextEffect == RuntimeInv /\ [RuntimeNext]_runtimeVars => RuntimeInv' /\ SpentStep
  <1> SUFFICES ASSUME RuntimeInv, [RuntimeNext]_runtimeVars PROVE RuntimeInv' /\ SpentStep
    OBVIOUS
  <1>1. ASSUME NEW x \in Extrinsics, pre_dispatch(x)
        PROVE  RuntimeInv' /\ SpentStep
    <2>1. /\ Withdraw(x[2], Fee) /\ x[2] \in Accounts /\ Fee \in Balance
          /\ executing = Idle /\ executing' = x /\ UNCHANGED <<DeviceInfo, reaped, stranded>>
      BY <1>1, Signer, RuntimeAssumption DEF pre_dispatch, deviceVars
    <2>2. /\ LedgerInv' /\ reserved' = reserved
          /\ \A b \in Accounts : b # x[2] => Total(b)' = Total(b)
      BY <2>1, FeeEffect DEF RuntimeInv
    <2>3. \A a \in Accounts : Accounted(a)'
      BY <2>1, <2>2 DEF RuntimeInv, Accounted, DN!Backing, DN!Registered
    <2>4. SpentStep
      <3> SUFFICES ASSUME NEW a \in Accounts, Total(a)' < Total(a) PROVE x[2] = a
        BY <2>1 DEF SpentStep
      <3>1. Total(a) \in Nat
        BY Holdings DEF RuntimeInv
      <3> QED
        BY <2>2, <3>1
    <2> QED
      BY <2>1, <2>2, <2>3, <2>4 DEF RuntimeInv
  <1>2. ASSUME DispatchOk
        PROVE  RuntimeInv' /\ SpentStep
    <2>1. executing # Idle /\ Call(executing)
      BY <1>2 DEF DispatchOk
    <2>2. CASE MicropaymentCall(executing)
      BY <2>2, MicropaymentCallEffect DEF SpentStep
    <2>3. CASE DeeperNodeCall(executing)
      BY <2>1, <2>3, DeeperNodeCallEffect DEF SpentStep
    <2>4. CASE TemplateCall(executing)
      BY <2>4, OthersKeepInv DEF TemplateCall, SpentStep
    <2> QED
      BY <2>1, <2>2, <2>3, <2>4 DEF Call
  <1>3. ASSUME DispatchErr \/ OffChain \/ UNCHANGED runtimeVars
        PROVE  RuntimeInv' /\ SpentStep
    <2>1. UNCHANGED <<balanceVars, deviceVars>>
      BY <1>3, OneLedger DEF DispatchErr, OffChain, NewBlock, sign, 
                             runtimeVars, balanceVars, deviceVars
    <2> QED
      BY <2>1, OthersKeepInv DEF SpentStep
  <1> QED
    BY <1>1, <1>2, <1>3 DEF RuntimeNext

\* The genesis block
LEMMA InitRuntimeInv == RuntimeInit => RuntimeInv
  <1> SUFFICES ASSUME RuntimeInit PROVE RuntimeInv
    OBVIOUS
  <1>1. /\ BalancesInit /\ DeviceInfo = [a \in Accounts |-> NoDevice]
        /\ stranded = [a \in Accounts |-> 0]
    BY DEF RuntimeInit, DN!Init, DN!BalancesInit, BalancesInit, DN!EmptySheet, EmptySheet
  <1>2. LedgerInv
    BY <1>1, GenesisLedger
  <1>3. ASSUME NEW a \in Accounts PROVE Accounted(a)
    <2>1. reserved[a] = 0 /\ stranded[a] = 0 /\ DN!Backing(a) = 0
      BY <1>1 DEF BalancesInit, EmptySheet, DN!Backing, DN!Registered
    <2> QED
      BY <2>1 DEF Accounted
  <1> QED
    BY <1>1, <1>2, <1>3 DEF RuntimeInv

LEMMA RuntimeInvariance == RuntimeSpec => []RuntimeInv
  BY InitRuntimeInv, NextEffect, PTL DEF RuntimeSpec

\* Whatever extrinsics of the pallets meet on the ledger, every unit of the
\* issuance is in one account: fees and dust leave both sides.
THEOREM RuntimeConserves == RuntimeSpec => []Conservation
  <1>1. RuntimeInv => Conservation
    BY DEF RuntimeInv, LedgerInv
  <1> QED
    BY RuntimeInvariance, <1>1, PTL

\* Neither fees nor the claims of other accounts touch the deposit of a device
\* whose account lives.
THEOREM RuntimeDeposits == RuntimeSpec => []DepositsHeld
  <1>1. ASSUME RuntimeInv, NEW a \in Accounts, DN!Registered(a), a \notin reaped
        PROVE  reserved[a] >= MIN_LOCK_AMT
    <2>1. reserved[a] = stranded[a] + MIN_LOCK_AMT /\ stranded[a] \in Nat
      BY <1>1 DEF RuntimeInv, Accounted, DN!Backing
    <2>2. MIN_LOCK_AMT \in Nat
      BY RuntimeAssumption, SumOfAssumption DEF Balance
    <2> QED
      BY <2>1, <2>2
  <1>2. RuntimeInv => DepositsHeld
    BY <1>1 DEF DepositsHeld, DN!DepositHeld
  <1> QED
    BY RuntimeInvariance, <1>2, PTL

\* In the whole runtime what is in reserve is one deposit for each device that
\* is backed and what repeated registrations have stranded.
THEOREM RuntimeAccountsDeposits == RuntimeSpec => []DepositsExact
  <1>1. RuntimeInv => DepositsExact
    BY DEF RuntimeInv, Accounted, DepositsExact, DN!DepositsAccounted
  <1> QED
    BY RuntimeInvariance, <1>1, PTL

\* Nobody's money moves without its signature, across all the pallets.
THEOREM NobodyElseSpends == RuntimeSpec => SpentAsSigned
  <1> DEFINE Step ==
        \A a \in Accounts : Total(a)' < Total(a) =>
          \/ executing = Idle /\ executing'[2] = a
          \/ executing # Idle /\ executing[2] = a
          \/ \E v \in vouchers :
                /\ executing = ClaimOf(v)
                /\ Sender(v.pair) = a
                /\ IsOpen(v.pair) /\ Channel[v.pair].nonce = v.nonce
                /\ Total(a)' = Total(a) - v.amount \/ Total(a)' = 0
  <1>1. RuntimeInv /\ [RuntimeNext]_runtimeVars => [Step]_runtimeVars
    BY NextEffect DEF SpentStep, Claimed
  <1>2. RuntimeSpec => [][Step]_runtimeVars
    BY RuntimeInvariance, <1>1, PTL DEF RuntimeSpec
  <1> QED
    BY <1>2 DEF SpentAsSigned

-----------------------------------------------------------------------------
(* Payment channels within the runtime *)

\* A call of the micropayment pallet is one of its steps.
LEMMA MicropaymentCallIsStep ==
    ASSUME NEW x, MicropaymentCall(x)
    PROVE  \E p \in Pairs : \/ \E d \in Durations : open_channel(p, d)
                            \/ close_channel(p)
                            \/ claim_payment(p)
  <1>1. ASSUME NEW v \in Vouchers, ClaimExpired(v.pair) \/ ClaimLive(v.pair, v.session, v.amount)
        PROVE  claim_payment(v.pair) /\ v.pair \in Pairs
    BY <1>1, MicropaymentAssumption DEF claim_payment
  <1> QED
    BY <1>1 DEF MicropaymentCall

\* Whatever else the runtime does leaves the channels, the vouchers and what
\* was paid alone: fees, deposits, devices, failed calls.
LEMMA OtherStepsKeepChannels ==
    ASSUME RuntimeNext \/ UNCHANGED runtimeVars
    PROVE  \/ DispatchOk /\ MicropaymentCall(executing)
           \/ OffChain
           \/ UNCHANGED micropaymentVars
  BY DEF RuntimeNext, pre_dispatch, DispatchOk, DispatchErr, Call, DeeperNodeCall, TemplateCall,
         runtimeVars, micropaymentVars

\* A step of the runtime keeps the inductive invariant of the pallet: it is a
\* step of the pallet, or touches no more than the ledger.
LEMMA RuntimeKeepsPayments ==
    RuntimeInv /\ IndInv /\ [RuntimeNext]_runtimeVars => IndInv'
  <1> SUFFICES ASSUME RuntimeInv, IndInv, [RuntimeNext]_runtimeVars PROVE IndInv'
    OBVIOUS
  <1>1. CASE MicropaymentCall(executing)
    <2>1. Next
      BY <1>1, MicropaymentCallIsStep DEF Next
    <2> QED
      BY <2>1, NextIndInv
  <1>2. CASE OffChain
    <2>1. Next
      BY <1>2 DEF OffChain, Next
    <2> QED
      BY <2>1, NextIndInv
  <1>3. CASE UNCHANGED micropaymentVars
    <2>1. LedgerInv'
      BY NextEffect DEF RuntimeInv
    <2>2. UNCHANGED <<now, vouchers, channelVars, asked, paid>>
      BY <1>3 DEF micropaymentVars, channelVars
    <2> QED
      BY <2>1, <2>2, OtherKeepsInv DEF IndInv, TypeOK
  <1> QED
    BY <1>1, <1>2, <1>3, OtherStepsKeepChannels

\* The invariants of the runtime and of the pallet hold together.
LEMMA PaymentInvariance == RuntimeSpec => []IndInv
  <1>1. RuntimeInit => IndInv
    BY InitIndInv DEF RuntimeInit
  <1> QED
    BY <1>1, RuntimeInvariance, RuntimeKeepsPayments, PTL DEF RuntimeSpec

\* In the whole runtime, where fees and deposits come out of the same accounts
\* and a call may fail after its fee is paid, a session of a channel is still
\* paid once, what its sender signed for it.
THEOREM RuntimePaysAsSigned == RuntimeSpec => []PaidAsSigned
  <1>1. IndInv => PaidAsSigned
    BY DEF IndInv, PaymentInv
  <1> QED
    BY PaymentInvariance, <1>1, PTL

\* The runtime as a whole implements PaymentSessions: nothing that its other
\* pallets do shows in the rounds and the payments of a pair.
THEOREM RuntimeRefinesSessions == RuntimeSpec => ImplementsSessions
  <1>1. RuntimeInit => Sessions!Init
    BY InitRefines DEF RuntimeInit
  <1>2. IndInv /\ [RuntimeNext]_runtimeVars => [Sessions!Next]_(Sessions!abstractVars)
    <2> SUFFICES ASSUME IndInv, [RuntimeNext]_runtimeVars
                 PROVE  Sessions!Next \/ UNCHANGED Sessions!abstractVars
      OBVIOUS
    <2>1. CASE MicropaymentCall(executing) \/ OffChain
      <3>1. Next
        BY <2>1, MicropaymentCallIsStep DEF OffChain, Next
      <3> QED
        BY <3>1, NextRefines
    <2>2. CASE UNCHANGED micropaymentVars
      <3>1. UNCHANGED <<Channel, Nonce, vouchers, paid>>
        BY <2>2 DEF micropaymentVars
      <3>2. Round' = Round /\ Opened' = Opened
        BY <3>1 DEF Round, Opened, IsOpen
      <3> QED
        BY <3>1, <3>2 DEF Sessions!abstractVars, Round, Opened
    <2> QED
      BY <2>1, <2>2, OtherStepsKeepChannels
  <1> QED
    BY <1>1, <1>2, PaymentInvariance, PTL DEF RuntimeSpec, ImplementsSessions, Sessions!Spec

\* What MarkedAsPaid and NoLatePayment rest on holds in the runtime too.
LEMMA RuntimeChannels == RuntimeSpec => []ChannelInv
  <1>1. RuntimeInit => ChannelInv
    BY InitChannelInv DEF RuntimeInit
  <1>2. IndInv /\ ChannelInv /\ [RuntimeNext]_runtimeVars => ChannelInv'
    <2> SUFFICES ASSUME IndInv, ChannelInv, [RuntimeNext]_runtimeVars
                 PROVE  ChannelInv'
      OBVIOUS
    <2>1. CASE MicropaymentCall(executing) \/ OffChain
      <3>1. Next
        BY <2>1, MicropaymentCallIsStep DEF OffChain, Next
      <3> QED
        BY <3>1, NextChannelInv
    <2>2. CASE UNCHANGED micropaymentVars
      BY <2>2 DEF micropaymentVars, ChannelInv, IsOpen, Sender, Receiver
    <2> QED
      BY <2>1, <2>2, OtherStepsKeepChannels
  <1> QED
    BY <1>1, <1>2, PaymentInvariance, PTL DEF RuntimeSpec

\* No step of the runtime consumes a session but by paying for it in time:
\* fees, deposits and calls that fail after their fee was paid leave every
\* session to its receiver.
LEMMA RuntimeSettles ==
    ASSUME IndInv, ChannelInv, [RuntimeNext]_runtimeVars, NEW p \in Pairs, NEW s \in Consumed(p)
    PROVE  Settled(p, s) /\ InTime(p)
  <1>1. CASE MicropaymentCall(executing) \/ OffChain
    <2>1. Next
      BY <1>1, MicropaymentCallIsStep DEF OffChain, Next
    <2> QED
      BY <2>1, ConsumedIsSettled
  <1>2. CASE UNCHANGED micropaymentVars
    BY <1>2 DEF micropaymentVars, Consumed
  <1> QED
    BY <1>1, <1>2, OtherStepsKeepChannels

\* In the runtime, as in the pallet, no session is lost to a failed claim.
THEOREM RuntimeMarksArePayments == RuntimeSpec => MarkedAsPaid
  <1>1. IndInv /\ ChannelInv /\ [RuntimeNext]_runtimeVars
           => [\A p \in Pairs : \A s \in Consumed(p) : Settled(p, s)]_vars
    BY RuntimeSettles
  <1>2. RuntimeSpec => [][\A p \in Pairs : \A s \in Consumed(p) : Settled(p, s)]_vars
    BY <1>1, PaymentInvariance, RuntimeChannels, PTL DEF RuntimeSpec
  <1> QED
    BY <1>2 DEF MarkedAsPaid, Settled

\* However the runtime interleaves its pallets, a channel of which the
\* duration does not wrap is not found expired early.
THEOREM RuntimeHonoursDurations ==
    ASSUME NoWrap
    PROVE  RuntimeSpec => []NoEarlyExpiry
  <1>1. RuntimeInit => DeadlineKept
    BY InitDeadline DEF RuntimeInit
  <1>2. IndInv /\ DeadlineKept /\ [RuntimeNext]_runtimeVars => DeadlineKept'
    <2> SUFFICES ASSUME IndInv, DeadlineKept, [RuntimeNext]_runtimeVars
                 PROVE  DeadlineKept'
      OBVIOUS
    <2>1. CASE MicropaymentCall(executing) \/ OffChain
      <3>1. Next
        BY <2>1, MicropaymentCallIsStep DEF OffChain, Next
      <3> QED
        BY <3>1, NextDeadline
    <2>2. CASE UNCHANGED micropaymentVars
      BY <2>2 DEF micropaymentVars, DeadlineKept, IsOpen
    <2> QED
      BY <2>1, <2>2, OtherStepsKeepChannels
  <1> QED
    BY <1>1, <1>2, DeadlineHonours, PaymentInvariance, PTL DEF RuntimeSpec

-----------------------------------------------------------------------------
(* Votes *)

\* A quotient and its rest
LEMMA Quotients ==
    ASSUME NEW P \in Nat, P > 0, NEW x \in Nat
    PROVE  /\ x \div P \in Nat
           /\ P * (x \div P) <= x
           /\ x < P * (x \div P) + P
  OBVIOUS

\* What is below m + 1 multiples of P has at most m of them.
LEMMA QuotientBound ==
    ASSUME NEW P \in Nat, P > 0, NEW x \in Nat, NEW m \in Nat, x < P * m + P
    PROVE  x \div P <= m
  <1> DEFINE q == x \div P
  <1>1. q \in Nat /\ P * q <= x
    BY Quotients
  <1> HIDE DEF q
  <1>2. P * q < P * (m + 1)
    BY <1>1
  <1>3. q < m + 1
    BY <1>1, <1>2
  <1> QED
    BY <1>1, <1>3 DEF q

\* For any u64::MAX and any issuance, the vote of an account is worth what the
\* account holds, up to less than one factor: nothing of the vote is cut off if
\* the others hold at least u64::MAX, or the issuance is no more than that.
THEOREM VotesAreWorth == RuntimeSpec => []VotesFit
  <1>1. RuntimeInv => VotesFit
    <2> SUFFICES ASSUME RuntimeInv, NEW a \in Accounts,
                        issuance <= U64Max \/ issuance - Total(a) >= U64Max
                 PROVE  /\ to_balance(to_vote(Total(a))) <= Total(a)
                        /\ Total(a) < to_balance(to_vote(Total(a)) + 1)
      BY DEF VotesFit
    <2> DEFINE x == Total(a)
               F == factor
               q == x \div F
    <2>1. x \in Nat /\ issuance \in Nat /\ x <= issuance /\ U64Max \in Nat /\ U64Max > 0
      BY Holdings, RuntimeAssumption DEF RuntimeInv
    <2>2. /\ F \in Nat /\ F > 0 /\ issuance < U64Max * F + U64Max
          /\ issuance <= U64Max => F = 1
      <3> DEFINE d == issuance \div U64Max
      <3>1. d \in Nat /\ U64Max * d <= issuance /\ issuance < U64Max * d + U64Max
        BY <2>1, Quotients
      <3>2. F = IF d < 1 THEN 1 ELSE d
        BY DEF factor
      <3> HIDE DEF d, F
      <3>3. CASE d < 1
        BY <2>1, <3>1, <3>2, <3>3
      <3>4. CASE ~(d < 1)
        <4>1. F = d
          BY <3>2, <3>4
        <4>2. issuance <= U64Max => d = 1
          BY <2>1, <3>1, <3>4
        <4> QED
          BY <3>1, <3>4, <4>1, <4>2
      <3> QED
        BY <3>3, <3>4
    <2> HIDE DEF x, F
    <2>3. q \in Nat /\ F * q <= x /\ x < F * q + F
      BY <2>1, <2>2, Quotients
    <2>4. q <= U64Max
      <3>1. CASE issuance <= U64Max
        BY <2>1, <2>2, <2>3, <3>1
      <3>2. CASE issuance - x >= U64Max
        <4>1. F * U64Max = U64Max * F /\ U64Max * F \in Nat
          BY <2>1, <2>2
        <4>2. x < F * U64Max + F
          BY <2>1, <2>2, <3>2, <4>1
        <4> QED
          BY <2>1, <2>2, <4>2, QuotientBound
      <3> QED
        BY <3>1, <3>2 DEF x
    <2> HIDE DEF q
    <2>5. q % (U64Max + 1) = q
      BY <2>1, <2>3, <2>4
    <2>6. to_vote(x) = q
      BY <2>5 DEF to_vote, q, F
    <2>7. to_balance(to_vote(x)) = F * q /\ to_balance(to_vote(x) + 1) = F * q + F
      BY <2>2, <2>3, <2>6 DEF to_balance, F
    <2> QED
      BY <2>3, <2>7 DEF x
  <1> QED
    BY RuntimeInvariance, <1>1, PTL
=============================================================================
