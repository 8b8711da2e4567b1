------------------------- MODULE TransactionsProofs -------------------------
(***************************************************************************)
(* What nonces and eras guarantee, for any BlockHashCount and any number   *)
(* of blocks, accounts and transactions.                                   *)
(***************************************************************************)
EXTENDS Transactions, SequenceTheorems, TLAPS

\* The facts about eras that the proofs use: the period is the least power of
\* two that is not below BlockHashCount, halved.
LEMMA NextPower ==
    /\ next_power_of_two(BlockHashCount) \in Powers
    /\ next_power_of_two(BlockHashCount) >= BlockHashCount
    /\ \A q \in Powers : q >= BlockHashCount => next_power_of_two(BlockHashCount) <= q
  <1> DEFINE P(p) == p >= BlockHashCount /\ \A q \in Powers : q >= BlockHashCount => p <= q
  <1>0. BlockHashCount \in Nat /\ 1 < BlockHashCount /\ BlockHashCount <= 65536
    BY TransactionsAssumption
  <1>1. \E p \in Powers : P(p)
    <2>0. ASSUME NEW n \in Powers, n < BlockHashCount, BlockHashCount <= 2 * n,
                 2 * n \in Powers, \A q \in Powers : q <= n \/ 2 * n <= q
          PROVE  P(2 * n)
      BY <1>0, <2>0 DEF Powers
    <2>1. \A n \in Powers : n # 65536 =>
             2 * n \in Powers /\ \A q \in Powers : q <= n \/ 2 * n <= q
      BY DEF Powers
    <2>2. \E n \in Powers : n # 65536 /\ n < BlockHashCount /\ BlockHashCount <= 2 * n
      BY <1>0 DEF Powers
    <2> QED
      BY <2>0, <2>1, <2>2
  <1>2. /\ (CHOOSE p \in Powers : P(p)) \in Powers
        /\ P(CHOOSE p \in Powers : P(p))
    BY <1>1
  <1> QED
    BY <1>2 DEF next_power_of_two

\* "take the biggest period possible": at least 4, and within the hashes that
\* are kept.
LEMMA PeriodBounds ==
    /\ EraPeriod \in Nat /\ 4 <= EraPeriod /\ EraPeriod <= 32768
    /\ EraPeriod <= BlockHashCount + 2
  <1> DEFINE n == next_power_of_two(BlockHashCount)
  <1>1. n \in Powers /\ n >= BlockHashCount /\ \A q \in Powers : q >= BlockHashCount => n <= q
    BY NextPower
  <1>2. BlockHashCount \in Nat /\ 2 <= BlockHashCount /\ BlockHashCount <= 65536
    BY TransactionsAssumption
  <1> HIDE DEF n
  <1> DEFINE h == n \div 2
  <1>3. h \in {0} \union (Powers \ {65536}) /\ h < n /\ n \in Nat
    BY <1>1, <1>2 DEF Powers
  <1>4. period = h
    BY DEF period, n
  <1> HIDE DEF h
  <1>5. h \in Nat /\ h <= 32768
    BY <1>3 DEF Powers
  <1>6. h < BlockHashCount
    <2> SUFFICES ASSUME h >= BlockHashCount PROVE FALSE
      BY <1>2, <1>5
    <2>1. h # 0
      BY <1>2, <1>5
    <2>2. h \in Powers
      BY <1>3, <2>1
    <2>3. n <= h
      BY <1>1, <2>2
    <2> QED
      BY <1>3, <1>5, <2>3
  <1>7. CASE h < 4
    <2>1. EraPeriod = 4
      BY <1>4, <1>7 DEF EraPeriod
    <2> QED
      BY <1>2, <2>1
  <1>8. CASE ~(h < 4)
    <2>1. EraPeriod = h
      BY <1>4, <1>8 DEF EraPeriod
    <2> QED
      BY <1>2, <1>5, <1>6, <1>8, <2>1
  <1> QED
    BY <1>7, <1>8

\* Remainders
LEMMA RemainderUnique ==
    ASSUME NEW P \in Nat, P > 0, NEW k \in Nat, NEW d \in 0 .. (P - 1)
    PROVE  (P * k + d) % P = d
  OBVIOUS

LEMMA Remainders ==
    ASSUME NEW P \in Nat, P > 0, NEW x \in Nat
    PROVE  /\ x % P \in 0 .. (P - 1)
           /\ x - (x % P) \in Nat
           /\ (x - (x % P)) % P = 0
           /\ x % P = 0 => \A d \in 0 .. (P - 1) : (x + d) % P = d
  <1>1. x % P \in 0 .. (P - 1)
    OBVIOUS
  <1>2. PICK k \in Nat : x = P * k + (x % P)
    BY Z3
  <1>3. P * k \in Nat
    OBVIOUS
  <1>4. x - (x % P) = P * k + 0
    BY <1>1, <1>2, <1>3
  <1>5. (P * k + 0) % P = 0
    BY RemainderUnique
  <1>6. ASSUME x % P = 0, NEW d \in 0 .. (P - 1)
        PROVE  (x + d) % P = d
    <2>1. x + d = P * k + d
      BY <1>2, <1>3, <1>6
    <2> QED
      BY <2>1, RemainderUnique
  <1> QED
    BY <1>1, <1>2, <1>3, <1>4, <1>5, <1>6

\* The birth that an era has in block n is the only block of its phase among
\* the last EraPeriod blocks up to n.
LEMMA BirthIsLast ==
    ASSUME NEW phase \in Phases, NEW n \in Nat, n >= phase
    PROVE  /\ Birth(phase, n) \in phase .. n
           /\ (Birth(phase, n) - phase) % EraPeriod = 0
           /\ n < Birth(phase, n) + EraPeriod
  <1>1. EraPeriod \in Nat /\ EraPeriod > 0 /\ phase \in Nat
    BY PeriodBounds DEF Phases
  <1> DEFINE r == (n - phase) % EraPeriod
  <1>2. n - phase \in Nat
    BY <1>1
  <1>3. /\ r \in 0 .. (EraPeriod - 1)
        /\ (n - phase) - r \in Nat
        /\ ((n - phase) - r) % EraPeriod = 0
    BY <1>1, <1>2, Remainders
  <1>4. Birth(phase, n) = n - r
    BY <1>1 DEF Birth
  <1> HIDE DEF r
  <1>5. (n - r) - phase = (n - phase) - r
    BY <1>1, <1>3
  <1> QED
    BY <1>1, <1>3, <1>4, <1>5

LEMMA BirthIsUnique ==
    ASSUME NEW phase \in Phases, NEW b \in Nat, b >= phase, (b - phase) % EraPeriod = 0,
           NEW n \in Nat, b <= n, n < b + EraPeriod
    PROVE  Birth(phase, n) = b
  <1>1. EraPeriod \in Nat /\ EraPeriod > 0 /\ phase \in Nat
    BY PeriodBounds DEF Phases
  <1>2. b - phase \in Nat /\ n - b \in 0 .. (EraPeriod - 1)
    BY <1>1
  <1>3. ((b - phase) + (n - b)) % EraPeriod = n - b
    BY <1>1, <1>2, Remainders
  <1>4. (b - phase) + (n - b) = n - phase
    BY <1>1
  <1>5. Birth(phase, n) = n - ((n - phase) % EraPeriod)
    BY <1>1 DEF Birth
  <1> QED
    BY <1>3, <1>4, <1>5

\* While an era lasts, the hash of its birth is known.
LEMMA BirthIsKnown ==
    ASSUME NEW b \in Nat, NEW n \in Nat, b < n, n < b + EraPeriod
    PROVE  b \in KnownHashes(n)
  <1>1. EraPeriod \in Nat /\ EraPeriod <= BlockHashCount + 2 /\ BlockHashCount \in Nat
    BY PeriodBounds, TransactionsAssumption
  <1> QED
    BY <1>1 DEF KnownHashes

\* The era that create_transaction computes in block n was born at most a
\* quantization step before the block n - 1.
LEMMA MortalBirth ==
    ASSUME NEW n \in Nat \ {0}
    PROVE  /\ MortalPhase(n - 1) \in Phases
           /\ Birth(MortalPhase(n - 1), n) \in MortalPhase(n - 1) .. (n - 1)
           /\ n < Birth(MortalPhase(n - 1), n) + EraPeriod
           /\ (Birth(MortalPhase(n - 1), n) - MortalPhase(n - 1)) % EraPeriod = 0
  <1> DEFINE c == n - 1
             r == c % EraPeriod
             q == QuantizeFactor
             d == r % q
             phase == MortalPhase(c)
  <1>1. EraPeriod \in Nat /\ 4 <= EraPeriod /\ EraPeriod <= 32768 /\ c \in Nat /\ c = n - 1
    BY PeriodBounds
  <1> HIDE DEF c
  <1>2. q \in Nat /\ q > 0 /\ 2 * q < EraPeriod
    <2> DEFINE e == EraPeriod \div 4096
    <2>1. e \in Nat /\ (e >= 1 => 2 * e < EraPeriod) /\ 2 < EraPeriod
      BY <1>1
    <2>2. q = IF e < 1 THEN 1 ELSE e
      BY DEF QuantizeFactor
    <2> HIDE DEF e, q
    <2>3. CASE e < 1
      BY <2>1, <2>2, <2>3
    <2>4. CASE ~(e < 1)
      BY <2>1, <2>2, <2>4
    <2> QED
      BY <2>3, <2>4
  <1>3. r \in 0 .. (EraPeriod - 1) /\ c - r \in Nat /\ (c - r) % EraPeriod = 0
    <2>1. EraPeriod \in Nat /\ EraPeriod > 0 /\ c \in Nat
      BY <1>1
    <2> QED
      BY <2>1, Remainders
  <1> HIDE DEF q, r
  <1>4. d \in 0 .. (q - 1) /\ d <= r
    BY <1>2, <1>3
  <1>5. phase = r - d
    BY DEF MortalPhase, r, q
  <1> HIDE DEF d, phase
  <1>6. phase \in Phases /\ phase <= c - d
    BY <1>1, <1>3, <1>4, <1>5 DEF Phases
  <1>7. (c - d) - phase = c - r
    BY <1>1, <1>3, <1>4, <1>5
  <1>8. c - d \in Nat /\ c - d >= phase /\ n \in Nat /\ c - d <= n /\ n < (c - d) + EraPeriod
    BY <1>1, <1>2, <1>4, <1>6 DEF Phases
  <1>9. Birth(phase, n) = c - d
    BY <1>3, <1>6, <1>7, <1>8, BirthIsUnique
  <1>10. c - d <= n - 1
    BY <1>1, <1>2, <1>3, <1>4
  <1> QED
    BY <1>3, <1>6, <1>7, <1>8, <1>9, <1>10, <1>1 DEF phase, Phases, c

-----------------------------------------------------------------------------
\* A transaction was born in a block of its phase, before the current one.
BirthInv ==
    \A tx \in signed :
        /\ tx.phase <= tx.birth
        /\ (tx.birth - tx.phase) % EraPeriod = 0
        /\ tx.birth < number

\* OncePerLife is not inductive: it holds because the index of an account
\* counts what it has executed in its present life, in the order of nonces.
IndexInv ==
    \A a \in Accounts :
        /\ Len(executed[a]) = index[a]
        /\ \A i \in 1 .. Len(executed[a]) : executed[a][i].tx.nonce = i - 1

IndInv == TypeOK /\ BirthInv /\ IndexInv /\ ExecutedInEra

\* Nothing has been signed or executed in the first block.
LEMMA InitIndInv == Init => IndInv
  BY TransactionsAssumption DEF Init, IndInv, TypeOK, BirthInv, IndexInv, ExecutedInEra

\* create_transaction signs with the birth of the era it computes.
LEMMA CreateKeepsInv ==
    ASSUME IndInv, NEW account \in Accounts, NEW call \in Calls, NEW nonce \in 0 .. MaxIndex,
           create_transaction(account, call, nonce)
    PROVE  IndInv'
  <1> DEFINE phase == MortalPhase(current_block)
             birth == Birth(phase, number)
             tx == [signer |-> account, call |-> call, nonce |-> nonce,
                    phase |-> phase, birth |-> birth]
  <1>1. signed' = signed \union {tx} /\ UNCHANGED <<number, alive, index, executed>>
    BY DEF create_transaction, era
  <1>2. number \in Nat \ {0} /\ current_block = number - 1
    BY DEF IndInv, TypeOK, current_block
  <1>3. /\ phase \in Phases
        /\ birth \in phase .. (number - 1)
        /\ (birth - phase) % EraPeriod = 0
    BY <1>2, MortalBirth
  <1>4. EraPeriod \in Nat
    BY PeriodBounds
  <1> HIDE DEF phase, birth
  <1>5. birth \in Nat /\ phase <= birth /\ birth < number
    BY <1>2, <1>3, <1>4 DEF Phases
  <1>6. tx \in Transaction
    BY <1>3, <1>5 DEF Transaction
  <1>7. TypeOK'
    BY <1>1, <1>6 DEF IndInv, TypeOK
  <1>8. BirthInv'
    BY <1>1, <1>3, <1>5 DEF IndInv, BirthInv
  <1> QED
    BY <1>1, <1>7, <1>8 DEF IndInv, IndexInv, ExecutedInEra

\* apply_extrinsic executes the transaction with the next nonce, in its era.
LEMMA ApplyKeepsInv ==
    ASSUME IndInv, NEW tx \in signed, apply_extrinsic(tx)
    PROVE  IndInv'
  <1> DEFINE a == tx.signer
             e == [tx |-> tx, block |-> number]
  <1>1. /\ CheckEra(tx) /\ tx.nonce = index[a]
        /\ index[a] < MaxIndex
        /\ index' = [index EXCEPT ![a] = index[a] + 1]
        /\ executed' = [executed EXCEPT ![a] = Append(executed[a], e)]
        /\ UNCHANGED <<number, alive, signed>>
    BY DEF apply_extrinsic, SignedExtra, CheckNonce
  <1>2. /\ tx \in Transaction /\ a \in Accounts /\ number \in Nat /\ number > 0
        /\ index[a] \in 0 .. MaxIndex /\ MaxIndex \in Nat /\ e \in Execution
        /\ executed \in [Accounts -> Seq(Execution)] /\ executed[a] \in Seq(Execution)
        /\ index \in [Accounts -> 0 .. MaxIndex]
    <2>1. /\ tx \in Transaction /\ number \in Nat \ {0} /\ MaxIndex \in Nat
          /\ executed \in [Accounts -> Seq(Execution)]
          /\ index \in [Accounts -> 0 .. MaxIndex]
      BY TransactionsAssumption DEF IndInv, TypeOK
    <2>2. a \in Accounts
      BY <2>1 DEF Transaction
    <2>3. e \in Execution
      BY <2>1 DEF Execution
    <2> HIDE DEF a, e
    <2> QED
      BY <2>1, <2>2, <2>3
  <1>3. tx.phase \in Phases /\ tx.phase \in Nat /\ tx.birth \in Nat /\ tx.phase <= tx.birth
        /\ tx.birth < number
    <2>1. tx.phase \in Phases /\ tx.birth \in Nat /\ EraPeriod \in Nat
      BY <1>2, PeriodBounds DEF Transaction
    <2> QED
      BY <2>1 DEF IndInv, BirthInv, Phases
  <1>4. number < tx.birth + EraPeriod
    <2>1. number >= tx.phase
      BY <1>2, <1>3
    <2>2. number < Birth(tx.phase, number) + EraPeriod
      BY <1>2, <1>3, <2>1, BirthIsLast
    <2> QED
      BY <1>1, <2>2 DEF CheckEra
  <1> DEFINE old == executed[a]
  <1> HIDE DEF a, e
  <1>5. /\ Append(executed[a], e) \in Seq(Execution)
        /\ Len(Append(executed[a], e)) = Len(executed[a]) + 1
        /\ Append(executed[a], e)[Len(executed[a]) + 1] = e
        /\ \A i \in 1 .. Len(executed[a]) : Append(executed[a], e)[i] = executed[a][i]
        /\ Len(executed[a]) \in Nat
    <2>1. old \in Seq(Execution) /\ e \in Execution
      BY <1>2
    <2> HIDE DEF old
    <2>2. /\ Append(old, e) \in Seq(Execution)
          /\ Len(Append(old, e)) = Len(old) + 1
          /\ Append(old, e)[Len(old) + 1] = e
          /\ \A i \in 1 .. Len(old) : Append(old, e)[i] = old[i]
          /\ Len(old) \in Nat
      BY <2>1, AppendProperties, LenProperties
    <2> QED
      BY <2>2 DEF old
  <1> DEFINE list == Append(executed[a], e)
  <1> HIDE DEF list
  <1>6. TypeOK'
    <2>1. index' \in [Accounts -> 0 .. MaxIndex]
      BY <1>1, <1>2
    <2>2. executed' \in [Accounts -> Seq(Execution)]
      BY <1>1, <1>2, <1>5
    <2> QED
      BY <1>1, <2>1, <2>2 DEF IndInv, TypeOK
  <1>7. BirthInv'
    BY <1>1 DEF IndInv, BirthInv
  <1>8. e.tx = tx /\ e.block = number
    BY DEF e
  <1>9. executed'[a] = list /\ index'[a] = index[a] + 1
    BY <1>1, <1>2 DEF list
  <1>10. \A b \in Accounts : b # a => executed'[b] = executed[b] /\ index'[b] = index[b]
    BY <1>1, <1>2
  <1>11. Len(executed[a]) = index[a]
         /\ \A i \in 1 .. Len(executed[a]) : executed[a][i].tx.nonce = i - 1
    BY <1>2 DEF IndInv, IndexInv
  <1>12. /\ Len(list) = Len(executed[a]) + 1
         /\ list[Len(executed[a]) + 1] = e
         /\ \A i \in 1 .. Len(executed[a]) : list[i] = executed[a][i]
         /\ Len(executed[a]) \in Nat
    BY <1>5 DEF list
  <1>13. IndexInv'
    <2>1. ASSUME NEW b \in Accounts, b # a
          PROVE  /\ Len(executed'[b]) = index'[b]
                 /\ \A i \in 1 .. Len(executed'[b]) : executed'[b][i].tx.nonce = i - 1
      <3>1. executed'[b] = executed[b] /\ index'[b] = index[b]
        BY <1>10, <2>1
      <3> QED
        BY <3>1 DEF IndInv, IndexInv
    <2>2. Len(list) = index'[a]
      BY <1>9, <1>11, <1>12
    <2>3. ASSUME NEW i \in 1 .. Len(list)
          PROVE  list[i].tx.nonce = i - 1
      <3>1. CASE i = Len(executed[a]) + 1
        BY <1>1, <1>8, <1>11, <1>12, <3>1
      <3>2. CASE i # Len(executed[a]) + 1
        <4>1. i \in 1 .. Len(executed[a])
          BY <1>12, <2>3, <3>2
        <4> QED
          BY <1>11, <1>12, <4>1
      <3> QED
        BY <3>1, <3>2
    <2> QED
      BY <1>2, <1>9, <2>1, <2>2, <2>3 DEF IndexInv
  <1>14. ExecutedInEra'
    <2>1. ASSUME NEW b \in Accounts, NEW i \in 1 .. Len(executed'[b])
          PROVE  /\ executed'[b][i].tx.birth < executed'[b][i].block
                 /\ executed'[b][i].block < executed'[b][i].tx.birth + EraPeriod
      <3>1. CASE b = a /\ i = Len(executed[a]) + 1
        <4>1. executed'[b][i] = e
          BY <1>9, <1>12, <3>1
        <4> QED
          BY <1>3, <1>4, <1>8, <4>1
      <3>2. CASE ~(b = a /\ i = Len(executed[a]) + 1)
        <4>1. i \in 1 .. Len(executed[b]) /\ executed'[b][i] = executed[b][i]
          BY <1>9, <1>10, <1>12, <2>1, <3>2
        <4> QED
          BY <4>1 DEF IndInv, ExecutedInEra
      <3> QED
        BY <3>1, <3>2
    <2> QED
      BY <2>1 DEF ExecutedInEra
  <1> QED
    BY <1>6, <1>7, <1>13, <1>14 DEF IndInv

\* Creating and reaping accounts, and the next block
LEMMA OtherKeepsInv ==
    ASSUME IndInv,
           (\E living \in SUBSET Accounts : AccountsChange(living)) \/ initialize_block
    PROVE  IndInv'
  <1>1. ASSUME NEW living \in SUBSET Accounts, AccountsChange(living)
        PROVE  IndInv'
    <2>1. /\ alive' = living /\ UNCHANGED <<number, signed>>
          /\ index' = [a \in Accounts |-> IF a \in living THEN index[a] ELSE 0]
          /\ executed' = [a \in Accounts |-> IF a \in living THEN executed[a] ELSE <<>>]
      BY <1>1 DEF AccountsChange
    <2>2. TypeOK'
      <3>1. index' \in [Accounts -> 0 .. MaxIndex]
        <4>1. index \in [Accounts -> 0 .. MaxIndex] /\ 0 \in 0 .. MaxIndex
          BY TransactionsAssumption DEF IndInv, TypeOK
        <4> QED
          BY <2>1, <4>1
      <3>2. executed' \in [Accounts -> Seq(Execution)]
        <4>1. executed \in [Accounts -> Seq(Execution)] /\ <<>> \in Seq(Execution)
          BY EmptySeq DEF IndInv, TypeOK
        <4> QED
          BY <2>1, <4>1
      <3> QED
        BY <2>1, <3>1, <3>2 DEF IndInv, TypeOK
    <2>3. BirthInv'
      BY <2>1 DEF IndInv, BirthInv
    <2>4. \A a \in Accounts : \/ executed'[a] = executed[a] /\ index'[a] = index[a]
                              \/ executed'[a] = <<>> /\ index'[a] = 0
      BY <2>1
    <2>5. IndexInv'
      BY <2>4 DEF IndInv, IndexInv
    <2>6. ExecutedInEra'
      BY <2>4 DEF IndInv, ExecutedInEra
    <2> QED
      BY <2>2, <2>3, <2>5, <2>6 DEF IndInv
  <1>2. ASSUME initialize_block
        PROVE  IndInv'
    <2>1. number \in Nat /\ number > 0 /\ signed \subseteq Transaction
      BY DEF IndInv, TypeOK
    <2>2. number' = number + 1 /\ UNCHANGED <<alive, index, signed, executed>>
      BY <1>2 DEF initialize_block
    <2>3. BirthInv'
      <3> SUFFICES ASSUME NEW tx \in signed PROVE tx.birth < number + 1
        BY <2>2 DEF IndInv, BirthInv
      <3>1. tx.birth \in Nat /\ tx.birth < number
        BY <2>1 DEF IndInv, BirthInv, Transaction
      <3> QED
        BY <2>1, <3>1
    <2>4. TypeOK'
      BY <2>1, <2>2 DEF IndInv, TypeOK
    <2>5. IndexInv'
      BY <2>2 DEF IndInv, IndexInv
    <2>6. ExecutedInEra'
      BY <2>2 DEF IndInv, ExecutedInEra
    <2> QED
      BY <2>3, <2>4, <2>5, <2>6 DEF IndInv
  <1> QED
    BY <1>1, <1>2

\* Every step keeps the inductive invariant.
LEMMA NextIndInv == IndInv /\ [Next]_vars => IndInv'
  <1> SUFFICES ASSUME IndInv, [Next]_vars PROVE IndInv'
    OBVIOUS
  <1>1. CASE UNCHANGED vars
    BY <1>1 DEF vars, IndInv, TypeOK, BirthInv, IndexInv, ExecutedInEra
  <1>2. CASE Next
    BY <1>2, CreateKeepsInv, ApplyKeepsInv, OtherKeepsInv DEF Next
  <1> QED
    BY <1>1, <1>2

LEMMA Invariance == Spec => []IndInv
  BY InitIndInv, NextIndInv, PTL DEF Spec

\* The storage that the extensions work on keeps its types.
THEOREM TransactionTypes == Spec => []TypeOK
  <1>1. IndInv => TypeOK
    BY DEF IndInv
  <1> QED
    BY Invariance, <1>1, PTL

\* CheckNonce: in one life of its signer's account a transaction is executed
\* once, however often it is submitted.
THEOREM ExecutedOncePerLife == Spec => []OncePerLife
  <1>1. IndInv => OncePerLife
    <2> SUFFICES ASSUME IndInv, NEW a \in Accounts, NEW i \in 1 .. Len(executed[a]),
                        NEW j \in 1 .. Len(executed[a]),
                        executed[a][i].tx = executed[a][j].tx
                 PROVE  i = j
      BY DEF OncePerLife
    <2>1. executed[a][i].tx.nonce = i - 1 /\ executed[a][j].tx.nonce = j - 1
      BY DEF IndInv, IndexInv
    <2>2. executed[a] \in Seq(Execution)
      BY DEF IndInv, TypeOK
    <2>3. Len(executed[a]) \in Nat
      BY <2>2, LenProperties
    <2>4. i - 1 = j - 1
      BY <2>1
    <2> QED
      BY <2>3, <2>4
  <1> QED
    BY Invariance, <1>1, PTL

\* CheckEra: however often the signer's account is reaped and endowed anew, a
\* transaction of create_transaction is executed in its era only.
THEOREM ExecutionsInEra == Spec => []ExecutedInEra
  <1>1. IndInv => ExecutedInEra
    BY DEF IndInv
  <1> QED
    BY Invariance, <1>1, PTL

\* "take the biggest period possible": for every BlockHashCount the period is
\* short enough for CheckEra to accept a transaction throughout its era.
THEOREM ErasAreHonoured == Spec => []NotRefusedEarly
  <1>1. IndInv => NotRefusedEarly
    <2> SUFFICES ASSUME IndInv, NEW tx \in signed, number < tx.birth + EraPeriod
                 PROVE  CheckEra(tx)
      BY DEF NotRefusedEarly
    <2>1. /\ tx.phase \in Phases /\ tx.birth \in Nat /\ number \in Nat
          /\ tx.phase <= tx.birth /\ (tx.birth - tx.phase) % EraPeriod = 0
          /\ tx.birth < number
      BY DEF IndInv, TypeOK, BirthInv, Transaction
    <2>2. tx.phase \in Nat /\ EraPeriod \in Nat
      BY <2>1, PeriodBounds DEF Phases
    <2>3. tx.birth >= tx.phase /\ tx.birth <= number
      BY <2>1, <2>2
    <2>4. Birth(tx.phase, number) = tx.birth
      BY <2>1, <2>3, BirthIsUnique
    <2>5. tx.birth \in KnownHashes(number)
      BY <2>1, BirthIsKnown
    <2> QED
      BY <2>4, <2>5 DEF CheckEra
  <1> QED
    BY Invariance, <1>1, PTL

\* The block that create_transaction takes for the current one always has a
\* known hash.
THEOREM WorkersCanSign == Spec => []WorkerCanSign
  <1>1. IndInv => WorkerCanSign
    <2> SUFFICES ASSUME IndInv PROVE WorkerCanSign
      OBVIOUS
    <2> DEFINE b == Birth(MortalPhase(number - 1), number)
    <2>1. number \in Nat \ {0} /\ current_block = number - 1 /\ number \in Nat
      BY DEF IndInv, TypeOK, current_block
    <2>2. /\ MortalPhase(number - 1) \in Phases
          /\ b \in MortalPhase(number - 1) .. (number - 1)
          /\ number < b + EraPeriod
      BY <2>1, MortalBirth
    <2>3. EraPeriod \in Nat
      BY PeriodBounds
    <2> HIDE DEF b
    <2>4. b \in Nat /\ b < number
      BY <2>1, <2>2, <2>3 DEF Phases
    <2>5. b \in KnownHashes(number)
      BY <2>1, <2>2, <2>4, BirthIsKnown
    <2> QED
      BY <2>1, <2>5 DEF WorkerCanSign, era, b
  <1> QED
    BY Invariance, <1>1, PTL
=============================================================================
