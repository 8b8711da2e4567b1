---------------------------- MODULE Transactions ----------------------------
(***************************************************************************)
(* Which transactions the runtime (runtime/src/lib.rs) accepts: those that *)
(* create_transaction signs for the off-chain workers, judged by the       *)
(* signed extensions of SignedExtra. A transaction is mortal: its era is a *)
(* period and a phase, and what is signed covers the hash of the block of  *)
(* its birth. frame_system (external) keeps the hashes of the most recent  *)
(* BlockHashCount blocks, and the index (nonce) of an account only as long *)
(* as the account exists. What the calls do to the accounts is left open   *)
(* here: any of them may be created or reaped.                             *)
(***************************************************************************)
EXTENDS Integers, Sequences, FiniteSets

CONSTANTS
    Accounts,
    Calls,           \* the calls of the workers
    BlockHashCount,  \* 2400
    MaxBlock,        \* the last block of TLC's runs
    MaxIndex,        \* the largest u32 index; TLC's runs end there
    MaxSigned        \* how many transactions TLC's runs sign

Powers == {1, 2, 4, 8, 16, 32, 64, 128, 256, 512, 1024, 2048, 4096, 8192, 16384, 32768, 65536}

ASSUME TransactionsAssumption ==
    /\ BlockHashCount \in Nat /\ 2 <= BlockHashCount /\ BlockHashCount <= 65536
    /\ MaxBlock \in Nat
    /\ MaxIndex \in Nat
    /\ MaxSigned \in Nat

VARIABLES
    number,    \* System::block_number: the block that is being executed
    alive,     \* the accounts that exist
    index,     \* System::account_nonce
    signed,    \* the transactions made so far, any of which may be submitted again
    executed   \* history: what an account has executed in its present life, and when

vars == <<number, alive, index, signed, executed>>

Init ==
    /\ number = 1
    /\ alive \in SUBSET Accounts
    /\ index = [a \in Accounts |-> 0]
    /\ signed = {}
    /\ executed = [a \in Accounts |-> <<>>]

-----------------------------------------------------------------------------
(* Eras (sp_runtime::generic::Era, external) and block hashes *)

\* u32::checked_next_power_of_two
next_power_of_two(n) == CHOOSE p \in Powers : p >= n /\ \A q \in Powers : q >= n => p <= q

\* "take the biggest period possible"; Era::mortal takes at least 4.
Period_whole == next_power_of_two(BlockHashCount)
period == next_power_of_two(BlockHashCount) \div 2
EraPeriod == IF period < 4 THEN 4 ELSE period

\* The phase of Era::mortal(period, current): long eras are quantized, to
\* what an encoded era can say.
QuantizeFactor == IF EraPeriod \div 4096 < 1 THEN 1 ELSE EraPeriod \div 4096
MortalPhase(current) == (current % EraPeriod) - ((current % EraPeriod) % QuantizeFactor)

\* Era::birth(n): the last block up to n that has the phase of the era
Birth(phase, n) ==
    LET m == IF n < phase THEN phase ELSE n
    IN m - ((m - phase) % EraPeriod)

\* The hashes that frame_system has in block n: the genesis block's, and
\* those that finalizing the blocks before n has not pruned.
KnownHashes(n) == {0} \union {i \in 1 .. (n - 1) : i >= n - 1 - BlockHashCount}

-----------------------------------------------------------------------------
\* "The `System::block_number` is initialized with `n+1`, so the actual block
\* number is `n`."
Current_block_own == number
current_block == number - 1

\* The phase of `Era::mortal(period, current_block)'
Era_raw == current_block
era == MortalPhase(current_block)

\* create_transaction(call, public, account, nonce) returns a transaction if
\* the hash of its birth is there to be signed (SignedPayload::new).
create_transaction(account, call, nonce) ==
    LET birth == Birth(era, number)
    IN /\ birth \in KnownHashes(number)
       /\ Cardinality(signed) < MaxSigned
       /\ signed' = signed \union {[signer |-> account, call |-> call, nonce |-> nonce,
                                    phase |-> era, birth |-> birth]}
       /\ UNCHANGED <<number, alive, index, executed>>

\* CheckEra, and the signature, which covers the hash of the birth block
CheckEra(tx) ==
    /\ Birth(tx.phase, number) \in KnownHashes(number)
    /\ Birth(tx.phase, number) = tx.birth
CheckNonce(tx) == tx.nonce = index[tx.signer]
\* Nobody pays the fee from an account that does not exist.
ChargeTransactionPayment(tx) == tx.signer \in alive

\* The extensions that a transaction has to pass
SignedExtra_noEra(tx) == CheckNonce(tx) /\ ChargeTransactionPayment(tx)
SignedExtra_noNonce(tx) == CheckEra(tx) /\ ChargeTransactionPayment(tx)
SignedExtra(tx) == CheckEra(tx) /\ CheckNonce(tx) /\ ChargeTransactionPayment(tx)

\* apply_extrinsic: CheckNonce raises the index before the call is dispatched,
\* whether the call then succeeds or not.
apply_extrinsic(tx) ==
    /\ SignedExtra(tx)
    /\ index[tx.signer] < MaxIndex
    /\ index' = [index EXCEPT ![tx.signer] = @ + 1]
    /\ executed' = [executed EXCEPT ![tx.signer] = Append(@, [tx |-> tx, block |-> number])]
    /\ UNCHANGED <<number, alive, signed>>

\* A call creates and reaps accounts (OnNewAccount and OnKilledAccount do
\* nothing more); the index of a reaped account is gone with it.
AccountsChange(living) ==
    /\ alive' = living
    /\ index' = [a \in Accounts |-> IF a \in living THEN index[a] ELSE 0]
    /\ executed' = [a \in Accounts |-> IF a \in living THEN executed[a] ELSE <<>>]
    /\ UNCHANGED <<number, signed>>

\* initialize_block of the next block
initialize_block ==
    /\ number < MaxBlock
    /\ number' = number + 1
    /\ UNCHANGED <<alive, index, signed, executed>>

Next ==
    \/ \E account \in Accounts, call \in Calls, nonce \in 0 .. MaxIndex :
          create_transaction(account, call, nonce)
    \/ \E tx \in signed : apply_extrinsic(tx)
    \/ \E living \in SUBSET Accounts : AccountsChange(living)
    \/ initialize_block

Spec == Init /\ [][Next]_vars

-----------------------------------------------------------------------------
Phases == 0 .. (EraPeriod - 1)
Transaction == [signer : Accounts, call : Calls, nonce : 0 .. MaxIndex, phase : Phases, birth : Nat]
Execution == [tx : Transaction, block : Nat]

TypeOK ==
    /\ number \in Nat \ {0}
    /\ alive \subseteq Accounts
    /\ index \in [Accounts -> 0 .. MaxIndex]
    /\ signed \subseteq Transaction
    /\ executed \in [Accounts -> Seq(Execution)]

\* However often a transaction is submitted, it is executed at most once in
\* the life of its signer's account (CheckNonce of SignedExtra).
OncePerLife ==
    \A a \in Accounts : \A i, j \in 1 .. Len(executed[a]) :
        i # j => executed[a][i].tx # executed[a][j].tx

\* The index of an account starts again when the account is reaped and
\* endowed anew, and its old transactions fit again: the era of those that
\* create_transaction makes confines all their executions, in whatever lives
\* of the account, to one period after their birth.
ExecutedInEra ==
    \A a \in Accounts : \A i \in 1 .. Len(executed[a]) :
        LET e == executed[a][i]
        IN e.tx.birth < e.block /\ e.block < e.tx.birth + EraPeriod

\* The period is not too long for BlockHashCount: a transaction is never
\* refused for its era while the era lasts ("take the biggest period
\* possible").
NotRefusedEarly ==
    \A tx \in signed : number < tx.birth + EraPeriod => CheckEra(tx)

\* In every block, the birth of the era that create_transaction computes is a
\* block whose hash is known, so that a worker gets its transaction.
WorkerCanSign ==
    Birth(era, number) \in KnownHashes(number)
=============================================================================
