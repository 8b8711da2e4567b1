------------------------------ MODULE Balances ------------------------------
(***************************************************************************)
(* The account ledger of the runtime: pallet_balances, the Currency and    *)
(* ReservableCurrency that the micropayment and deeper_node pallets use.   *)
(* The pallet itself is a library (external); what it is configured with   *)
(* is runtime/src/lib.rs: an existential deposit of 500, dust removal to   *)
(* (), so that the dust of a reaped account is burnt.                      *)
(*                                                                         *)
(* A Currency call that returns Err changes nothing, so it is an action    *)
(* that is not enabled.                                                    *)
(***************************************************************************)
EXTENDS Ledger

CONSTANTS
    ExistentialDeposit,  \* an account whose total falls below it is reaped
    Endowment            \* the free balances of the genesis block

ASSUME DepositAssumption == ExistentialDeposit \in Balance \ {0}

\* The genesis block endows accounts with a live balance or not at all, and
\* its total is a balance (total_issuance has the same type).
ASSUME EndowmentAssumption ==
    /\ Endowment \in Sheets
    /\ \A a \in Accounts : Endowment[a] = 0 \/ Endowment[a] >= ExistentialDeposit
    /\ SumOf[Endowment] \in Balance

VARIABLES
    free,       \* what an account may spend
    reserved,   \* what is locked by a pallet, still the account's own
    issuance    \* total_issuance

balanceVars == <<free, reserved, issuance>>

BalancesTypeOK ==
    /\ free \in Sheets
    /\ reserved \in Sheets
    /\ issuance \in Balance

BalancesInit ==
    /\ free = Endowment
    /\ reserved = EmptySheet
    /\ issuance = SumOf[Endowment]

-----------------------------------------------------------------------------
\* An account that keeps `left' free is dead when its total, reserved part
\* included, is below the existential deposit.
Dies(a, left) == left + reserved[a] < ExistentialDeposit

\* Currency::transfer(from, to, v, AllowDeath). The recipient must end alive;
\* the payer may die, and then what is left of it, reserved part included,
\* is burnt.
CurrencyTransfer(from, to, v) ==
    \/ /\ v = 0 \/ from = to
       /\ UNCHANGED balanceVars
    \/ /\ v # 0 /\ from # to
       /\ v <= free[from]
       /\ free[to] + v <= MaxBalance
       /\ ~Dies(to, free[to] + v)
       /\ LET left == free[from] - v
              dust == IF Dies(from, left) THEN left + reserved[from] ELSE 0
          IN /\ free' = [free EXCEPT ![from] = IF Dies(from, left) THEN 0 ELSE left,
                                     ![to] = @ + v]
             /\ reserved' = [reserved EXCEPT ![from] = IF Dies(from, left) THEN 0 ELSE @]
             /\ issuance' = issuance - dust

\* ReservableCurrency::reserve(a, v)
Reserve(a, v) ==
    /\ v <= free[a]
    /\ reserved[a] + v <= MaxBalance
    /\ free' = [free EXCEPT ![a] = @ - v]
    /\ reserved' = [reserved EXCEPT ![a] = @ + v]
    /\ UNCHANGED issuance

\* ReservableCurrency::unreserve(a, v): gives back what there is, up to v,
\* and never fails.
Unreserve(a, v) ==
    LET actual == IF reserved[a] < v THEN reserved[a] ELSE v
    IN /\ free' = [free EXCEPT ![a] = @ + actual]
       /\ reserved' = [reserved EXCEPT ![a] = @ - actual]
       /\ UNCHANGED issuance

\* Currency::withdraw(a, v, .., KeepAlive), whose imbalance is dropped: v is
\* burnt, and the account must survive it.
Withdraw(a, v) ==
    /\ v <= free[a]
    /\ ~Dies(a, free[a] - v)
    /\ free' = [free EXCEPT ![a] = @ - v]
    /\ issuance' = issuance - v
    /\ UNCHANGED reserved

-----------------------------------------------------------------------------
\* Every unit of the issuance is in exactly one account, free or reserved,
\* and the dust of reaped accounts leaves both sides (the imbalances that
\* Currency::transfer and DustRemoval = () produce cancel out).
Conservation == SumOf[free] + SumOf[reserved] = issuance

\* No account lingers below the existential deposit: it is alive or empty.
NoDust == \A a \in Accounts :
             \/ free[a] + reserved[a] >= ExistentialDeposit
             \/ free[a] = 0 /\ reserved[a] = 0
=============================================================================
