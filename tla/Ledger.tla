------------------------------- MODULE Ledger -------------------------------
(***************************************************************************)
(* Balance sheets: what every account holds of a currency or a token, and  *)
(* the sum over the accounts.                                              *)
(***************************************************************************)
EXTENDS Integers

CONSTANTS
    Accounts,    \* the account identifiers
    MaxBalance,  \* the largest value of the balance type
    SumOf        \* the sum of the values of a balance sheet

Balance == 0 .. MaxBalance
Sheets == [Accounts -> Balance]
EmptySheet == [a \in Accounts |-> 0]

\* SumOf is addition over the accounts: it is 0 on the empty sheet, and
\* follows every update of a single account.
ASSUME SumOfAssumption ==
    /\ MaxBalance \in Nat
    /\ SumOf \in [Sheets -> Nat]
    /\ SumOf[EmptySheet] = 0
    /\ \A f \in Sheets, a \in Accounts, v \in Balance :
          SumOf[[f EXCEPT ![a] = v]] = SumOf[f] - f[a] + v
=============================================================================
