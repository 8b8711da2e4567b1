---------------------------- MODULE LedgerProofs ----------------------------
(***************************************************************************)
(* Sums of balance sheets, for any accounts and any balance type.          *)
(***************************************************************************)
EXTENDS Ledger, TLAPS

\* A sheet holds balances, and its sum is a natural number.
LEMMA SumOfType ==
    /\ \A f \in Sheets : SumOf[f] \in Nat
    /\ \A f \in Sheets, a \in Accounts : f[a] \in Nat
  <1>1. \A f \in Sheets : SumOf[f] \in Nat
    BY SumOfAssumption
  <1>2. \A f \in Sheets, a \in Accounts : f[a] \in Nat
    BY SumOfAssumption DEF Sheets, Balance
  <1> QED
    BY <1>1, <1>2

\* Updating two accounts moves the sum by both differences.
LEMMA SumOfTwo ==
    ASSUME NEW f \in Sheets, NEW a \in Accounts, NEW b \in Accounts, a # b,
           NEW x \in Balance, NEW y \in Balance
    PROVE  /\ [f EXCEPT ![a] = x, ![b] = y] \in Sheets
           /\ SumOf[[f EXCEPT ![a] = x, ![b] = y]] = SumOf[f] - f[a] + x - f[b] + y
  <1> DEFINE g == [f EXCEPT ![a] = x]
  <1>1. g \in Sheets /\ g[b] = f[b]
    BY DEF Sheets
  <1>2. SumOf[g] = SumOf[f] - f[a] + x
    BY SumOfAssumption
  <1>3. SumOf[[g EXCEPT ![b] = y]] = SumOf[g] - g[b] + y
    BY <1>1, SumOfAssumption
  <1>4. [f EXCEPT ![a] = x, ![b] = y] = [g EXCEPT ![b] = y]
    BY DEF Sheets
  <1>5. [g EXCEPT ![b] = y] \in Sheets
    BY <1>1 DEF Sheets
  <1>6. SumOf[f] \in Nat /\ f[a] \in Nat /\ f[b] \in Nat /\ SumOf[g] \in Nat
    BY <1>1, SumOfType
  <1> QED
    BY <1>1, <1>2, <1>3, <1>4, <1>5, <1>6 DEF Balance

\* No account holds more than the sum: without it the rest would be negative.
LEMMA SumOfBounds ==
    ASSUME NEW f \in Sheets, NEW a \in Accounts
    PROVE  f[a] <= SumOf[f]
  <1> DEFINE g == [f EXCEPT ![a] = 0]
  <1>1. 0 \in Balance
    BY SumOfAssumption DEF Balance
  <1>2. g \in Sheets
    BY <1>1 DEF Sheets
  <1>3. SumOf[g] = SumOf[f] - f[a] + 0
    BY <1>1, SumOfAssumption
  <1>4. SumOf[g] \in Nat /\ SumOf[f] \in Nat /\ f[a] \in Nat
    BY <1>2, SumOfType
  <1> QED
    BY <1>3, <1>4
=============================================================================
