----------------------------- MODULE Erc20Proofs -----------------------------
(***************************************************************************)
(* The supply and the allowances of the erc20 pallet, for any accounts,    *)
(* tokens and values.                                                      *)
(***************************************************************************)
EXTENDS Erc20, LedgerProofs

\* SupplyAccounted needs that a new token starts from nothing: FreshToken, and
\* that no self-transfer was booked for a token that does not exist yet.
CreatedFresh == \A id \in TokenIds : id >= TokenId => created[id] = 0
IndInv == TypeOK /\ FreshToken /\ CreatedFresh /\ SupplyAccounted /\ DrawnWithinApproved

-----------------------------------------------------------------------------
\* The two inserts of _transfer add `value' when the accounts are the same,
\* and nothing otherwise.
LEMMA MovedSum ==
    ASSUME NEW sheet \in Sheets, NEW from \in Accounts, NEW to \in Accounts, NEW value \in Balance,
           value <= sheet[from], sheet[to] + value <= MaxBalance
    PROVE  /\ Moved(sheet, from, to, value) \in Sheets
           /\ SumOf[Moved(sheet, from, to, value)]
                 = SumOf[sheet] + (IF from = to THEN value ELSE 0)
  <1> DEFINE x == sheet[from] - value
             y == sheet[to] + value
  <1>1. /\ MaxBalance \in Nat /\ value \in Nat /\ SumOf[sheet] \in Nat
        /\ sheet[from] \in Balance /\ sheet[to] \in Balance
    BY SumOfAssumption, SumOfType DEF Sheets, Balance
  <1>2. x \in Balance /\ y \in Balance
    BY <1>1 DEF Balance
  <1>3. Moved(sheet, from, to, value) = [[sheet EXCEPT ![from] = x] EXCEPT ![to] = y]
    BY DEF Moved
  <1> HIDE DEF x, y
  <1>4. CASE from = to
    <2>1. [[sheet EXCEPT ![from] = x] EXCEPT ![to] = y] = [sheet EXCEPT ![to] = y]
      BY <1>4 DEF Sheets
    <2>2. [sheet EXCEPT ![to] = y] \in Sheets
      BY <1>2 DEF Sheets
    <2>3. SumOf[[sheet EXCEPT ![to] = y]] = SumOf[sheet] - sheet[to] + y
      BY <1>2, SumOfAssumption
    <2>4. SumOf[sheet] - sheet[to] + y = SumOf[sheet] + value
      BY <1>1 DEF y, Balance
    <2> QED
      BY <1>3, <1>4, <2>1, <2>2, <2>3, <2>4
  <1>5. CASE from # to
    <2>1. [[sheet EXCEPT ![from] = x] EXCEPT ![to] = y] = [sheet EXCEPT ![from] = x, ![to] = y]
      BY DEF Sheets
    <2>2. /\ [sheet EXCEPT ![from] = x, ![to] = y] \in Sheets
          /\ SumOf[[sheet EXCEPT ![from] = x, ![to] = y]]
                = SumOf[sheet] - sheet[from] + x - sheet[to] + y
      BY <1>2, <1>5, SumOfTwo, ZenonT(30)
    <2>3. SumOf[sheet] - sheet[from] + x - sheet[to] + y = SumOf[sheet] + 0
      BY <1>1 DEF x, y, Balance
    <2> QED
      BY <1>3, <1>5, <2>1, <2>2, <2>3
  <1> QED
    BY <1>4, <1>5

\* The empty storage satisfies the inductive invariant.
LEMMA InitIndInv == Init => IndInv
  <1> SUFFICES ASSUME Init PROVE IndInv
    OBVIOUS
  <1>1. EmptySheet \in Sheets
    BY SumOfAssumption DEF EmptySheet, Sheets, Balance
  <1>2. TypeOK
    BY <1>1, Erc20Assumption, SumOfAssumption DEF Init, TypeOK, TokenIds, Balance
  <1>3. FreshToken
    BY DEF Init, FreshToken, Grants
  <1>4. SupplyAccounted /\ CreatedFresh
    BY DEF Init, SupplyAccounted, CreatedFresh
  <1>5. DrawnWithinApproved
    BY DEF Init, DrawnWithinApproved
  <1> QED
    BY <1>2, <1>3, <1>4, <1>5 DEF IndInv

\* init uses an id that has neither holders nor balances.
LEMMA TokenInitKeepsInv ==
    ASSUME IndInv, NEW a \in Accounts, NEW supply \in Supplies, init(a, supply)
    PROVE  IndInv'
  <1> DEFINE id0 == TokenId
  <1>1. /\ TokenId + 1 <= MaxTokenId
        /\ TokenId' = TokenId + 1
        /\ Tokens' = [Tokens EXCEPT ![id0] = supply]
        /\ BalanceOf' = [BalanceOf EXCEPT ![id0] = [@ EXCEPT ![a] = supply]]
        /\ holders' = [holders EXCEPT ![id0] = @ \union {a}]
        /\ UNCHANGED <<Allowance, grants, created, approved, drawn>>
    BY DEF init, next_token_id, allowanceVars
  <1>2. TypeOK /\ supply \in Balance /\ id0 \in TokenIds /\ id0 \in Nat
    BY Erc20Assumption DEF IndInv, TypeOK, TokenIds
  <1>3. /\ BalanceOf[id0] = EmptySheet /\ EmptySheet \in Sheets /\ EmptySheet[a] = 0
        /\ created[id0] = 0
    BY <1>2 DEF IndInv, FreshToken, CreatedFresh, TypeOK, EmptySheet
  <1>4. BalanceOf'[id0] = [EmptySheet EXCEPT ![a] = supply] /\ BalanceOf'[id0] \in Sheets
    BY <1>1, <1>2, <1>3 DEF TypeOK, Sheets
  <1>5. SumOf[BalanceOf'[id0]] = supply
    <2>1. SumOf[[EmptySheet EXCEPT ![a] = supply]] = SumOf[EmptySheet] - EmptySheet[a] + supply
      BY <1>2, <1>3, SumOfAssumption
    <2>2. SumOf[EmptySheet] = 0 /\ supply \in Nat
      BY <1>2, SumOfAssumption DEF Balance
    <2> QED
      BY <1>3, <1>4, <2>1, <2>2
  <1>6. \A id \in TokenIds : id # id0 =>
           /\ Tokens'[id] = Tokens[id] /\ BalanceOf'[id] = BalanceOf[id]
           /\ holders'[id] = holders[id]
    BY <1>1, <1>2 DEF TypeOK
  <1>7. TypeOK'
    <2>1. TokenId' \in TokenIds
      BY <1>1, <1>2, Erc20Assumption DEF TokenIds
    <2>2. Tokens' \in [TokenIds -> Balance \union {NoToken}]
      BY <1>1, <1>2 DEF TypeOK
    <2>3. BalanceOf' \in [TokenIds -> Sheets]
      BY <1>1, <1>2, <1>4 DEF TypeOK
    <2>4. holders' \in [TokenIds -> SUBSET Accounts]
      BY <1>1, <1>2 DEF TypeOK
    <2> QED
      BY <1>1, <1>2, <2>1, <2>2, <2>3, <2>4 DEF TypeOK
  <1>8. FreshToken' /\ CreatedFresh'
    <2> SUFFICES ASSUME NEW id \in TokenIds, id >= TokenId'
                 PROVE  (/\ Tokens[id] = NoToken /\ holders[id] = {}
                         /\ BalanceOf[id] = EmptySheet
                         /\ \A b, c \in Accounts : Allowance[<<id, b, c>>] = 0
                         /\ created[id] = 0)'
      BY DEF FreshToken, CreatedFresh
    <2>1. id # id0 /\ id >= TokenId
      BY <1>1, <1>2 DEF TokenIds
    <2> QED
      BY <1>1, <1>6, <2>1 DEF IndInv, FreshToken, CreatedFresh
  <1>9. SupplyAccounted'
    <2> SUFFICES ASSUME NEW id \in TokenIds, Tokens'[id] # NoToken
                 PROVE  SumOf[BalanceOf'[id]] = Tokens'[id] + created'[id]
      BY DEF SupplyAccounted
    <2>1. CASE id = id0
      <3>1. Tokens'[id0] = supply /\ created'[id0] = 0 /\ supply \in Nat
        BY <1>1, <1>2, <1>3, SumOfAssumption DEF TypeOK, Balance
      <3> QED
        BY <1>5, <2>1, <3>1
    <2>2. CASE id # id0
      BY <1>1, <1>6, <2>2 DEF IndInv, SupplyAccounted
    <2> QED
      BY <2>1, <2>2
  <1>10. DrawnWithinApproved'
    BY <1>1 DEF IndInv, DrawnWithinApproved
  <1> QED
    BY <1>7, <1>8, <1>9, <1>10 DEF IndInv

\* _transfer touches one token, which exists, and books what it creates.
LEMMA DoTransferKeepsSupply ==
    ASSUME IndInv, NEW id \in TokenIds, NEW from \in Accounts, NEW to \in Accounts,
           NEW value \in Values, DoTransfer(id, from, to, value), UNCHANGED tokenVars
    PROVE  /\ id < TokenId
           /\ BalanceOf' \in [TokenIds -> Sheets]
           /\ holders' \in [TokenIds -> SUBSET Accounts]
           /\ created' \in [TokenIds -> Nat]
           /\ \A i \in TokenIds : i # id =>
                 /\ BalanceOf'[i] = BalanceOf[i] /\ holders'[i] = holders[i]
                 /\ created'[i] = created[i]
           /\ SupplyAccounted'
  <1> DEFINE more == IF from = to THEN value ELSE 0
  <1>1. TypeOK /\ value \in Balance /\ value \in Nat /\ MaxBalance \in Nat
    BY Erc20Assumption, SumOfAssumption DEF IndInv, Balance
  <1>2. /\ from \in holders[id] /\ value <= BalanceOf[id][from]
        /\ BalanceOf[id][to] + value <= MaxBalance
        /\ BalanceOf' = [BalanceOf EXCEPT ![id] = Moved(@, from, to, value)]
        /\ holders' = [holders EXCEPT ![id] = @ \union {to}]
        /\ created' = [created EXCEPT ![id] = @ + more]
        /\ Tokens' = Tokens /\ TokenId' = TokenId
    BY DEF DoTransfer, CanTransfer, tokenVars
  <1>3. id < TokenId
    <2>1. ~(id >= TokenId)
      BY <1>2 DEF IndInv, FreshToken
    <2> QED
      BY <1>1, <2>1, Erc20Assumption DEF TypeOK, TokenIds
  <1>4. BalanceOf[id] \in Sheets /\ created[id] \in Nat /\ more \in Nat
    BY <1>1 DEF TypeOK
  <1> HIDE DEF more
  <1>5. /\ Moved(BalanceOf[id], from, to, value) \in Sheets
        /\ SumOf[Moved(BalanceOf[id], from, to, value)] = SumOf[BalanceOf[id]] + more
    BY <1>1, <1>2, <1>4, MovedSum DEF more
  <1>6. /\ BalanceOf' \in [TokenIds -> Sheets]
        /\ holders' \in [TokenIds -> SUBSET Accounts]
        /\ created' \in [TokenIds -> Nat]
        /\ BalanceOf'[id] = Moved(BalanceOf[id], from, to, value)
        /\ created'[id] = created[id] + more
        /\ \A i \in TokenIds : i # id =>
              /\ BalanceOf'[i] = BalanceOf[i] /\ holders'[i] = holders[i]
              /\ created'[i] = created[i]
    BY <1>1, <1>2, <1>4, <1>5 DEF TypeOK
  <1>7. SupplyAccounted'
    <2> SUFFICES ASSUME NEW i \in TokenIds, Tokens[i] # NoToken
                 PROVE  SumOf[BalanceOf'[i]] = Tokens[i] + created'[i]
      BY <1>2 DEF SupplyAccounted
    <2>1. CASE i = id
      <3>1. SumOf[BalanceOf[id]] = Tokens[id] + created[id] /\ Tokens[id] \in Nat
        BY <1>1, <2>1, SumOfAssumption DEF IndInv, SupplyAccounted, TypeOK, Balance
      <3> QED
        BY <1>4, <1>5, <1>6, <2>1, <3>1
    <2>2. CASE i # id
      BY <1>6, <2>2 DEF IndInv, SupplyAccounted
    <2> QED
      BY <2>1, <2>2
  <1> QED
    BY <1>3, <1>6, <1>7

\* What a transfer of a token that exists does not disturb.
LEMMA FreshKept ==
    ASSUME IndInv, NEW id \in TokenIds, id < TokenId, UNCHANGED tokenVars,
           \A i \in TokenIds : i # id =>
                 /\ BalanceOf'[i] = BalanceOf[i] /\ holders'[i] = holders[i]
                 /\ created'[i] = created[i],
           \A g \in Grants : g[1] # id => Allowance'[g] = Allowance[g]
    PROVE  FreshToken' /\ CreatedFresh'
  <1> SUFFICES ASSUME NEW i \in TokenIds, i >= TokenId
               PROVE  (/\ Tokens[i] = NoToken /\ holders[i] = {}
                       /\ BalanceOf[i] = EmptySheet
                       /\ \A b, c \in Accounts : Allowance[<<i, b, c>>] = 0
                       /\ created[i] = 0)'
    BY DEF FreshToken, CreatedFresh, tokenVars
  <1>1. i # id
    BY Erc20Assumption DEF IndInv, TypeOK, TokenIds
  <1>2. \A b, c \in Accounts : <<i, b, c>> \in Grants /\ <<i, b, c>>[1] # id
    BY <1>1 DEF Grants
  <1>3. \A b, c \in Accounts : Allowance'[<<i, b, c>>] = 0
    BY <1>2 DEF IndInv, FreshToken
  <1> QED
    BY <1>1, <1>3 DEF IndInv, FreshToken, CreatedFresh, tokenVars

\* transfer keeps the invariant.
LEMMA TransferKeepsInv ==
    ASSUME IndInv, NEW id \in TokenIds, NEW a \in Accounts, NEW b \in Accounts,
           NEW value \in Values, transfer(id, a, b, value)
    PROVE  IndInv'
  <1>1. /\ DoTransfer(id, a, b, value) /\ UNCHANGED tokenVars
        /\ UNCHANGED <<TokenId, Tokens, Allowance, grants, approved, drawn>>
    BY DEF transfer, tokenVars, allowanceVars
  <1>2. FreshToken' /\ CreatedFresh'
    BY <1>1, DoTransferKeepsSupply, FreshKept
  <1>3. TypeOK' /\ SupplyAccounted'
    BY <1>1, DoTransferKeepsSupply DEF IndInv, TypeOK
  <1>4. DrawnWithinApproved'
    BY <1>1 DEF IndInv, DrawnWithinApproved
  <1> QED
    BY <1>2, <1>3, <1>4 DEF IndInv

\* approve raises the allowance and what was approved alike.
LEMMA ApproveKeepsInv ==
    ASSUME IndInv, NEW id \in TokenIds, NEW a \in Accounts, NEW b \in Accounts,
           NEW value \in Values, approve(id, a, b, value)
    PROVE  IndInv'
  <1> DEFINE g0 == <<id, a, b>>
  <1>1. /\ a \in holders[id] /\ Allowance[g0] + value <= MaxBalance
        /\ Allowance' = [Allowance EXCEPT ![g0] = @ + value]
        /\ grants' = grants \union {g0}
        /\ approved' = [approved EXCEPT ![g0] = @ + value]
        /\ UNCHANGED tokenVars
        /\ UNCHANGED <<TokenId, Tokens, BalanceOf, holders, created, drawn>>
    BY DEF approve, tokenVars, balanceOfVars
  <1>2. TypeOK /\ g0 \in Grants /\ value \in Nat /\ MaxBalance \in Nat
    BY Erc20Assumption, SumOfAssumption DEF IndInv, Balance, Grants
  <1>3. Allowance[g0] \in Nat /\ approved[g0] \in Nat /\ drawn[g0] \in Nat
    BY <1>2 DEF TypeOK, Balance
  <1>4. /\ Allowance'[g0] = Allowance[g0] + value /\ approved'[g0] = approved[g0] + value
        /\ \A g \in Grants : g # g0 => Allowance'[g] = Allowance[g] /\ approved'[g] = approved[g]
    BY <1>1, <1>2 DEF TypeOK
  <1>5. TypeOK'
    <2>1. Allowance' \in [Grants -> Balance]
      BY <1>1, <1>2, <1>3 DEF TypeOK, Balance
    <2>2. approved' \in [Grants -> Nat]
      BY <1>1, <1>2, <1>3 DEF TypeOK
    <2> QED
      BY <1>1, <1>2, <2>1, <2>2 DEF TypeOK
  <1>6. id < TokenId
    <2>1. ~(id >= TokenId)
      BY <1>1 DEF IndInv, FreshToken
    <2> QED
      BY <1>2, <2>1, Erc20Assumption DEF TypeOK, TokenIds
  <1>7. FreshToken' /\ CreatedFresh'
    <2>1. \A g \in Grants : g[1] # id => Allowance'[g] = Allowance[g]
      BY <1>4
    <2> QED
      BY <1>1, <1>6, <2>1, FreshKept
  <1>8. SupplyAccounted'
    BY <1>1 DEF IndInv, SupplyAccounted
  <1>9. DrawnWithinApproved'
    <2> SUFFICES ASSUME NEW g \in Grants PROVE drawn[g] + Allowance'[g] <= approved'[g]
      BY <1>1 DEF DrawnWithinApproved
    <2>1. drawn[g] + Allowance[g] <= approved[g]
      BY DEF IndInv, DrawnWithinApproved
    <2>2. CASE g = g0
      BY <1>2, <1>3, <1>4, <2>1, <2>2
    <2>3. CASE g # g0
      BY <1>4, <2>1, <2>3
    <2> QED
      BY <2>2, <2>3
  <1> QED
    BY <1>5, <1>7, <1>8, <1>9 DEF IndInv

\* transfer_from lowers the allowance first; it is drawn at most once for it,
\* and not at all when _transfer fails.
LEMMA TransferFromKeepsInv ==
    ASSUME IndInv, NEW id \in TokenIds, NEW a \in Accounts, NEW b \in Accounts,
           NEW value \in Values, transfer_from(id, a, b, value)
    PROVE  IndInv'
  <1> DEFINE g0 == <<id, a, b>>
  <1>1. /\ g0 \in grants /\ value <= Allowance[g0]
        /\ Allowance' = [Allowance EXCEPT ![g0] = Allowance[g0] - value]
        /\ \/ DoTransfer(id, a, b, value) /\ drawn' = [drawn EXCEPT ![g0] = @ + value]
           \/ UNCHANGED <<BalanceOf, holders, created, drawn>>
        /\ UNCHANGED tokenVars
        /\ UNCHANGED <<TokenId, Tokens, grants, approved>>
    BY DEF transfer_from, Reduced, tokenVars, balanceOfVars
  <1>2. TypeOK /\ g0 \in Grants /\ value \in Nat /\ MaxBalance \in Nat
    BY Erc20Assumption, SumOfAssumption DEF IndInv, Balance, Grants
  <1>3. Allowance[g0] \in Balance /\ Allowance[g0] \in Nat /\ approved[g0] \in Nat /\ drawn[g0] \in Nat
    BY <1>2 DEF TypeOK, Balance
  <1>4. /\ Allowance'[g0] = Allowance[g0] - value
        /\ Allowance' \in [Grants -> Balance]
        /\ \A g \in Grants : g # g0 => Allowance'[g] = Allowance[g]
    <2>1. Allowance[g0] - value \in Balance
      BY <1>1, <1>2, <1>3 DEF Balance
    <2> QED
      BY <1>1, <1>2, <2>1 DEF TypeOK
  <1>5. /\ drawn' \in [Grants -> Nat]
        /\ \A g \in Grants : g # g0 => drawn'[g] = drawn[g]
        /\ drawn'[g0] \in {drawn[g0], drawn[g0] + value}
    BY <1>1, <1>2, <1>3 DEF TypeOK
  <1>6. DrawnWithinApproved'
    <2> SUFFICES ASSUME NEW g \in Grants PROVE drawn'[g] + Allowance'[g] <= approved[g]
      BY <1>1 DEF DrawnWithinApproved
    <2>1. drawn[g] + Allowance[g] <= approved[g]
      BY DEF IndInv, DrawnWithinApproved
    <2>2. CASE g = g0
      BY <1>2, <1>3, <1>4, <1>5, <2>1, <2>2
    <2>3. CASE g # g0
      BY <1>4, <1>5, <2>1, <2>3
    <2> QED
      BY <2>2, <2>3
  <1>7. \A g \in Grants : g[1] # id => Allowance'[g] = Allowance[g]
    BY <1>4
  <1>8. CASE DoTransfer(id, a, b, value)
    <2>1. FreshToken' /\ CreatedFresh'
      BY <1>1, <1>7, <1>8, DoTransferKeepsSupply, FreshKept
    <2>2. TypeOK' /\ SupplyAccounted'
      BY <1>1, <1>2, <1>4, <1>5, <1>8, DoTransferKeepsSupply DEF TypeOK
    <2> QED
      BY <1>6, <2>1, <2>2 DEF IndInv
  <1>9. CASE UNCHANGED <<BalanceOf, holders, created, drawn>>
    <2>1. TypeOK' /\ SupplyAccounted'
      BY <1>1, <1>2, <1>4, <1>5, <1>9 DEF TypeOK, IndInv, SupplyAccounted
    <2>2. FreshToken' /\ CreatedFresh'
      <3> SUFFICES ASSUME NEW i \in TokenIds, i >= TokenId, NEW c \in Accounts, NEW d \in Accounts
                   PROVE  Allowance'[<<i, c, d>>] = 0
        BY <1>1, <1>9 DEF IndInv, FreshToken, CreatedFresh
      <3>1. <<i, c, d>> \in Grants /\ Allowance[<<i, c, d>>] = 0
        BY DEF IndInv, FreshToken, Grants
      <3>2. CASE <<i, c, d>> = g0
        BY <1>1, <1>2, <1>4, <3>1, <3>2
      <3>3. CASE <<i, c, d>> # g0
        BY <1>4, <3>1, <3>3
      <3> QED
        BY <3>2, <3>3
    <2> QED
      BY <1>6, <2>1, <2>2 DEF IndInv
  <1> QED
    BY <1>1, <1>8, <1>9

\* Every call keeps the inductive invariant.
LEMMA NextIndInv == IndInv /\ [Next]_vars => IndInv'
  <1> SUFFICES ASSUME IndInv, [Next]_vars PROVE IndInv'
    OBVIOUS
  <1>1. CASE UNCHANGED vars
    BY <1>1 DEF vars, IndInv, TypeOK, FreshToken, CreatedFresh, SupplyAccounted, DrawnWithinApproved
  <1>2. CASE Next
    BY <1>2, TokenInitKeepsInv, TransferKeepsInv, ApproveKeepsInv, TransferFromKeepsInv DEF Next
  <1> QED
    BY <1>1, <1>2

\* The inductive invariant holds of every reachable state.
THEOREM Invariance == Spec => []IndInv
  BY InitIndInv, NextIndInv, PTL DEF Spec

\* Only transfers from an account to itself change the sum of a token's
\* balances.
THEOREM SupplyIsAccounted == Spec => []SupplyAccounted
  <1>1. IndInv => SupplyAccounted
    BY DEF IndInv
  <1> QED
    BY Invariance, <1>1, PTL

\* No sequence of approvals and transfer_from calls, failing ones included,
\* draws more than was approved.
THEOREM DrawsAreApproved == Spec => []DrawnWithinApproved
  <1>1. IndInv => DrawnWithinApproved
    BY DEF IndInv
  <1> QED
    BY Invariance, <1>1, PTL

\* init never reuses the id of a token.
THEOREM TokensStayUnique == Spec => TokensAreUnique
  <1>1. IndInv /\ [Next]_vars =>
           [\A id \in TokenIds : Tokens[id] # NoToken => Tokens'[id] = Tokens[id]]_vars
    <2> DEFINE Keeps == \A id \in TokenIds : Tokens[id] # NoToken => Tokens'[id] = Tokens[id]
    <2> SUFFICES ASSUME IndInv, Next PROVE Keeps
      OBVIOUS
    <2> SUFFICES ASSUME NEW id \in TokenIds, Tokens[id] # NoToken
                 PROVE  Tokens'[id] = Tokens[id]
      OBVIOUS
    <2>1. ASSUME NEW a \in Accounts, NEW supply \in Supplies, init(a, supply)
          PROVE  Tokens'[id] = Tokens[id]
      <3>1. id # TokenId
        BY Erc20Assumption DEF IndInv, FreshToken, TypeOK, TokenIds
      <3> QED
        BY <2>1, <3>1 DEF init, IndInv, TypeOK
    <2>2. CASE UNCHANGED tokenVars
      BY <2>2 DEF tokenVars
    <2>3. ASSUME NEW i \in TokenIds, NEW a \in Accounts, NEW b \in Accounts, NEW value \in Values,
                 transfer(i, a, b, value) \/ approve(i, a, b, value) \/ transfer_from(i, a, b, value)
          PROVE  UNCHANGED tokenVars
      BY <2>3 DEF transfer, approve, transfer_from, tokenVars
    <2> QED
      BY <2>1, <2>2, <2>3 DEF Next
  <1> QED
    BY <1>1, Invariance, PTL DEF Spec, TokensAreUnique

\* The pallet's storage keeps its types: no balance, allowance or token id
\* outgrows its integer type.
THEOREM TokenTypes == Spec => []TypeOK
  <1>1. IndInv => TypeOK
    BY DEF IndInv
  <1> QED
    BY Invariance, <1>1, PTL

\* No balance or allowance waits under an id that init has yet to hand out.
THEOREM TokensStartFresh == Spec => []FreshToken
  <1>1. IndInv => FreshToken
    BY DEF IndInv
  <1> QED
    BY Invariance, <1>1, PTL
=============================================================================
