-------------------------------- MODULE Erc20 --------------------------------
(***************************************************************************)
(* The erc20 pallet (pallets/erc20/src/lib.rs): any account creates tokens *)
(* and holds, transfers and approves them. The pallet runs in Substrate    *)
(* 2.0.0-rc6, whose dispatchables are not transactional: what one has      *)
(* written before it returns Err stays written. Only transfer_from writes  *)
(* before a check; the other errors change nothing and are steps in which  *)
(* the action is not enabled. Names and tickers, of which only the length  *)
(* is checked, are left out.                                               *)
(***************************************************************************)
EXTENDS Ledger

CONSTANTS
    MaxTokenId,   \* the largest u32; init refuses to use it up
    Supplies,     \* the total supplies tokens are created with
    Values,       \* the values of the calls
    MaxApproved,  \* bound: the total an owner approves by one grant
    NoToken       \* no entry in the Tokens map

TokenIds == 0 .. MaxTokenId
Grants == TokenIds \X Accounts \X Accounts   \* <<token, owner, spender>>

ASSUME Erc20Assumption ==
    /\ MaxTokenId \in Nat
    /\ Supplies \subseteq Balance
    /\ Values \subseteq Balance
    /\ MaxApproved \in Nat
    /\ NoToken \notin Balance

VARIABLES
    TokenId,     \* storage: the next token id
    Tokens,      \* storage: the total supply of each token
    BalanceOf,   \* storage: a sheet for each token, 0 where there is no entry
    holders,     \* the keys of BalanceOf: the accounts with an entry
    Allowance,   \* storage: what a spender may still draw, 0 if no entry
    grants,      \* the keys of Allowance
    created,     \* history: what self-transfers have added to a token
    approved,    \* history: the total approved in a grant
    drawn        \* history: the total transfer_from has moved by a grant

tokenVars == <<TokenId, Tokens>>
balanceOfVars == <<BalanceOf, holders, created>>
allowanceVars == <<Allowance, grants>>
vars == <<TokenId, Tokens, BalanceOf, holders, created, Allowance, grants, approved, drawn>>

Init ==
    /\ TokenId = 0
    /\ Tokens = [id \in TokenIds |-> NoToken]
    /\ BalanceOf = [id \in TokenIds |-> EmptySheet]
    /\ holders = [id \in TokenIds |-> {}]
    /\ Allowance = [g \in Grants |-> 0]
    /\ grants = {}
    /\ created = [id \in TokenIds |-> 0]
    /\ approved = [g \in Grants |-> 0]
    /\ drawn = [g \in Grants |-> 0]

-----------------------------------------------------------------------------
\* TokenId::put(next_token_id)
Next_token_id_same(id) == id
next_token_id(id) == id + 1

\* init(origin, name, ticker, total_supply)
init(sender, total_supply) ==
    /\ TokenId + 1 <= MaxTokenId
    /\ TokenId' = next_token_id(TokenId)
    /\ Tokens' = [Tokens EXCEPT ![TokenId] = total_supply]
    /\ BalanceOf' = [BalanceOf EXCEPT ![TokenId] = [@ EXCEPT ![sender] = total_supply]]
    /\ holders' = [holders EXCEPT ![TokenId] = @ \union {sender}]
    /\ UNCHANGED <<allowanceVars, created, approved, drawn>>

\* The checks of _transfer
CanTransfer_anyBalance(id, from, to, value) ==
    from \in holders[id]
CanTransfer(id, from, to, value) ==
    /\ from \in holders[id]
    /\ value <= BalanceOf[id][from]
    /\ BalanceOf[id][to] + value <= MaxBalance

\* The two inserts of _transfer. Both balances are read before either is
\* written, so that the second insert wins when from = to.
Moved_unread(sheet, from, to, value) ==
    [sheet EXCEPT ![to] = sheet[to] + value]
Moved(sheet, from, to, value) ==
    LET updated_from_balance == sheet[from] - value
        updated_to_balance == sheet[to] + value
    IN [[sheet EXCEPT ![from] = updated_from_balance] EXCEPT ![to] = updated_to_balance]

DoTransfer(id, from, to, value) ==
    /\ CanTransfer(id, from, to, value)
    /\ BalanceOf' = [BalanceOf EXCEPT ![id] = Moved(@, from, to, value)]
    /\ holders' = [holders EXCEPT ![id] = @ \union {to}]
    /\ created' = [created EXCEPT ![id] = @ + IF from = to THEN value ELSE 0]

\* transfer(origin, token_id, to, value)
transfer(id, sender, to, value) ==
    /\ DoTransfer(id, sender, to, value)
    /\ UNCHANGED <<tokenVars, allowanceVars, approved, drawn>>

\* approve(origin, token_id, spender, value): adds to the allowance
approve(id, sender, spender, value) ==
    LET g == <<id, sender, spender>> IN
    /\ sender \in holders[id]
    /\ Allowance[g] + value <= MaxBalance
    /\ approved[g] + value <= MaxApproved
    /\ Allowance' = [Allowance EXCEPT ![g] = @ + value]
    /\ grants' = grants \union {g}
    /\ approved' = [approved EXCEPT ![g] = @ + value]
    /\ UNCHANGED <<tokenVars, balanceOfVars, drawn>>

\* transfer_from(origin, token_id, from, to, value). The origin is not looked
\* at: whoever calls, the tokens go to the approved account `to'. The
\* allowance is written first; if _transfer then fails it stays reduced.
Reduced_not(g, value) == Allowance[g]
Reduced(g, value) == Allowance[g] - value

transfer_from(id, from, to, value) ==
    LET g == <<id, from, to>> IN
    /\ g \in grants
    /\ value <= Allowance[g]
    /\ Allowance' = [Allowance EXCEPT ![g] = Reduced(g, value)]
    /\ \/ /\ DoTransfer(id, from, to, value)
          /\ drawn' = [drawn EXCEPT ![g] = @ + value]
       \/ /\ ~CanTransfer(id, from, to, value)
          /\ UNCHANGED <<balanceOfVars, drawn>>
    /\ UNCHANGED <<tokenVars, grants, approved>>

Next ==
    \/ \E a \in Accounts, supply \in Supplies : init(a, supply)
    \/ \E id \in TokenIds, a, b \in Accounts, value \in Values :
          \/ transfer(id, a, b, value)
          \/ approve(id, a, b, value)
          \/ transfer_from(id, a, b, value)

Spec == Init /\ [][Next]_vars

-----------------------------------------------------------------------------
TypeOK ==
    /\ TokenId \in TokenIds
    /\ Tokens \in [TokenIds -> Balance \union {NoToken}]
    /\ BalanceOf \in [TokenIds -> Sheets]
    /\ holders \in [TokenIds -> SUBSET Accounts]
    /\ Allowance \in [Grants -> Balance]
    /\ grants \subseteq Grants
    /\ created \in [TokenIds -> Nat]
    /\ approved \in [Grants -> Nat]
    /\ drawn \in [Grants -> Nat]

\* The token id that init is about to hand out was never used: it has no
\* details, no balance and no allowance that the new token would inherit.
FreshToken ==
    \A id \in TokenIds : id >= TokenId =>
        /\ Tokens[id] = NoToken
        /\ holders[id] = {}
        /\ BalanceOf[id] = EmptySheet
        /\ \A a, b \in Accounts : Allowance[<<id, a, b>>] = 0

\* "all tokens are unique": the details of a token never change, no later init
\* takes its id.
TokensAreUnique ==
    [][\A id \in TokenIds : Tokens[id] # NoToken => Tokens'[id] = Tokens[id]]_vars

\* The balances of a token add up to its total supply and what transfers from
\* an account to itself have created; no other call creates or destroys any.
SupplyAccounted ==
    \A id \in TokenIds : Tokens[id] # NoToken =>
        SumOf[BalanceOf[id]] = Tokens[id] + created[id]

\* The balances of a token add up to its total supply, as init sets it up
\* ("the balance of the owner is set to total supply") and _transfer, which is
\* to "reduce sender's balance" and "increase receiver's balance", keeps it.
SupplyConstant ==
    \A id \in TokenIds : Tokens[id] # NoToken => SumOf[BalanceOf[id]] = Tokens[id]

\* A spender never draws more than the owner approved, failed attempts and
\* several approvals included.
DrawnWithinApproved ==
    \A g \in Grants : drawn[g] + Allowance[g] <= approved[g]

\* An allowance is decreased by what has been transferred ("the ERC20
\* standard transfer_from function"), so what is left is what was not drawn.
AllowanceIsUndrawn ==
    \A g \in Grants : drawn[g] + Allowance[g] = approved[g]
=============================================================================
