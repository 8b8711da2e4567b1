------------------------------- MODULE MCErc20 -------------------------------
(***************************************************************************)
(* Erc20 on two accounts.                                                  *)
(***************************************************************************)
EXTENDS Erc20, FiniteSetsExt, TLC

MCSumOf == [f \in [Accounts -> 0 .. MaxBalance] |-> MapThenSumSet(LAMBDA a : f[a], Accounts)]

\* Bound: at most two entries in the Allowance map, of any tokens and accounts
FewGrants == Cardinality(grants) <= 2
=============================================================================
