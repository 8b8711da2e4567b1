---------------------------- MODULE MCDeeperNode ----------------------------
(***************************************************************************)
(* DeeperNode on two or three accounts that start alike, and country 0.    *)
(***************************************************************************)
EXTENDS DeeperNode, FiniteSetsExt, TLC

MCSumOf == [f \in [Accounts -> 0 .. MaxBalance] |-> MapThenSumSet(LAMBDA a : f[a], Accounts)]
MCEndowment == [a \in Accounts |-> MaxBalance \div Cardinality(Accounts)]

\* The accounts play the same roles.
AccountSymmetry == Permutations(Accounts)
=============================================================================
