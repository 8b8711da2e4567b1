------------------------------ MODULE MCRuntime ------------------------------
(***************************************************************************)
(* Runtime on two accounts with channels in both directions.               *)
(***************************************************************************)
EXTENDS Runtime, FiniteSetsExt, TLC

CONSTANTS alice, bob

MCSumOf == [f \in [Accounts -> 0 .. MaxBalance] |-> MapThenSumSet(LAMBDA a : f[a], Accounts)]
MCEndowment == (alice :> 6 @@ bob :> 3)

TwoWay == {<<alice, bob>>, <<bob, alice>>}
TwoWayVouchers ==
    {[pair |-> <<alice, bob>>, nonce |-> 0, session |-> 1, amount |-> 2],
     [pair |-> <<alice, bob>>, nonce |-> 1, session |-> 1, amount |-> 2],
     [pair |-> <<bob, alice>>, nonce |-> 0, session |-> 1, amount |-> 1]}
=============================================================================
