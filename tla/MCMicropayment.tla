--------------------------- MODULE MCMicropayment ---------------------------
(***************************************************************************)
(* Micropayment on two accounts.                                           *)
(***************************************************************************)
EXTENDS Micropayment, FiniteSetsExt, TLC

CONSTANTS alice, bob

MCSumOf == [f \in [Accounts -> 0 .. MaxBalance] |-> MapThenSumSet(LAMBDA a : f[a], Accounts)]

\* alice is rich enough for two claims, the second of which leaves dust;
\* bob is just alive.
MCEndowment == (alice :> 4 @@ bob :> 2)

Voucher(from, to, n, s, v) == [pair |-> <<from, to>>, nonce |-> n, session |-> s, amount |-> v]

\* Two running totals of a session, another session, and the next channel's.
OneWay == {<<alice, bob>>, <<alice, alice>>}
OneWayVouchers ==
    {Voucher(alice, bob, 0, 1, 1), Voucher(alice, bob, 0, 1, 2),
     Voucher(alice, bob, 0, 2, 2), Voucher(alice, bob, 1, 1, 1)}

\* One voucher for each of two channels in a row, for the runs about time.
LiveVouchers == {Voucher(alice, bob, 0, 1, 2), Voucher(alice, bob, 1, 1, 1)}
=============================================================================
