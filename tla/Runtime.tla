------------------------------- MODULE Runtime -------------------------------
(***************************************************************************)
(* The runtime (runtime/src/lib.rs) puts its pallets on one ledger: an     *)
(* extrinsic that has been accepted (module Transactions) pays its fee,    *)
(* then its call is dispatched to a pallet. The fee is paid, and burnt,    *)
(* whether the call succeeds or not; a call that returns Err changes       *)
(* nothing else. The extrinsics of a block run one after the other.        *)
(* Micropayment and DeeperNode meet in the balances of their accounts;     *)
(* the erc20 pallet keeps its own balances and shares no state with them.  *)
(***************************************************************************)
EXTENDS Micropayment, Template

CONSTANTS
    Countries, MIN_LOCK_AMT, NoDevice,
    Fee,       \* what ChargeTransactionPayment computes for an extrinsic
    U64Max,    \* 2^64 - 1, the largest vote of an election
    Idle       \* no extrinsic is being executed

ASSUME RuntimeAssumption ==
    /\ Fee \in Balance \ {0}
    /\ U64Max \in Nat \ {0}
    /\ U32Max = U32Modulus - 1
    /\ 0 \in Countries /\ NoDevice \notin Countries
    /\ MIN_LOCK_AMT \in Balance \ {0}

VARIABLES
    DeviceInfo, ServersByCountry, reaped, stranded,
    executing  \* the extrinsic that has paid its fee and is to be dispatched

DN == INSTANCE DeeperNode

micropaymentVars == <<now, Channel, Nonce, SessionId, vouchers, asked, paid>>
deviceVars == <<DeviceInfo, ServersByCountry, reaped, stranded>>
runtimeVars == <<free, reserved, issuance, now, Channel, Nonce, SessionId, vouchers, asked, paid,
          DeviceInfo, ServersByCountry, reaped, stranded, Something, executing>>

RuntimeInit == Init /\ DN!Init /\ TemplateInit /\ executing = Idle

-----------------------------------------------------------------------------
\* An extrinsic is the name of the call, the account that signed it and the
\* arguments. The calls of construct_runtime that are modelled:
ClaimOf(v) == <<"claim_payment", Receiver(v.pair), v.pair, v.session, v.amount>>
Extrinsics ==
    {<<"open_channel", Sender(p), p, d>> : p \in Pairs, d \in Durations}
    \union {<<"close_channel", Receiver(p), p>> : p \in Pairs}
    \union {ClaimOf(v) : v \in Vouchers}
    \union {<<"unregister_device", a>> : a \in Accounts}
    \union ({"register_device", "register_server", "unregister_server"} \X Accounts \X Countries)
    \union ({"transfer"} \X Accounts \X Accounts \X Amounts)
    \union ({"do_something"} \X Accounts \X Values)
    \union {<<"cause_error", a>> : a \in Accounts}

Total(a) == free[a] + reserved[a]

\* The accounts that this step reaps
Reaped == {a \in Accounts : Total(a) > 0 /\ Total(a)' = 0}

MicropaymentCall(x) ==
    /\ \/ \E p \in Pairs, d \in Durations :
             x = <<"open_channel", Sender(p), p, d>> /\ open_channel(p, d)
       \/ \E p \in Pairs : x = <<"close_channel", Receiver(p), p>> /\ close_channel(p)
       \/ \E v \in Vouchers :
             /\ x = ClaimOf(v)
             /\ ClaimExpired(v.pair) \/ ClaimLive(v.pair, v.session, v.amount)
    /\ reaped' = reaped \union {a \in Reaped : DN!Registered(a)}
    /\ stranded' = [a \in Accounts |-> IF a \in Reaped THEN 0 ELSE stranded[a]]
    /\ UNCHANGED <<DeviceInfo, ServersByCountry, Something>>

DeeperNodeCall(x) ==
    /\ \E a \in Accounts :
          \/ x = <<"unregister_device", a>> /\ DN!unregister_device(a)
          \/ \E c \in Countries :
                \/ x = <<"register_device", a, c>> /\ DN!register_device(a, c)
                \/ x = <<"register_server", a, c>> /\ DN!register_server(a, c)
                \/ x = <<"unregister_server", a, c>> /\ DN!unregister_server(a, c)
          \/ \E to \in Accounts, v \in Amounts :
                x = <<"transfer", a, to, v>> /\ DN!transfer(a, to, v)
    /\ UNCHANGED <<micropaymentVars, Something>>

TemplateCall(x) ==
    /\ \/ \E a \in Accounts, v \in Values :
             x = <<"do_something", a, v>> /\ do_something(v)
       \/ \E a \in Accounts : x = <<"cause_error", a>> /\ cause_error
    /\ UNCHANGED <<balanceVars, micropaymentVars, deviceVars>>

Call(x) == MicropaymentCall(x) \/ DeeperNodeCall(x) \/ TemplateCall(x)

-----------------------------------------------------------------------------
\* ChargeTransactionPayment of an accepted extrinsic. OnTransactionPayment is
\* (): the fee leaves the issuance.
pre_dispatch(x) ==
    /\ executing = Idle
    /\ Withdraw(x[2], Fee)
    /\ executing' = x
    /\ UNCHANGED <<micropaymentVars, deviceVars, Something>>

\* The call of the extrinsic returns Ok.
DispatchOk ==
    /\ executing # Idle
    /\ Call(executing)
    /\ executing' = Idle

\* The call of the extrinsic returns Err.
Accepted == ENABLED Call(executing)
DispatchErr ==
    /\ executing # Idle
    /\ ~Accepted
    /\ executing' = Idle
    /\ UNCHANGED <<balanceVars, micropaymentVars, deviceVars, Something>>

\* Off chain, and between blocks
OffChain ==
    /\ executing = Idle
    /\ NewBlock \/ \E v \in Vouchers : sign(v)
    /\ UNCHANGED <<deviceVars, Something, executing>>

RuntimeNext ==
    \/ \E x \in Extrinsics : pre_dispatch(x)
    \/ DispatchOk
    \/ DispatchErr
    \/ OffChain

RuntimeSpec == RuntimeInit /\ [][RuntimeNext]_runtimeVars

-----------------------------------------------------------------------------
(* CurrencyToVoteHandler: balances as votes of the staking election *)

Factor_one == 1
factor == IF issuance \div U64Max < 1 THEN 1 ELSE issuance \div U64Max
\* `(x / factor) as u64' keeps the low 64 bits.
to_vote(x) == (x \div factor) % (U64Max + 1)
to_balance(v) == v * factor

\* What an account holds and its vote agree up to less than one factor: the
\* cast to u64 cuts nothing off, whatever fees and dust have been burnt
\* since, as long as the other accounts together hold at least u64::MAX (or
\* there is no more than that in all). Without that proviso it does: the
\* factor is rounded down.
VotesFit ==
    \A a \in Accounts :
        (issuance <= U64Max \/ issuance - Total(a) >= U64Max) =>
            /\ to_balance(to_vote(Total(a))) <= Total(a)
            /\ Total(a) < to_balance(to_vote(Total(a)) + 1)

-----------------------------------------------------------------------------
\* Nobody's money moves without its signature: what an account holds shrinks
\* only by an extrinsic that it signed itself (fee and call), or by a claim
\* of a micropayment that it signed for the channel that is open, and then by
\* the amount of that, unless what remains is dust.
SpentAsSigned ==
    [][\A a \in Accounts : Total(a)' < Total(a) =>
          \/ executing = Idle /\ executing'[2] = a
          \/ executing # Idle /\ executing[2] = a
          \/ \E v \in vouchers :
                /\ executing = ClaimOf(v)
                /\ Sender(v.pair) = a
                /\ IsOpen(v.pair) /\ Channel[v.pair].nonce = v.nonce
                /\ Total(a)' = Total(a) - v.amount \/ Total(a)' = 0]_runtimeVars

\* A registered device keeps its deposit through fees, claims and transfers,
\* unless its account died after it registered; a claim of somebody else may
\* be what kills it.
DepositsHeld == DN!DepositHeld

\* Nor do fees, claims and failed calls touch what is in reserve: it is still
\* what registrations have locked and unregistrations have not given back.
DepositsExact == DN!DepositsAccounted
=============================================================================
