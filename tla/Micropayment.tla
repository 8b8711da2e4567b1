---------------------------- MODULE Micropayment ----------------------------
(***************************************************************************)
(* The micropayment pallet (pallets/micropayment/src/lib.rs): one-way      *)
(* payment channels between two accounts. The sender opens a channel,      *)
(* signs accumulated micropayments off chain, one running total for each   *)
(* session; the receiver presents at most one of them per session to       *)
(* claim_payment, before the channel expires or is closed.                 *)
(*                                                                         *)
(* A dispatchable that returns Err, and a trap of the runtime, change no   *)
(* storage: they are steps in which the action is not enabled. A channel   *)
(* is keyed by the pair <<sender, receiver>>.                              *)
(***************************************************************************)
EXTENDS Balances, Timestamp

CONSTANTS
    Pairs,            \* the pairs <<sender, receiver>> that may have a channel
    Amounts,          \* the amounts of the accounts' own transfers
    SessionIds,       \* u32 session numbers chosen by the two clients
    Durations,        \* the durations asked of open_channel, u32 seconds
    MillisPerSecond,  \* 1000
    U32Modulus,       \* 2^32, the width of the multiplication in open_channel
    MaxNonce,         \* the largest u64 nonce; TLC's runs end there
    Vouchers,         \* the micropayments that senders may sign
    NoChannel         \* no entry in the Channel map

Nonces == 0 .. MaxNonce
Keys == Pairs \X Nonces \X SessionIds
Chan == [nonce : Nonces, opened : Moment, expiration : Moment]

ASSUME MicropaymentAssumption ==
    /\ Pairs \subseteq Accounts \X Accounts
    /\ Amounts \subseteq Balance
    /\ Durations \subseteq Nat
    /\ MillisPerSecond \in Nat \ {0}
    /\ U32Modulus \in Nat \ {0}
    /\ MaxNonce \in Nat
    /\ Vouchers \subseteq [pair : Pairs, nonce : Nonces, session : SessionIds, amount : Balance]
    /\ NoChannel \notin Chan

VARIABLES
    Channel,    \* storage: the open channels
    Nonce,      \* storage: the nonce of the pair's next channel
    SessionId,  \* storage: the sessions consumed in the pair's open channel
    vouchers,   \* the micropayments signed so far, off chain
    asked,      \* history: the duration the open channel was asked for
    paid        \* history: the total paid for a session of a channel

channelVars == <<Channel, Nonce, SessionId>>
vars == <<free, reserved, issuance, now, Channel, Nonce, SessionId, vouchers, asked, paid>>

Sender(p) == p[1]
Receiver(p) == p[2]
IsOpen(p) == Channel[p] # NoChannel
Key(v) == <<v.pair, v.nonce, v.session>>

Init ==
    /\ BalancesInit
    /\ TimestampInit
    /\ Channel = [p \in Pairs |-> NoChannel]
    /\ Nonce = [p \in Pairs |-> 0]
    /\ SessionId = [p \in Pairs |-> {}]
    /\ vouchers = {}
    /\ asked = [p \in Pairs |-> 0]
    /\ paid = [k \in Keys |-> 0]

-----------------------------------------------------------------------------
(* open_channel, and the way it computes the expiration *)

\* `duration * 1000' in u32: the release build of the runtime wraps.
duration_in_mills(duration) == (duration * MillisPerSecond) % U32Modulus

\* `time.saturating_add(..)' in u64
Expiration_unsaturated(time, mills) == time + mills
expiration_of(time, mills) ==
    IF time + mills <= MomentMax THEN time + mills ELSE MomentMax

\* Nonce::insert(.., nonce + 1): the pair's next channel has another nonce.
Next_nonce_same(n) == n
next_nonce(n) == n + 1

open_channel(p, duration) ==
    /\ ~IsOpen(p)
    /\ Sender(p) # Receiver(p)
    /\ Nonce[p] < MaxNonce
    /\ Channel' = [Channel EXCEPT ![p] =
                     [nonce |-> Nonce[p], opened |-> now,
                      expiration |-> expiration_of(now, duration_in_mills(duration))]]
    /\ Nonce' = [Nonce EXCEPT ![p] = next_nonce(@)]
    /\ asked' = [asked EXCEPT ![p] = duration]
    /\ UNCHANGED <<balanceVars, now, SessionId, vouchers, paid>>

-----------------------------------------------------------------------------
(* close_channel and claim_payment *)

\* _close_channel: remove_prefix of the pair's sessions, then the channel
RemoveChannel_keepSessions(p) ==
    /\ Channel' = [Channel EXCEPT ![p] = NoChannel]
    /\ UNCHANGED <<SessionId, Nonce>>
RemoveChannel(p) ==
    /\ SessionId' = [SessionId EXCEPT ![p] = {}]
    /\ Channel' = [Channel EXCEPT ![p] = NoChannel]
    /\ UNCHANGED Nonce

\* The origin is the receiver of the pair, and nobody else can name it so.
close_channel(p) ==
    /\ IsOpen(p)
    /\ RemoveChannel(p)
    /\ UNCHANGED <<balanceVars, now, vouchers, asked, paid>>

\* `chan.expiration < now': the moment of expiration itself is in time.
Expired_early(p) == Channel[p].expiration <= now
Expired_never(p) == FALSE
Expired(p) == Channel[p].expiration < now

\* A signature of the sender on |receiver|nonce|session_id|amount|
Verify_dropped(p, nonce, session, amount) == TRUE
Verify_anyNonce(p, nonce, session, amount) ==
    \E v \in vouchers : v.pair = p /\ v.session = session /\ v.amount = amount
verify_signature(p, nonce, session, amount) ==
    [pair |-> p, nonce |-> nonce, session |-> session, amount |-> amount] \in vouchers

\* claim_payment of an expired channel closes it, whatever is claimed, and
\* returns Ok without paying.
ClaimExpired(p) ==
    /\ IsOpen(p)
    /\ Expired(p)
    /\ RemoveChannel(p)
    /\ UNCHANGED <<balanceVars, now, vouchers, asked, paid>>

\* claim_payment of a live channel: pays the voucher, then marks its session.
\* A transfer that fails leaves the session unmarked.
ClaimLive_unmarked(p, session, amount) ==
    /\ IsOpen(p)
    /\ ~Expired(p)
    /\ session \notin SessionId[p]
    /\ verify_signature(p, Channel[p].nonce, session, amount)
    /\ CurrencyTransfer(Sender(p), Receiver(p), amount)
    /\ paid' = [paid EXCEPT ![<<p, Channel[p].nonce, session>>] = @ + amount]
    /\ UNCHANGED <<now, Channel, Nonce, SessionId, vouchers, asked>>
\* with a deposit to the receiver in place of the transfer
ClaimLive_minted(p, session, amount) ==
    /\ IsOpen(p)
    /\ ~Expired(p)
    /\ session \notin SessionId[p]
    /\ verify_signature(p, Channel[p].nonce, session, amount)
    /\ free' = [free EXCEPT ![Receiver(p)] = @ + amount]
    /\ SessionId' = [SessionId EXCEPT ![p] = @ \union {session}]
    /\ paid' = [paid EXCEPT ![<<p, Channel[p].nonce, session>>] = @ + amount]
    /\ UNCHANGED <<reserved, issuance, now, Channel, Nonce, vouchers, asked>>
\* with the mark written before the transfer, whose failure then returns Err
\* with the mark in place
ClaimLive_markedFirst(p, session, amount) ==
    /\ IsOpen(p)
    /\ ~Expired(p)
    /\ session \notin SessionId[p]
    /\ verify_signature(p, Channel[p].nonce, session, amount)
    /\ SessionId' = [SessionId EXCEPT ![p] = @ \union {session}]
    /\ \/ /\ CurrencyTransfer(Sender(p), Receiver(p), amount)
          /\ paid' = [paid EXCEPT ![<<p, Channel[p].nonce, session>>] = @ + amount]
       \/ /\ amount > free[Sender(p)]
          /\ UNCHANGED <<balanceVars, paid>>
    /\ UNCHANGED <<now, Channel, Nonce, vouchers, asked>>
ClaimLive(p, session, amount) ==
    /\ IsOpen(p)
    /\ ~Expired(p)
    /\ session \notin SessionId[p]
    /\ verify_signature(p, Channel[p].nonce, session, amount)
    /\ CurrencyTransfer(Sender(p), Receiver(p), amount)
    /\ SessionId' = [SessionId EXCEPT ![p] = @ \union {session}]
    /\ paid' = [paid EXCEPT ![<<p, Channel[p].nonce, session>>] = @ + amount]
    /\ UNCHANGED <<now, Channel, Nonce, vouchers, asked>>

claim_payment(p) ==
    \/ ClaimExpired(p)
    \/ \E v \in Vouchers : v.pair = p /\ ClaimLive(p, v.session, v.amount)

-----------------------------------------------------------------------------
(* What surrounds the pallet *)

\* The sender's client signs a micropayment for any nonce, also one of a
\* channel that is not open yet, closed, or already claimed.
sign(v) ==
    /\ vouchers' = vouchers \union {v}
    /\ UNCHANGED <<balanceVars, now, channelVars, asked, paid>>

\* Balances::transfer, by which a sender may spend what it has promised
transfer(from, to, amount) ==
    /\ CurrencyTransfer(from, to, amount)
    /\ UNCHANGED <<now, channelVars, vouchers, asked, paid>>

\* The next block
NewBlock ==
    /\ SetTimestamp
    /\ UNCHANGED <<balanceVars, channelVars, vouchers, asked, paid>>

Next ==
    \/ \E p \in Pairs : \/ \E duration \in Durations : open_channel(p, duration)
                        \/ close_channel(p)
                        \/ claim_payment(p)
    \/ \E v \in Vouchers : sign(v)
    \/ \E from, to \in Accounts, amount \in Amounts : transfer(from, to, amount)
    \/ NewBlock

Spec == Init /\ [][Next]_vars

\* Blocks are produced for ever. Nothing makes anybody call the pallet: a
\* channel has no hook that runs at its expiration.
LiveSpec == Spec /\ WF_vars(NewBlock)

-----------------------------------------------------------------------------
TypeOK ==
    /\ BalancesTypeOK
    /\ now \in Moment
    /\ Channel \in [Pairs -> Chan \union {NoChannel}]
    /\ Nonce \in [Pairs -> Nonces]
    /\ SessionId \in [Pairs -> SUBSET SessionIds]
    /\ vouchers \subseteq Vouchers
    /\ asked \in [Pairs -> Nat]
    /\ paid \in [Keys -> Nat]

\* For a session of a channel the receiver gets one micropayment that the
\* sender signed for exactly that session and channel, or nothing: no second
\* claim of the session, no replay in a later channel of the pair, no other
\* amount (claim_payment; "the receiver can only claim one payment of the
\* same session_id").
PaidAsSigned ==
    \A k \in Keys :
        paid[k] # 0 => \E v \in vouchers : Key(v) = k /\ v.amount = paid[k]

\* The sessions marked as consumed are those of the open channel: a channel
\* starts with every session available ("Once a channel closed and a new
\* channel is opened, all the nonces become available"), and what is not
\* marked has not been paid.
SessionsOfOpenChannel ==
    \A p \in Pairs :
        /\ ~IsOpen(p) => SessionId[p] = {}
        /\ IsOpen(p) => \A s \in SessionIds \ SessionId[p] :
                            paid[<<p, Channel[p].nonce, s>>] = 0

\* "nonce indicates the next available value": the open channel has the last
\* nonce handed out, and nothing was ever paid for one still to come, so that
\* a new channel does not inherit payments of an old one.
NoncesFresh ==
    /\ \A p \in Pairs : IsOpen(p) => Nonce[p] = Channel[p].nonce + 1
    /\ \A k \in Keys : k[2] >= Nonce[k[1]] => paid[k] = 0

\* The sessions of a pair's channel that this step consumes
Consumed(p) == SessionId'[p] \ SessionId[p]

\* No session is lost: it is consumed only in a step that moves the amount of
\* a micropayment signed for it, in the open channel, to the receiver. A claim
\* whose transfer fails (the sender has spent its balance, the receiver would
\* overflow or stay below the existential deposit) leaves the session to be
\* claimed again, although claim_payment is not transactional.
MarkedAsPaid ==
    [][\A p \in Pairs : \A s \in Consumed(p) :
          \E v \in vouchers :
              /\ IsOpen(p)
              /\ Key(v) = <<p, Channel[p].nonce, s>>
              /\ free'[Receiver(p)] = free[Receiver(p)] + v.amount]_vars

\* The sender's exposure ends with the duration that it asked for: no session
\* is consumed in a channel that has been open for longer, wrapped and
\* saturated expirations included.
NoLatePayment ==
    [][\A p \in Pairs :
          Consumed(p) # {} => now <= Channel[p].opened + asked[p] * MillisPerSecond]_vars

\* The channels of a pair are the rounds of PaymentSessions: the open one is
\* numbered by its nonce, and otherwise Nonce holds the number of the next.
Sessions == INSTANCE PaymentSessions WITH
    Sessions <- SessionIds,
    MaxRound <- MaxNonce,
    round <- [p \in Pairs |-> IF IsOpen(p) THEN Channel[p].nonce ELSE Nonce[p]],
    open <- [p \in Pairs |-> IsOpen(p)],
    signed <- vouchers

\* The pallet, with its clock, its ledger and its reused session storage, does
\* nothing to its channels and payments that PaymentSessions does not allow.
ImplementsSessions == Sessions!Spec

\* The channel is honoured for the whole of the duration that open_channel
\* was asked for: no claim in that time finds it expired.
NoEarlyExpiry ==
    \A p \in Pairs :
        (IsOpen(p) /\ now <= Channel[p].opened + asked[p] * MillisPerSecond) => ~Expired(p)

\* A channel that can expire is closed at last ("Until one week passed, the
\* channel is closed", pallets/micropayment/README.md:26).
ChannelsClose ==
    \A p \in Pairs :
        (IsOpen(p) /\ Channel[p].expiration < MomentMax) ~> ~IsOpen(p)
=============================================================================
