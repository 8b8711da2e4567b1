--------------------------- MODULE PaymentSessions ---------------------------
(***************************************************************************)
(* What payment channels promise their two ends, without clocks, storage   *)
(* or ledger. The channels of a pair are numbered rounds, one after the    *)
(* other. The sender signs vouchers; the receiver turns a voucher into     *)
(* money only in the round it was signed for, and only when that session   *)
(* of that round has not been paid, ever.                                  *)
(***************************************************************************)
EXTENDS Naturals

CONSTANTS
    Pairs,      \* a sender and a receiver
    Sessions,   \* the sessions of a round
    MaxRound,   \* the number of rounds of a pair
    Vouchers    \* records with a pair, a nonce (the round), a session, an amount

VARIABLES
    round,   \* the number of the open round, or of the next one
    open,    \* whether a round is open
    signed,  \* the vouchers signed
    paid     \* what a session of a round has been paid

abstractVars == <<round, open, signed, paid>>

Init ==
    /\ round = [p \in Pairs |-> 0]
    /\ open = [p \in Pairs |-> FALSE]
    /\ signed = {}
    /\ paid = [k \in Pairs \X (0 .. MaxRound) \X Sessions |-> 0]

Open(p) ==
    /\ ~open[p]
    /\ round[p] < MaxRound
    /\ open' = [open EXCEPT ![p] = TRUE]
    /\ UNCHANGED <<round, signed, paid>>

Close(p) ==
    /\ open[p]
    /\ open' = [open EXCEPT ![p] = FALSE]
    /\ round' = [round EXCEPT ![p] = @ + 1]
    /\ UNCHANGED <<signed, paid>>

Sign(v) ==
    /\ signed' = signed \union {v}
    /\ UNCHANGED <<round, open, paid>>

Pay(v) ==
    /\ v \in signed
    /\ open[v.pair]
    /\ round[v.pair] = v.nonce
    /\ paid[<<v.pair, v.nonce, v.session>>] = 0
    /\ paid' = [paid EXCEPT ![<<v.pair, v.nonce, v.session>>] = v.amount]
    /\ UNCHANGED <<round, open, signed>>

Next ==
    \/ \E p \in Pairs : Open(p) \/ Close(p)
    \/ \E v \in Vouchers : Sign(v) \/ Pay(v)

Spec == Init /\ [][Next]_abstractVars
=============================================================================
