------------------------- MODULE MicropaymentProofs -------------------------
(***************************************************************************)
(* The safety of payment channels for any accounts, balances, durations    *)
(* and vouchers.                                                           *)
(***************************************************************************)
EXTENDS Micropayment, BalancesProofs

\* PaidAsSigned is not inductive: that a claim pays a session for the first
\* time rests on the sessions marked in the open channel, and that these are
\* all the channel has paid rests on a new channel getting a fresh nonce.
PaymentInv == PaidAsSigned /\ SessionsOfOpenChannel /\ NoncesFresh
IndInv == TypeOK /\ LedgerInv /\ PaymentInv

-----------------------------------------------------------------------------
\* A key is the tuple of its parts.
LEMMA KeyParts ==
    ASSUME NEW k \in Keys
    PROVE  k[1] \in Pairs /\ k[2] \in Nonces /\ k[3] \in SessionIds /\ k = <<k[1], k[2], k[3]>>
  BY DEF Keys

\* The parts of a pair are accounts.
LEMMA PairParts ==
    ASSUME NEW p \in Pairs
    PROVE  Sender(p) \in Accounts /\ Receiver(p) \in Accounts
  BY MicropaymentAssumption DEF Sender, Receiver

\* The expiration of a channel is a moment.
LEMMA ExpirationType ==
    ASSUME NEW t \in Moment, NEW d \in Durations
    PROVE  expiration_of(t, duration_in_mills(d)) \in Moment
  <1>1. d * MillisPerSecond \in Nat
    BY MicropaymentAssumption
  <1>2. duration_in_mills(d) \in Nat
    BY <1>1, MicropaymentAssumption DEF duration_in_mills
  <1> QED
    BY <1>2, MomentAssumption DEF expiration_of, Moment

-----------------------------------------------------------------------------
\* The genesis state satisfies the inductive invariant.
LEMMA InitIndInv == Init => IndInv
  <1> SUFFICES ASSUME Init PROVE IndInv
    OBVIOUS
  <1>1. LedgerInv
    BY GenesisLedger DEF Init
  <1>2. TypeOK
    BY <1>1, MicropaymentAssumption, MomentAssumption
    DEF Init, TypeOK, LedgerInv, TimestampInit, Moment, Nonces
  <1>3. \A k \in Keys : paid[k] = 0
    BY DEF Init
  <1>4. \A p \in Pairs : ~IsOpen(p) /\ SessionId[p] = {}
    BY DEF Init, IsOpen
  <1>5. PaymentInv
    BY <1>3, <1>4 DEF PaymentInv, PaidAsSigned, SessionsOfOpenChannel, NoncesFresh
  <1> QED
    BY <1>1, <1>2, <1>5 DEF IndInv

\* open_channel hands out a nonce for which nothing was paid.
LEMMA OpenKeepsInv ==
    ASSUME IndInv, NEW p \in Pairs, NEW d \in Durations, open_channel(p, d)
    PROVE  IndInv'
  <1> DEFINE chan == [nonce |-> Nonce[p], opened |-> now,
                      expiration |-> expiration_of(now, duration_in_mills(d))]
  <1>1. /\ Channel[p] = NoChannel /\ Nonce[p] < MaxNonce
        /\ Channel' = [Channel EXCEPT ![p] = chan]
        /\ Nonce' = [Nonce EXCEPT ![p] = @ + 1]
        /\ asked' = [asked EXCEPT ![p] = d]
        /\ UNCHANGED <<free, reserved, issuance, now, SessionId, vouchers, paid>>
    BY DEF open_channel, IsOpen, next_nonce, balanceVars
  <1>2. TypeOK
    BY DEF IndInv
  <1>3. chan \in Chan /\ chan # NoChannel
    BY <1>2, ExpirationType, MicropaymentAssumption DEF TypeOK, Chan
  <1>4. LedgerInv'
    BY <1>1 DEF IndInv, LedgerInv, BalancesTypeOK, Conservation, NoDust
  <1>5. TypeOK'
    <2>1. Nonce' \in [Pairs -> Nonces]
      BY <1>1, <1>2, MicropaymentAssumption DEF TypeOK, Nonces
    <2>2. asked' \in [Pairs -> Nat]
      BY <1>1, <1>2, MicropaymentAssumption DEF TypeOK
    <2>3. Channel' \in [Pairs -> Chan \union {NoChannel}]
      BY <1>1, <1>2, <1>3 DEF TypeOK
    <2> QED
      BY <1>1, <1>2, <2>1, <2>2, <2>3 DEF TypeOK, BalancesTypeOK
  <1>6. PaidAsSigned'
    BY <1>1 DEF IndInv, PaymentInv, PaidAsSigned
  <1>7. SessionsOfOpenChannel'
    <2> SUFFICES ASSUME NEW q \in Pairs
                 PROVE  (/\ ~IsOpen(q) => SessionId[q] = {}
                         /\ IsOpen(q) => \A s \in SessionIds \ SessionId[q] :
                                            paid[<<q, Channel[q].nonce, s>>] = 0)'
      BY DEF SessionsOfOpenChannel
    <2>1. CASE q = p
      <3>1. Channel'[q] # NoChannel /\ Channel'[q].nonce = Nonce[p]
        BY <1>1, <1>2, <1>3, <2>1 DEF TypeOK
      <3>2. \A s \in SessionIds : paid[<<q, Nonce[p], s>>] = 0
        <4> SUFFICES ASSUME NEW s \in SessionIds PROVE paid[<<q, Nonce[p], s>>] = 0
          OBVIOUS
        <4>1. <<q, Nonce[p], s>> \in Keys /\ Nonce[p] \in Nat
          BY <1>2, MicropaymentAssumption DEF TypeOK, Keys, Nonces
        <4> QED
          BY <4>1, <2>1 DEF IndInv, PaymentInv, NoncesFresh
      <3> QED
        BY <1>1, <3>1, <3>2 DEF IsOpen
    <2>2. CASE q # p
      BY <1>1, <1>2, <2>2 DEF IndInv, PaymentInv, SessionsOfOpenChannel, IsOpen, TypeOK
    <2> QED
      BY <2>1, <2>2
  <1>8. NoncesFresh'
    <2>1. ASSUME NEW q \in Pairs, IsOpen(q)'
          PROVE  Nonce'[q] = Channel'[q].nonce + 1
      <3>1. CASE q = p
        BY <1>1, <1>2, <1>3, <3>1 DEF TypeOK
      <3>2. CASE q # p
        BY <1>1, <1>2, <2>1, <3>2 DEF IndInv, PaymentInv, NoncesFresh, IsOpen, TypeOK
      <3> QED
        BY <3>1, <3>2
    <2>2. ASSUME NEW k \in Keys, k[2] >= Nonce'[k[1]]
          PROVE  paid'[k] = 0
      <3>1. k[2] \in Nat /\ Nonce[k[1]] \in Nat /\ Nonce'[k[1]] >= Nonce[k[1]] /\ Nonce'[k[1]] \in Nat
        BY <1>1, <1>2, KeyParts, MicropaymentAssumption DEF TypeOK, Nonces
      <3> QED
        BY <1>1, <2>2, <3>1 DEF IndInv, PaymentInv, NoncesFresh
    <2> QED
      BY <2>1, <2>2 DEF NoncesFresh
  <1> QED
    BY <1>4, <1>5, <1>6, <1>7, <1>8 DEF IndInv, PaymentInv

\* Closing a channel, by close_channel or by a claim that is too late, forgets
\* its sessions and nothing else.
LEMMA CloseKeepsInv ==
    ASSUME IndInv, NEW p \in Pairs, RemoveChannel(p),
           UNCHANGED <<balanceVars, now, vouchers, asked, paid>>
    PROVE  IndInv'
  <1>1. /\ Channel' = [Channel EXCEPT ![p] = NoChannel]
        /\ SessionId' = [SessionId EXCEPT ![p] = {}]
        /\ UNCHANGED <<free, reserved, issuance, now, Nonce, vouchers, asked, paid>>
    BY DEF RemoveChannel, balanceVars
  <1>2. TypeOK
    BY DEF IndInv
  <1>3. LedgerInv'
    BY <1>1 DEF IndInv, LedgerInv, BalancesTypeOK, Conservation, NoDust
  <1>4. TypeOK'
    BY <1>1, <1>2 DEF TypeOK, BalancesTypeOK
  <1>5. PaidAsSigned'
    BY <1>1 DEF IndInv, PaymentInv, PaidAsSigned
  <1>6. SessionsOfOpenChannel'
    <2> SUFFICES ASSUME NEW q \in Pairs
                 PROVE  (/\ ~IsOpen(q) => SessionId[q] = {}
                         /\ IsOpen(q) => \A s \in SessionIds \ SessionId[q] :
                                            paid[<<q, Channel[q].nonce, s>>] = 0)'
      BY DEF SessionsOfOpenChannel
    <2>1. CASE q = p
      BY <1>1, <1>2, <2>1 DEF TypeOK, IsOpen
    <2>2. CASE q # p
      BY <1>1, <1>2, <2>2 DEF IndInv, PaymentInv, SessionsOfOpenChannel, IsOpen, TypeOK
    <2> QED
      BY <2>1, <2>2
  <1>7. NoncesFresh'
    BY <1>1, <1>2 DEF IndInv, PaymentInv, NoncesFresh, IsOpen, TypeOK
  <1> QED
    BY <1>3, <1>4, <1>5, <1>6, <1>7 DEF IndInv, PaymentInv

\* A claim pays a session that was not paid before, what a voucher says.
LEMMA ClaimKeepsInv ==
    ASSUME IndInv, NEW p \in Pairs, NEW s \in SessionIds, NEW amount \in Balance,
           ClaimLive(p, s, amount)
    PROVE  IndInv'
  <1> DEFINE n == Channel[p].nonce
             k0 == <<p, n, s>>
             v0 == [pair |-> p, nonce |-> n, session |-> s, amount |-> amount]
  <1>1. /\ Channel[p] # NoChannel
        /\ s \notin SessionId[p]
        /\ v0 \in vouchers
        /\ CurrencyTransfer(Sender(p), Receiver(p), amount)
        /\ SessionId' = [SessionId EXCEPT ![p] = @ \union {s}]
        /\ paid' = [paid EXCEPT ![k0] = @ + amount]
        /\ UNCHANGED <<now, Channel, Nonce, vouchers, asked>>
    BY DEF ClaimLive, IsOpen, verify_signature
  <1>2. TypeOK
    BY DEF IndInv
  <1>3. n \in Nonces /\ k0 \in Keys /\ amount \in Nat
    BY <1>1, <1>2, SumOfAssumption DEF TypeOK, Chan, Keys, Balance
  <1>4. paid[k0] = 0
    BY <1>1 DEF IndInv, PaymentInv, SessionsOfOpenChannel, IsOpen
  <1>5. /\ paid' \in [Keys -> Nat]
        /\ paid'[k0] = amount
        /\ \A k \in Keys : k # k0 => paid'[k] = paid[k]
    BY <1>1, <1>2, <1>3, <1>4 DEF TypeOK
  <1>6. LedgerInv'
    BY <1>1, PairParts, CurrencyTransferKeepsLedger DEF IndInv
  <1>7. TypeOK'
    <2>1. SessionId' \in [Pairs -> SUBSET SessionIds]
      BY <1>1, <1>2 DEF TypeOK
    <2> QED
      BY <1>1, <1>2, <1>5, <1>6, <2>1 DEF TypeOK, LedgerInv
  <1>8. PaidAsSigned'
    <2> SUFFICES ASSUME NEW k \in Keys, paid'[k] # 0
                 PROVE  \E v \in vouchers' : Key(v) = k /\ v.amount = paid'[k]
      BY DEF PaidAsSigned, Key
    <2>1. CASE k = k0
      <3>1. Key(v0) = k0 /\ v0.amount = amount
        BY DEF Key
      <3> QED
        BY <1>1, <1>5, <2>1, <3>1
    <2>2. CASE k # k0
      BY <1>1, <1>5, <2>2 DEF IndInv, PaymentInv, PaidAsSigned
    <2> QED
      BY <2>1, <2>2
  <1>9. SessionsOfOpenChannel'
    <2> SUFFICES ASSUME NEW q \in Pairs
                 PROVE  (/\ ~IsOpen(q) => SessionId[q] = {}
                         /\ IsOpen(q) => \A t \in SessionIds \ SessionId[q] :
                                            paid[<<q, Channel[q].nonce, t>>] = 0)'
      BY DEF SessionsOfOpenChannel
    <2>1. CASE q = p
      <3>1. Channel'[q] # NoChannel /\ Channel'[q] = Channel[p]
        BY <1>1, <2>1
      <3>2. ASSUME NEW t \in SessionIds \ SessionId'[q]
            PROVE  paid'[<<q, Channel'[q].nonce, t>>] = 0
        <4>1. t # s /\ t \notin SessionId[p]
          BY <1>1, <1>2, <2>1, <3>2 DEF TypeOK
        <4>2. <<p, n, t>> \in Keys /\ <<p, n, t>> # k0
          BY <1>3, <4>1 DEF Keys
        <4>3. paid[<<p, n, t>>] = 0
          BY <1>1, <4>1 DEF IndInv, PaymentInv, SessionsOfOpenChannel, IsOpen
        <4> QED
          BY <1>5, <2>1, <3>1, <4>2, <4>3
      <3> QED
        BY <3>1, <3>2 DEF IsOpen
    <2>2. CASE q # p
      <3>1. Channel'[q] = Channel[q] /\ SessionId'[q] = SessionId[q]
        BY <1>1, <1>2, <2>2 DEF TypeOK
      <3>2. ASSUME NEW t \in SessionIds \ SessionId[q], IsOpen(q)
            PROVE  paid'[<<q, Channel[q].nonce, t>>] = 0
        <4>1. <<q, Channel[q].nonce, t>> \in Keys /\ <<q, Channel[q].nonce, t>> # k0
          BY <1>2, <2>2, <3>2 DEF TypeOK, Keys, Chan, IsOpen
        <4>2. paid[<<q, Channel[q].nonce, t>>] = 0
          BY <3>2 DEF IndInv, PaymentInv, SessionsOfOpenChannel
        <4> QED
          BY <1>5, <4>1, <4>2
      <3> QED
        BY <3>1, <3>2 DEF IndInv, PaymentInv, SessionsOfOpenChannel, IsOpen
    <2> QED
      BY <2>1, <2>2
  <1>10. NoncesFresh'
    <2>1. Nonce[p] = n + 1 /\ n \in Nat /\ MaxNonce \in Nat
      BY <1>1, <1>3, MicropaymentAssumption DEF IndInv, PaymentInv, NoncesFresh, IsOpen, Nonces
    <2>2. ASSUME NEW k \in Keys, k[2] >= Nonce'[k[1]]
          PROVE  paid'[k] = 0
      <3>1. k # k0
        BY <1>1, <2>1, <2>2
      <3> QED
        BY <1>1, <1>5, <2>2, <3>1 DEF IndInv, PaymentInv, NoncesFresh
    <2> QED
      BY <1>1, <2>2 DEF IndInv, PaymentInv, NoncesFresh, IsOpen
  <1> QED
    BY <1>6, <1>7, <1>8, <1>9, <1>10 DEF IndInv, PaymentInv

\* Steps that leave the storage of the pallet alone: blocks, signatures, the
\* accounts' own transfers and stuttering.
LEMMA OtherKeepsInv ==
    ASSUME IndInv, LedgerInv', now' \in Moment, vouchers \subseteq vouchers',
           vouchers' \subseteq Vouchers, UNCHANGED <<channelVars, asked, paid>>
    PROVE  IndInv'
  <1>1. UNCHANGED <<Channel, Nonce, SessionId, asked, paid>>
    BY DEF channelVars
  <1>2. TypeOK'
    BY <1>1 DEF IndInv, TypeOK, LedgerInv
  <1>3. PaidAsSigned'
    BY <1>1 DEF IndInv, PaymentInv, PaidAsSigned, Key
  <1>4. SessionsOfOpenChannel' /\ NoncesFresh'
    BY <1>1 DEF IndInv, PaymentInv, SessionsOfOpenChannel, NoncesFresh, IsOpen
  <1> QED
    BY <1>2, <1>3, <1>4 DEF IndInv, PaymentInv

\* Every step keeps the inductive invariant.
LEMMA NextIndInv == IndInv /\ [Next]_vars => IndInv'
  <1> SUFFICES ASSUME IndInv, [Next]_vars PROVE IndInv'
    OBVIOUS
  <1>1. ASSUME NEW p \in Pairs, NEW d \in Durations, open_channel(p, d) PROVE IndInv'
    BY <1>1, OpenKeepsInv
  <1>2. ASSUME NEW p \in Pairs, close_channel(p) PROVE IndInv'
    BY <1>2, CloseKeepsInv DEF close_channel
  <1>3. ASSUME NEW p \in Pairs, ClaimExpired(p) PROVE IndInv'
    BY <1>3, CloseKeepsInv DEF ClaimExpired
  <1>4. ASSUME NEW p \in Pairs, NEW v \in Vouchers, ClaimLive(p, v.session, v.amount)
        PROVE IndInv'
    <2>1. v.session \in SessionIds /\ v.amount \in Balance
      BY MicropaymentAssumption
    <2> QED
      BY <1>4, <2>1, ClaimKeepsInv
  <1>5. ASSUME NEW v \in Vouchers, sign(v) PROVE IndInv'
    <2>1. LedgerInv'
      BY <1>5 DEF IndInv, sign, balanceVars, LedgerInv, BalancesTypeOK, Conservation, NoDust
    <2> QED
      BY <1>5, <2>1, OtherKeepsInv DEF IndInv, sign, TypeOK
  <1>6. ASSUME NEW from \in Accounts, NEW to \in Accounts, NEW amount \in Amounts,
               transfer(from, to, amount)
        PROVE IndInv'
    <2>1. amount \in Balance
      BY MicropaymentAssumption
    <2>2. LedgerInv'
      BY <1>6, <2>1, CurrencyTransferKeepsLedger DEF IndInv, transfer
    <2> QED
      BY <1>6, <2>2, OtherKeepsInv DEF IndInv, transfer, TypeOK
  <1>7. ASSUME NewBlock PROVE IndInv'
    <2>1. LedgerInv'
      BY <1>7 DEF IndInv, NewBlock, balanceVars, LedgerInv, BalancesTypeOK, Conservation, NoDust
    <2> QED
      BY <1>7, <2>1, OtherKeepsInv DEF IndInv, NewBlock, SetTimestamp, TypeOK
  <1>8. ASSUME UNCHANGED vars PROVE IndInv'
    <2>1. LedgerInv'
      BY <1>8 DEF IndInv, vars, LedgerInv, BalancesTypeOK, Conservation, NoDust
    <2> QED
      BY <1>8, <2>1, OtherKeepsInv DEF IndInv, vars, channelVars, TypeOK
  <1> QED
    BY <1>1, <1>2, <1>3, <1>4, <1>5, <1>6, <1>7, <1>8 DEF Next, claim_payment

\* The inductive invariant holds of every reachable state.
THEOREM Invariance == Spec => []IndInv
  BY InitIndInv, NextIndInv, PTL DEF Spec

\* Every variable keeps its type; the storage never holds more than the code's
\* integer types.
THEOREM TypeCorrect == Spec => []TypeOK
  <1>1. IndInv => TypeOK
    BY DEF IndInv
  <1> QED
    BY Invariance, <1>1, PTL

\* claim_payment pays for a session of a channel one voucher that the sender
\* signed for it, or nothing, whatever channels the pair opens and closes.
THEOREM PaymentsAreSigned == Spec => []PaidAsSigned
  <1>1. IndInv => PaidAsSigned
    BY DEF IndInv, PaymentInv
  <1> QED
    BY Invariance, <1>1, PTL

\* The sessions marked belong to the open channel and are all it has paid.
THEOREM SessionsBelongToChannel == Spec => []SessionsOfOpenChannel
  <1>1. IndInv => SessionsOfOpenChannel
    BY DEF IndInv, PaymentInv
  <1> QED
    BY Invariance, <1>1, PTL

\* Claims and transfers conserve the issuance, up to the dust they burn.
THEOREM IssuanceConserved == Spec => []Conservation
  <1>1. IndInv => Conservation
    BY DEF IndInv, LedgerInv
  <1> QED
    BY Invariance, <1>1, PTL

\* The open channel has the last nonce handed out, and nothing is ever paid
\* for a nonce still to come: open_channel gives every channel a fresh one.
THEOREM NoncesAreFresh == Spec => []NoncesFresh
  <1>1. IndInv => NoncesFresh
    BY DEF IndInv, PaymentInv
  <1> QED
    BY Invariance, <1>1, PTL

-----------------------------------------------------------------------------
(* What follows from the inductive invariant step by step: the pallet
   implements PaymentSessions, a closed channel is never paid again, and no
   channel expires early as long as durations do not wrap. *)

\* The refinement mapping of Micropayment, named.
Round == [p \in Pairs |-> IF IsOpen(p) THEN Channel[p].nonce ELSE Nonce[p]]
Opened == [p \in Pairs |-> IsOpen(p)]

\* The initial states map to initial states.
LEMMA InitRefines == Init => Sessions!Init
  <1> SUFFICES ASSUME Init PROVE Sessions!Init
    OBVIOUS
  <1>1. Round = [p \in Pairs |-> 0] /\ Opened = [p \in Pairs |-> FALSE]
    BY DEF Init, Round, Opened, IsOpen
  <1>2. vouchers = {} /\ paid = [k \in Keys |-> 0]
    BY DEF Init
  <1> QED
    BY <1>1, <1>2 DEF Sessions!Init, Round, Opened, Keys, Nonces

\* open_channel opens the next round.
LEMMA OpenRefines ==
    ASSUME IndInv, NEW p \in Pairs, NEW d \in Durations, open_channel(p, d)
    PROVE  Sessions!Open(p)
  <1>1. TypeOK
    BY DEF IndInv
  <1>2. /\ ~IsOpen(p) /\ Nonce[p] < MaxNonce
        /\ \A q \in Pairs : q # p => Channel'[q] = Channel[q] /\ Nonce'[q] = Nonce[q]
        /\ Channel'[p].nonce = Nonce[p]
        /\ UNCHANGED <<vouchers, paid>>
    BY <1>1 DEF open_channel, TypeOK
  <1>3. Channel'[p] # NoChannel
    <2>1. /\ Channel'[p] = [nonce |-> Nonce[p], opened |-> now,
                            expiration |-> expiration_of(now, duration_in_mills(d))]
          /\ expiration_of(now, duration_in_mills(d)) \in Moment
      BY <1>1, ExpirationType DEF open_channel, TypeOK
    <2> QED
      BY <1>1, <2>1, MicropaymentAssumption DEF TypeOK, Chan
  <1>4. Opened' = [Opened EXCEPT ![p] = TRUE] /\ Opened[p] = FALSE
    BY <1>2, <1>3 DEF Opened, IsOpen
  <1>5. Round' = Round /\ Round[p] = Nonce[p]
    BY <1>2, <1>3 DEF Round, IsOpen
  <1> QED
    BY <1>2, <1>4, <1>5 DEF Sessions!Open, Round, Opened

\* Closing a channel, early or expired, ends its round.
LEMMA CloseRefines ==
    ASSUME IndInv, NEW p \in Pairs, IsOpen(p), RemoveChannel(p), UNCHANGED <<vouchers, paid>>
    PROVE  Sessions!Close(p)
  <1>1. /\ Channel \in [Pairs -> Chan \union {NoChannel}] /\ Channel[p] # NoChannel
        /\ Channel' = [Channel EXCEPT ![p] = NoChannel]
        /\ Nonce' = Nonce
        /\ Nonce[p] = Channel[p].nonce + 1
    BY DEF IndInv, TypeOK, PaymentInv, NoncesFresh, IsOpen, RemoveChannel
  <1>2. Opened' = [Opened EXCEPT ![p] = FALSE] /\ Opened[p] = TRUE
    BY <1>1 DEF Opened, IsOpen
  <1>3. Round' = [Round EXCEPT ![p] = @ + 1]
    BY <1>1 DEF Round, IsOpen
  <1> QED
    BY <1>2, <1>3 DEF Sessions!Close, Round, Opened

\* A claim pays its voucher, in its round, for the first time.
LEMMA ClaimRefines ==
    ASSUME IndInv, NEW p \in Pairs, NEW s \in SessionIds, NEW amount \in Balance,
           ClaimLive(p, s, amount)
    PROVE  \E v \in Vouchers : Sessions!Pay(v)
  <1> DEFINE n == Channel[p].nonce
             v0 == [pair |-> p, nonce |-> n, session |-> s, amount |-> amount]
  <1>1. /\ IsOpen(p) /\ s \notin SessionId[p] /\ v0 \in vouchers
        /\ paid' = [paid EXCEPT ![<<p, n, s>>] = @ + amount]
        /\ UNCHANGED <<Channel, Nonce, vouchers>>
    BY DEF ClaimLive, verify_signature
  <1>2. paid[<<p, n, s>>] = 0 /\ amount \in Nat /\ <<p, n, s>> \in Keys /\ paid \in [Keys -> Nat]
    BY <1>1, SumOfAssumption
    DEF IndInv, PaymentInv, SessionsOfOpenChannel, IsOpen, Balance, TypeOK, Keys, Chan
  <1>3. paid' = [paid EXCEPT ![<<p, n, s>>] = amount]
    BY <1>1, <1>2
  <1>4. Round[p] = n /\ Opened[p] = TRUE /\ Round' = Round /\ Opened' = Opened
    BY <1>1 DEF Round, Opened, IsOpen
  <1>5. v0 \in Vouchers
    BY <1>1 DEF IndInv, TypeOK
  <1>6. Sessions!Pay(v0)
    BY <1>1, <1>2, <1>3, <1>4 DEF Sessions!Pay, Round, Opened
  <1> QED
    BY <1>5, <1>6

\* Every step of the pallet is a step of PaymentSessions, or a stutter.
LEMMA NextRefines ==
    IndInv /\ [Next]_vars => [Sessions!Next]_(Sessions!abstractVars)
  <1> SUFFICES ASSUME IndInv, [Next]_vars
               PROVE  Sessions!Next \/ UNCHANGED Sessions!abstractVars
    OBVIOUS
  <1>1. ASSUME NEW p \in Pairs, NEW d \in Durations, open_channel(p, d)
        PROVE  Sessions!Next
    BY <1>1, OpenRefines DEF Sessions!Next
  <1>2. ASSUME NEW p \in Pairs, close_channel(p) \/ ClaimExpired(p)
        PROVE  Sessions!Next
    BY <1>2, CloseRefines DEF Sessions!Next, close_channel, ClaimExpired
  <1>3. ASSUME NEW p \in Pairs, NEW v \in Vouchers, ClaimLive(p, v.session, v.amount)
        PROVE  Sessions!Next
    <2>1. v.session \in SessionIds /\ v.amount \in Balance
      BY MicropaymentAssumption
    <2> QED
      BY <1>3, <2>1, ClaimRefines DEF Sessions!Next
  <1>4. ASSUME UNCHANGED channelVars
        PROVE  Round' = Round /\ Opened' = Opened
    BY <1>4 DEF channelVars, Round, Opened, IsOpen
  <1>5. ASSUME NEW v \in Vouchers, sign(v)
        PROVE  Sessions!Next
    <2>1. Sessions!Sign(v)
      BY <1>4, <1>5 DEF sign, Sessions!Sign, Round, Opened
    <2> QED
      BY <2>1 DEF Sessions!Next
  <1>6. ASSUME UNCHANGED <<channelVars, vouchers, paid>>
        PROVE  UNCHANGED Sessions!abstractVars
    BY <1>4, <1>6 DEF Sessions!abstractVars, Round, Opened
  <1>7. ASSUME (\E from, to \in Accounts, amount \in Amounts : transfer(from, to, amount))
               \/ NewBlock \/ UNCHANGED vars
        PROVE  UNCHANGED Sessions!abstractVars
    BY <1>6, <1>7 DEF transfer, NewBlock, vars, channelVars
  <1> QED
    BY <1>1, <1>2, <1>3, <1>5, <1>7 DEF Next, claim_payment

\* The micropayment pallet implements PaymentSessions.
THEOREM Refinement == Spec => ImplementsSessions
  BY InitRefines, NextRefines, Invariance, PTL DEF Spec, ImplementsSessions, Sessions!Spec

-----------------------------------------------------------------------------
\* An open channel joins two accounts, and does not outlive the duration asked
\* for: the remainder and the saturation only make it shorter. MarkedAsPaid and
\* NoLatePayment rest on what was checked and computed when it was opened.
ChannelInv ==
    \A p \in Pairs : IsOpen(p) =>
        /\ Sender(p) # Receiver(p)
        /\ Channel[p].expiration <= Channel[p].opened + asked[p] * MillisPerSecond

\* A remainder is not larger than the number.
LEMMA RemainderBound ==
    ASSUME NEW x \in Nat, NEW m \in Nat \ {0}
    PROVE  x % m \in Nat /\ x % m <= x
  OBVIOUS

\* Each step keeps it.
LEMMA NextChannelInv == IndInv /\ ChannelInv /\ [Next]_vars => ChannelInv'
  <1> DEFINE Proper(q) == /\ Sender(q) # Receiver(q)
                          /\ Channel[q].expiration <= Channel[q].opened + asked[q] * MillisPerSecond
  <1> SUFFICES ASSUME IndInv, ChannelInv, [Next]_vars, NEW q \in Pairs, IsOpen(q)'
               PROVE  Proper(q)'
    BY DEF ChannelInv
  <1>1. TypeOK
    BY DEF IndInv
  <1>2. ASSUME NEW p \in Pairs, NEW d \in Durations, open_channel(p, d), q = p
        PROVE  Proper(q)'
    <2> DEFINE mills == d * MillisPerSecond
    <2>1. mills \in Nat
      BY MicropaymentAssumption
    <2>2. duration_in_mills(d) \in Nat /\ duration_in_mills(d) <= mills
      <3> HIDE DEF mills
      <3>1. mills % U32Modulus \in Nat /\ mills % U32Modulus <= mills
        BY <2>1, RemainderBound, MicropaymentAssumption
      <3> QED
        BY <3>1 DEF duration_in_mills, mills
    <2>3. /\ Channel'[q].opened = now
          /\ Channel'[q].expiration = expiration_of(now, duration_in_mills(d))
          /\ asked'[q] * MillisPerSecond = mills
          /\ Sender(q) # Receiver(q)
      BY <1>1, <1>2 DEF open_channel, TypeOK
    <2> HIDE DEF mills
    <2>4. expiration_of(now, duration_in_mills(d)) <= now + mills
      BY <1>1, <2>1, <2>2, MomentAssumption DEF expiration_of, TypeOK, Moment
    <2> QED
      BY <2>3, <2>4 DEF Sender, Receiver
  <1>3. ASSUME IsOpen(q), Channel'[q] = Channel[q], asked'[q] = asked[q]
        PROVE  Proper(q)'
    BY <1>3 DEF ChannelInv, Sender, Receiver
  <1>4. ASSUME NEW p \in Pairs, NEW d \in Durations, open_channel(p, d), q # p
        PROVE  IsOpen(q) /\ Channel'[q] = Channel[q] /\ asked'[q] = asked[q]
    BY <1>1, <1>4 DEF open_channel, TypeOK, IsOpen
  <1>5. ASSUME NEW p \in Pairs, RemoveChannel(p), asked' = asked
        PROVE  IsOpen(q) /\ Channel'[q] = Channel[q] /\ asked'[q] = asked[q]
    BY <1>1, <1>5 DEF RemoveChannel, TypeOK, IsOpen
  <1>6. ASSUME Channel' = Channel, asked' = asked
        PROVE  IsOpen(q) /\ Channel'[q] = Channel[q] /\ asked'[q] = asked[q]
    BY <1>6 DEF IsOpen
  <1> HIDE DEF Proper
  <1> QED
    BY <1>2, <1>3, <1>4, <1>5, <1>6
    DEF Next, claim_payment, close_channel, ClaimExpired, ClaimLive, sign, transfer, NewBlock,
        channelVars, vars

\* No channel is open at first.
LEMMA InitChannelInv == Init => ChannelInv
  BY DEF Init, ChannelInv, IsOpen

LEMMA ChannelInvariance == Spec => []ChannelInv
  BY InitChannelInv, NextChannelInv, Invariance, PTL DEF Spec

\* Only a claim in a live channel consumes a session.
LEMMA ConsumedByClaim ==
    ASSUME IndInv, Next, NEW p \in Pairs, NEW s \in Consumed(p)
    PROVE  \E v \in Vouchers : v.pair = p /\ v.session = s /\ ClaimLive(p, s, v.amount)
  <1>1. TypeOK
    BY DEF IndInv
  <1>2. ASSUME SessionId' = SessionId PROVE FALSE
    BY <1>2 DEF Consumed
  <1>3. ASSUME NEW q \in Pairs, RemoveChannel(q) PROVE FALSE
    <2>1. SessionId'[p] = {} \/ SessionId'[p] = SessionId[p]
      BY <1>1, <1>3 DEF RemoveChannel, TypeOK
    <2> QED
      BY <2>1 DEF Consumed
  <1>4. ASSUME NEW q \in Pairs, NEW v \in Vouchers, v.pair = q, ClaimLive(q, v.session, v.amount)
        PROVE  q = p /\ v.session = s
    <2>1. SessionId' = [SessionId EXCEPT ![q] = @ \union {v.session}]
      BY <1>4 DEF ClaimLive
    <2> QED
      BY <1>1, <2>1 DEF Consumed, TypeOK
  <1> QED
    BY <1>2, <1>3, <1>4
    DEF Next, claim_payment, open_channel, close_channel, ClaimExpired, sign, transfer, NewBlock,
        channelVars

\* Such a session is paid, to the receiver and in time.
Settled(p, s) ==
    \E v \in vouchers :
        /\ IsOpen(p)
        /\ Key(v) = <<p, Channel[p].nonce, s>>
        /\ free'[Receiver(p)] = free[Receiver(p)] + v.amount
InTime(p) == now <= Channel[p].opened + asked[p] * MillisPerSecond

LEMMA ConsumedIsSettled ==
    ASSUME IndInv, ChannelInv, Next, NEW p \in Pairs, NEW s \in Consumed(p)
    PROVE  Settled(p, s) /\ InTime(p)
  <1>1. TypeOK
    BY DEF IndInv
  <1>2. PICK u \in Vouchers : u.pair = p /\ u.session = s /\ ClaimLive(p, s, u.amount)
    BY ConsumedByClaim
  <1> DEFINE v == [pair |-> p, nonce |-> Channel[p].nonce, session |-> s, amount |-> u.amount]
  <1>3. /\ IsOpen(p) /\ ~(Channel[p].expiration < now) /\ v \in vouchers
        /\ CurrencyTransfer(Sender(p), Receiver(p), u.amount)
    BY <1>2 DEF ClaimLive, Expired, verify_signature
  <1>4. /\ Sender(p) # Receiver(p)
        /\ Channel[p].expiration <= Channel[p].opened + asked[p] * MillisPerSecond
    BY <1>3 DEF ChannelInv
  <1>5. free \in Sheets /\ free[Receiver(p)] \in Nat
        /\ Receiver(p) \in Accounts /\ Sender(p) \in Accounts
    BY <1>1, PairParts, SumOfAssumption DEF TypeOK, BalancesTypeOK, Sheets, Balance
  <1>6. free'[Receiver(p)] = free[Receiver(p)] + u.amount
    BY <1>3, <1>4, <1>5 DEF CurrencyTransfer, balanceVars, Sheets
  <1>7. v.amount = u.amount /\ Key(v) = <<p, Channel[p].nonce, s>>
    BY DEF Key
  <1> HIDE DEF v
  <1>8. Settled(p, s)
    BY <1>3, <1>6, <1>7 DEF Settled
  <1>9. InTime(p)
    <2> DEFINE e == Channel[p].expiration
               deadline == Channel[p].opened + asked[p] * MillisPerSecond
    <2>1. e \in Nat /\ now \in Nat
      BY <1>1, <1>3, MomentAssumption DEF TypeOK, Moment, Chan, IsOpen
    <2>2. deadline \in Nat
      <3>1. Channel[p].opened \in Nat /\ asked[p] \in Nat
        BY <1>1, <1>3, MomentAssumption DEF TypeOK, Moment, Chan, IsOpen
      <3> QED
        BY <3>1, MicropaymentAssumption
    <2>3. ~(e < now) /\ e <= deadline
      BY <1>3, <1>4
    <2> HIDE DEF e, deadline
    <2>4. now <= deadline
      BY <2>1, <2>2, <2>3
    <2> QED
      BY <2>4 DEF InTime, deadline
  <1> QED
    BY <1>8, <1>9

\* A session is consumed only together with the payment of a micropayment that
\* was signed for it.
THEOREM MarksArePayments == Spec => MarkedAsPaid
  <1>1. IndInv /\ ChannelInv /\ [Next]_vars
           => [\A p \in Pairs : \A s \in Consumed(p) : Settled(p, s)]_vars
    BY ConsumedIsSettled
  <1>2. Spec => [][\A p \in Pairs : \A s \in Consumed(p) : Settled(p, s)]_vars
    BY <1>1, Invariance, ChannelInvariance, PTL DEF Spec
  <1> QED
    BY <1>2 DEF MarkedAsPaid, Settled

\* Nothing is paid later than the duration asked for, whatever the duration.
THEOREM PaymentsAreInTime == Spec => NoLatePayment
  <1>1. IndInv /\ ChannelInv /\ [Next]_vars
           => [\A p \in Pairs : Consumed(p) # {} => InTime(p)]_vars
    BY ConsumedIsSettled
  <1>2. Spec => [][\A p \in Pairs : Consumed(p) # {} => InTime(p)]_vars
    BY <1>1, Invariance, ChannelInvariance, PTL DEF Spec
  <1> QED
    BY <1>2 DEF NoLatePayment, InTime

-----------------------------------------------------------------------------
\* The durations of which the multiplication by 1000 fits in a u32: at most
\* 4294967 seconds, some seven weeks.
NoWrap == \A d \in Durations : d * MillisPerSecond < U32Modulus

\* The expiration of an open channel is not before its opening plus the
\* duration asked for, unless that is later than every moment.
DeadlineKept ==
    \A p \in Pairs : IsOpen(p) =>
        \/ Channel[p].expiration >= Channel[p].opened + asked[p] * MillisPerSecond
        \/ Channel[p].expiration = MomentMax

\* A remainder is the number itself when it is below the modulus.
LEMMA SmallRemainder ==
    ASSUME NEW x \in Nat, NEW m \in Nat \ {0}, x < m
    PROVE  x % m = x
  OBVIOUS

\* Each step keeps the deadline.
LEMMA NextDeadline == NoWrap /\ IndInv /\ DeadlineKept /\ [Next]_vars => DeadlineKept'
  <1> SUFFICES ASSUME NoWrap, IndInv, DeadlineKept, [Next]_vars,
                      NEW q \in Pairs, IsOpen(q)'
               PROVE  \/ Channel'[q].expiration >= Channel'[q].opened + asked'[q] * MillisPerSecond
                      \/ Channel'[q].expiration = MomentMax
    BY DEF DeadlineKept
  <1>1. TypeOK
    BY DEF IndInv
  <1>2. ASSUME NEW p \in Pairs, NEW d \in Durations, open_channel(p, d), q = p
        PROVE  \/ Channel'[q].expiration >= Channel'[q].opened + asked'[q] * MillisPerSecond
               \/ Channel'[q].expiration = MomentMax
    <2> DEFINE mills == d * MillisPerSecond
    <2>1. mills \in Nat /\ mills < U32Modulus
      BY MicropaymentAssumption DEF NoWrap
    <2>2. duration_in_mills(d) = mills
      <3> HIDE DEF mills
      <3>1. mills % U32Modulus = mills
        BY <2>1, SmallRemainder, MicropaymentAssumption
      <3> QED
        BY <3>1 DEF duration_in_mills, mills
    <2>3. /\ Channel'[q].opened = now
          /\ Channel'[q].expiration = expiration_of(now, mills)
          /\ asked'[q] * MillisPerSecond = mills
      BY <1>1, <1>2, <2>2 DEF open_channel, TypeOK
    <2> HIDE DEF mills
    <2> QED
      BY <1>1, <2>1, <2>3, MomentAssumption DEF expiration_of, TypeOK, Moment
  <1>3. ASSUME IsOpen(q), Channel'[q] = Channel[q], asked'[q] = asked[q]
        PROVE  \/ Channel'[q].expiration >= Channel'[q].opened + asked'[q] * MillisPerSecond
               \/ Channel'[q].expiration = MomentMax
    BY <1>3 DEF DeadlineKept
  <1>4. ASSUME NEW p \in Pairs, NEW d \in Durations, open_channel(p, d), q # p
        PROVE  IsOpen(q) /\ Channel'[q] = Channel[q] /\ asked'[q] = asked[q]
    BY <1>1, <1>4 DEF open_channel, TypeOK, IsOpen
  <1>5. ASSUME NEW p \in Pairs, RemoveChannel(p), asked' = asked
        PROVE  IsOpen(q) /\ Channel'[q] = Channel[q] /\ asked'[q] = asked[q]
    BY <1>1, <1>5 DEF RemoveChannel, TypeOK, IsOpen
  <1>6. ASSUME Channel' = Channel, asked' = asked
        PROVE  IsOpen(q) /\ Channel'[q] = Channel[q] /\ asked'[q] = asked[q]
    BY <1>6 DEF IsOpen
  <1> QED
    BY <1>2, <1>3, <1>4, <1>5, <1>6
    DEF Next, claim_payment, close_channel, ClaimExpired, ClaimLive, sign, transfer, NewBlock,
        channelVars, vars

\* A channel with such a deadline is not found expired before it.
LEMMA DeadlineHonours == IndInv /\ DeadlineKept => NoEarlyExpiry
  <1> SUFFICES ASSUME IndInv, DeadlineKept, NEW p \in Pairs, IsOpen(p),
                      now <= Channel[p].opened + asked[p] * MillisPerSecond
               PROVE  ~(Channel[p].expiration < now)
    BY DEF NoEarlyExpiry, Expired
  <1> DEFINE deadline == Channel[p].opened + asked[p] * MillisPerSecond
  <1>1. /\ now \in Nat /\ now <= MomentMax
        /\ Channel[p].expiration \in Nat /\ deadline \in Nat /\ MomentMax \in Nat
    BY MicropaymentAssumption, MomentAssumption DEF IndInv, TypeOK, Moment, Chan, IsOpen
  <1>2. Channel[p].expiration >= deadline \/ Channel[p].expiration = MomentMax
    BY DEF DeadlineKept
  <1>3. now <= deadline
    OBVIOUS
  <1> HIDE DEF deadline
  <1> QED
    BY <1>1, <1>2, <1>3

\* No channel is open at first.
LEMMA InitDeadline == Init => DeadlineKept
  BY DEF Init, DeadlineKept, IsOpen

\* As long as durations do not wrap, a channel lives for at least the duration
\* asked of open_channel.
THEOREM DurationHonoured ==
    ASSUME NoWrap
    PROVE  Spec => []NoEarlyExpiry
  <1>1. NoWrap
    OBVIOUS
  <1> QED
    BY <1>1, InitDeadline, DeadlineHonours, NextDeadline, Invariance, PTL DEF Spec
=============================================================================
