-------------------------- MODULE DeeperNodeProofs --------------------------
(***************************************************************************)
(* The deposits and the server lists of the deeper_node pallet, for any    *)
(* accounts and countries.                                                 *)
(***************************************************************************)
EXTENDS DeeperNode, BalancesProofs, SequenceTheorems

\* The ledger is sound, and what it holds in reserve is accounted for.
\* DepositsAccounted by itself is not inductive: that unregister_device finds
\* nothing to give back once the account has died rests on what was stranded
\* having been burnt as well.
IndInv ==
    /\ LedgerInv
    /\ DeviceInfo \in [Accounts -> Countries \union {NoDevice}]
    /\ stranded \in [Accounts -> Nat]
    /\ \A a \in Accounts : a \in reaped => stranded[a] = 0
    /\ DepositsAccounted

\* What the invariant says of one account, with the amounts as numbers.
Accounted(a) ==
    /\ stranded[a] \in Nat
    /\ a \in reaped => stranded[a] = 0
    /\ reserved[a] = stranded[a] + Backing(a)

LEMMA IndInvOf ==
    ASSUME IndInv
    PROVE  /\ LedgerInv /\ DeviceInfo \in [Accounts -> Countries \union {NoDevice}]
           /\ stranded \in [Accounts -> Nat]
           /\ reserved \in Sheets /\ free \in Sheets
           /\ MIN_LOCK_AMT \in Nat \ {0} /\ MIN_LOCK_AMT \in Balance
           /\ NoDevice \notin Countries /\ 0 \in Countries
           /\ \A a \in Accounts : /\ Accounted(a)
                                  /\ free[a] \in Nat /\ reserved[a] \in Nat
                                  /\ Backing(a) \in {0, MIN_LOCK_AMT}
  <1>1. /\ MIN_LOCK_AMT \in Nat \ {0} /\ MIN_LOCK_AMT \in Balance
        /\ NoDevice \notin Countries /\ 0 \in Countries
    BY DeeperNodeAssumption, SumOfAssumption DEF Balance
  <1>2. \A a \in Accounts : free[a] \in Nat /\ reserved[a] \in Nat
    BY SumOfType DEF IndInv, LedgerInv, BalancesTypeOK
  <1> QED
    BY <1>1, <1>2 DEF IndInv, LedgerInv, BalancesTypeOK, DepositsAccounted, Accounted, Backing

\* The genesis state has no devices.
LEMMA InitIndInv == Init => IndInv
  <1> SUFFICES ASSUME Init PROVE IndInv
    OBVIOUS
  <1>1. \A a \in Accounts : reserved[a] = 0 /\ stranded[a] = 0 /\ Backing(a) = 0
    BY DEF Init, BalancesInit, EmptySheet, Backing, Registered
  <1> QED
    BY <1>1, GenesisLedger DEF Init, IndInv, DepositsAccounted

\* Registering reserves a whole deposit, on top of what there is.
LEMMA RegisterKeepsInv ==
    ASSUME IndInv, NEW a \in Accounts, NEW country \in Countries, register_device(a, country)
    PROVE  IndInv'
  <1>1. LedgerInv'
    BY IndInvOf, ReserveKeepsLedger DEF register_device
  <1>2. /\ DeviceInfo' = [DeviceInfo EXCEPT ![a] = country]
        /\ reserved' = [reserved EXCEPT ![a] = reserved[a] + MIN_LOCK_AMT]
        /\ stranded' = [stranded EXCEPT ![a] = stranded[a] + Backing(a)]
        /\ reaped' = reaped \ {a}
    BY DEF register_device, Reserve
  <1>3. stranded' \in [Accounts -> Nat]
    <2>1. stranded[a] + Backing(a) \in Nat
      BY IndInvOf
    <2> QED
      BY <1>2, <2>1, IndInvOf
  <1>4. ASSUME NEW b \in Accounts
        PROVE  /\ b \in reaped' => stranded'[b] = 0
               /\ reserved'[b] = stranded'[b] + Backing(b)'
    <2>1. CASE b = a
      <3>1. /\ reserved'[b] = reserved[a] + MIN_LOCK_AMT
            /\ stranded'[b] = stranded[a] + Backing(a)
            /\ b \notin reaped' /\ DeviceInfo'[b] = country
        BY <1>2, <2>1, IndInvOf DEF Sheets
      <3>2. Backing(b)' = MIN_LOCK_AMT
        BY <3>1, IndInvOf DEF Backing, Registered
      <3> QED
        BY <2>1, <3>1, <3>2, IndInvOf DEF Accounted
    <2>2. CASE b # a
      <3>1. /\ reserved'[b] = reserved[b] /\ stranded'[b] = stranded[b]
            /\ DeviceInfo'[b] = DeviceInfo[b] /\ (b \in reaped' <=> b \in reaped)
        BY <1>2, <2>2, IndInvOf DEF Sheets
      <3> QED
        BY <3>1, IndInvOf DEF Accounted, Backing, Registered
    <2> QED
      BY <2>1, <2>2
  <1>5. DeviceInfo' \in [Accounts -> Countries \union {NoDevice}]
    BY <1>2, IndInvOf
  <1> QED
    BY <1>1, <1>3, <1>4, <1>5 DEF IndInv, DepositsAccounted

\* Unregistering gives back the deposit that backs the caller's device.
LEMMA UnregisterGivesBack ==
    ASSUME IndInv, NEW a \in Accounts, unregister_device(a)
    PROVE  /\ Registered(a)
           /\ DeviceInfo' = [DeviceInfo EXCEPT ![a] = NoDevice]
           /\ reaped' = reaped \ {a} /\ stranded' = stranded
           /\ free'[a] = free[a] + Backing(a)
           /\ reserved'[a] = stranded[a]
           /\ \A b \in Accounts : b # a => reserved'[b] = reserved[b]
  <1> DEFINE actual == IF reserved[a] < MIN_LOCK_AMT THEN reserved[a] ELSE MIN_LOCK_AMT
  <1>1. /\ Registered(a) /\ DeviceInfo' = [DeviceInfo EXCEPT ![a] = NoDevice]
        /\ reaped' = reaped \ {a} /\ stranded' = stranded
        /\ free' = [free EXCEPT ![a] = @ + actual]
        /\ reserved' = [reserved EXCEPT ![a] = @ - actual]
    BY DEF unregister_device, Unreserve
  <1>2. actual = Backing(a) /\ reserved[a] - actual = stranded[a]
    <2>1. CASE a \in reaped
      BY <2>1, IndInvOf DEF Accounted, Backing
    <2>2. CASE a \notin reaped
      BY <1>1, <2>2, IndInvOf DEF Accounted, Backing
    <2> QED
      BY <2>1, <2>2
  <1> HIDE DEF actual
  <1> QED
    BY <1>1, <1>2, IndInvOf DEF Sheets

LEMMA UnregisterKeepsInv ==
    ASSUME IndInv, NEW a \in Accounts, unregister_device(a)
    PROVE  IndInv'
  <1>1. LedgerInv'
    BY IndInvOf, UnreserveKeepsLedger DEF unregister_device
  <1>2. ASSUME NEW b \in Accounts
        PROVE  reserved'[b] = stranded'[b] + Backing(b)'
    <2>1. CASE b = a
      <3>1. reserved'[b] = stranded'[b] /\ stranded'[b] \in Nat /\ DeviceInfo'[b] = NoDevice
        BY <2>1, UnregisterGivesBack, IndInvOf
      <3> QED
        BY <3>1 DEF Backing, Registered
    <2>2. CASE b # a
      <3>1. /\ reserved'[b] = reserved[b] /\ stranded'[b] = stranded[b]
            /\ DeviceInfo'[b] = DeviceInfo[b] /\ (b \in reaped' <=> b \in reaped)
        BY <2>2, UnregisterGivesBack, IndInvOf
      <3> QED
        BY <3>1, IndInvOf DEF Accounted, Backing, Registered
    <2> QED
      BY <2>1, <2>2
  <1>3. DeviceInfo' \in [Accounts -> Countries \union {NoDevice}]
    BY UnregisterGivesBack, IndInvOf
  <1>4. stranded' \in [Accounts -> Nat] /\ \A b \in Accounts : b \in reaped' => stranded'[b] = 0
    BY UnregisterGivesBack DEF IndInv
  <1> QED
    BY <1>1, <1>2, <1>3, <1>4 DEF IndInv, DepositsAccounted

\* Server lists have no influence on deposits.
LEMMA ServerKeepsInv ==
    ASSUME IndInv, NEW a \in Accounts, NEW country \in Countries,
           register_server(a, country) \/ unregister_server(a, country)
    PROVE  IndInv'
  <1>1. /\ UNCHANGED <<free, reserved, issuance, reaped, stranded>>
        /\ DeviceInfo[a] # NoDevice
        /\ \E c \in Countries : DeviceInfo' = [DeviceInfo EXCEPT ![a] = c]
    BY IndInvOf DEF register_server, unregister_server, Registered, balanceVars
  <1>2. LedgerInv'
    BY <1>1 DEF IndInv, LedgerInv, BalancesTypeOK, Conservation, NoDust
  <1>3. /\ DeviceInfo' \in [Accounts -> Countries \union {NoDevice}]
        /\ \A b \in Accounts : DeviceInfo'[b] # NoDevice <=> DeviceInfo[b] # NoDevice
    BY <1>1, IndInvOf
  <1>4. DepositsAccounted'
    BY <1>1, <1>3 DEF IndInv, DepositsAccounted, Backing, Registered
  <1> QED
    BY <1>1, <1>2, <1>3, <1>4 DEF IndInv

\* A transfer takes a deposit only by killing its account, and then all.
LEMMA TransferKeepsInv ==
    ASSUME IndInv, NEW from \in Accounts, NEW to \in Accounts, NEW amount \in Amounts,
           transfer(from, to, amount)
    PROVE  IndInv'
  <1>1. LedgerInv'
    BY IndInvOf, DeeperNodeAssumption, CurrencyTransferKeepsLedger DEF transfer
  <1>2. /\ CurrencyTransfer(from, to, amount)
        /\ reaped' = reaped \union {a \in {b \in {from} : Kills(from, to, amount)} : Registered(a)}
        /\ stranded' = [a \in Accounts |-> IF a \in {b \in {from} : Kills(from, to, amount)}
                                           THEN 0 ELSE stranded[a]]
        /\ DeviceInfo' = DeviceInfo
    BY DEF transfer
  <1>3. stranded' \in [Accounts -> Nat]
    BY <1>2, IndInvOf
  <1>4. ASSUME NEW b \in Accounts
        PROVE  reserved'[b] = IF b = from /\ Kills(from, to, amount) THEN 0 ELSE reserved[b]
    BY <1>2, IndInvOf DEF CurrencyTransfer, Kills, balanceVars, Sheets
  <1>5. ASSUME NEW b \in Accounts
        PROVE  /\ b \in reaped' => stranded'[b] = 0
               /\ reserved'[b] = stranded'[b] + Backing(b)'
    <2>1. CASE b = from /\ Kills(from, to, amount)
      <3>1. /\ reserved'[b] = 0 /\ stranded'[b] = 0
            /\ b \in reaped' \/ DeviceInfo'[b] = NoDevice
        BY <1>2, <1>4, <2>1 DEF Registered
      <3> QED
        BY <3>1 DEF Backing, Registered
    <2>2. CASE ~(b = from /\ Kills(from, to, amount))
      <3>1. /\ reserved'[b] = reserved[b] /\ stranded'[b] = stranded[b]
            /\ DeviceInfo'[b] = DeviceInfo[b] /\ (b \in reaped' <=> b \in reaped)
        BY <1>2, <1>4, <2>2
      <3> QED
        BY <3>1, IndInvOf DEF Accounted, Backing, Registered
    <2> QED
      BY <2>1, <2>2
  <1> QED
    BY <1>1, <1>2, <1>3, <1>5, IndInvOf DEF IndInv, DepositsAccounted

\* Every call keeps the inductive invariant.
LEMMA NextIndInv == IndInv /\ [Next]_vars => IndInv'
  <1> SUFFICES ASSUME IndInv, [Next]_vars PROVE IndInv'
    OBVIOUS
  <1>1. CASE UNCHANGED vars
    BY <1>1 DEF vars, IndInv, LedgerInv, BalancesTypeOK, Conservation, NoDust, DepositsAccounted,
                Backing, Registered
  <1>2. CASE Next
    BY <1>2, RegisterKeepsInv, UnregisterKeepsInv, ServerKeepsInv, TransferKeepsInv
    DEF Next, Transfers
  <1> QED
    BY <1>1, <1>2

LEMMA Invariance == Spec => []IndInv
  BY InitIndInv, NextIndInv, PTL DEF Spec

\* Whatever calls accounts make, what is in reserve is one deposit for each
\* device that is backed, and what repeated registrations have stranded.
THEOREM DepositsAreAccounted == Spec => []DepositsAccounted
  <1>1. IndInv => DepositsAccounted
    BY DEF IndInv
  <1> QED
    BY Invariance, <1>1, PTL

\* Whatever calls an account makes, its registered device is backed by a full
\* deposit until the account dies.
THEOREM DevicesAreBacked == Spec => []DepositHeld
  <1>1. ASSUME IndInv, NEW a \in Accounts, Registered(a), a \notin reaped
        PROVE  reserved[a] >= MIN_LOCK_AMT
    BY <1>1, IndInvOf DEF Accounted, Backing
  <1>2. IndInv => DepositHeld
    BY <1>1 DEF DepositHeld
  <1> QED
    BY Invariance, <1>2, PTL

-----------------------------------------------------------------------------
\* A list of distinct accounts stays one when an element is removed ...
LEMMA RemoveAtInjective ==
    ASSUME NEW S, NEW s \in Seq(S), NEW k \in 1 .. Len(s), IsInjective(s)
    PROVE  /\ RemoveAt(s, k) \in Seq(S) /\ IsInjective(RemoveAt(s, k))
           /\ ToSet(RemoveAt(s, k)) = ToSet(s) \ {s[k]}
  <1> DEFINE t == RemoveAt(s, k)
             Old(i) == IF i < k THEN i ELSE i + 1
  <1>1. /\ t \in Seq(S)
        /\ Len(t) = Len(s) - 1
        /\ \A i \in 1 .. Len(s) - 1 : t[i] = s[Old(i)]
    <2> DEFINE l == SubSeq(s, 1, k - 1)
               r == SubSeq(s, k + 1, Len(s))
    <2>1. /\ l \in Seq(S) /\ Len(l) = k - 1
          /\ \A i \in 1 .. k - 1 : l[i] = s[i]
      BY SMT
    <2>2. /\ r \in Seq(S) /\ Len(r) = Len(s) - k
          /\ \A i \in 1 .. Len(s) - k : r[i] = s[k + i]
      BY SMT
    <2> HIDE DEF l, r
    <2>3. /\ l \o r \in Seq(S) /\ Len(l \o r) = Len(s) - 1
          /\ \A i \in 1 .. Len(s) - 1 : (l \o r)[i] = IF i < k THEN l[i] ELSE r[i - (k - 1)]
      <3>1. /\ l \o r \in Seq(S)
            /\ Len(l \o r) = Len(l) + Len(r)
            /\ \A i \in 1 .. Len(l) + Len(r) :
                  (l \o r)[i] = IF i <= Len(l) THEN l[i] ELSE r[i - Len(l)]
        BY <2>1, <2>2, ConcatProperties
      <3>2. Len(l) + Len(r) = Len(s) - 1 /\ \A i \in 1 .. Len(s) - 1 : i <= k - 1 <=> i < k
        BY <2>1, <2>2
      <3> QED
        BY <2>1, <3>1, <3>2
    <2>4. t = l \o r
      BY DEF RemoveAt, l, r
    <2>5. ASSUME NEW i \in 1 .. Len(s) - 1
          PROVE  (l \o r)[i] = s[Old(i)]
      <3>1. CASE i < k
        BY <2>1, <2>3, <3>1
      <3>2. CASE ~(i < k)
        <4>1. i - (k - 1) \in 1 .. Len(s) - k /\ k + (i - (k - 1)) = i + 1
          BY <3>2
        <4> QED
          BY <2>2, <2>3, <3>2, <4>1
      <3> QED
        BY <3>1, <3>2
    <2> QED
      BY <2>3, <2>4, <2>5
  <1> HIDE DEF t
  <1>4. DOMAIN t = 1 .. Len(s) - 1
    BY <1>1
  <1>2. \A i \in 1 .. Len(s) - 1 : Old(i) \in 1 .. Len(s)
    OBVIOUS
  <1>3. ASSUME NEW i \in DOMAIN t, NEW j \in DOMAIN t, t[i] = t[j]
        PROVE  i = j
    <2>1. i \in 1 .. Len(s) - 1 /\ j \in 1 .. Len(s) - 1
      BY <1>3, <1>4
    <2>2. Old(i) \in DOMAIN s /\ Old(j) \in DOMAIN s
      BY <1>2, <2>1
    <2>3. t[i] = s[Old(i)] /\ t[j] = s[Old(j)]
      BY <1>1, <2>1
    <2>4. Old(i) = Old(j)
      BY <1>3, <2>2, <2>3 DEF IsInjective
    <2> QED
      BY <2>1, <2>4
  <1>5. ToSet(t) = ToSet(s) \ {s[k]}
    <2>1. ASSUME NEW i \in 1 .. Len(s) - 1
          PROVE  t[i] \in ToSet(s) /\ t[i] # s[k]
      <3>1. t[i] = s[Old(i)] /\ Old(i) \in DOMAIN s /\ k \in DOMAIN s /\ Old(i) # k
        BY <1>1, <1>2
      <3> QED
        BY <3>1 DEF IsInjective, ToSet
    <2>2. ASSUME NEW j \in DOMAIN s, s[j] # s[k]
          PROVE  \E i \in DOMAIN t : t[i] = s[j]
      <3> DEFINE i == IF j < k THEN j ELSE j - 1
      <3>1. j \in 1 .. Len(s) /\ j # k
        BY <2>2
      <3>2. i \in 1 .. Len(s) - 1 /\ Old(i) = j
        BY <3>1
      <3> QED
        BY <1>1, <1>4, <3>2
    <2> QED
      BY <1>4, <2>1, <2>2 DEF ToSet
  <1> QED
    BY <1>1, <1>3, <1>5 DEF IsInjective, t

\* ... in particular its first occurrence of e (try_remove_server) ...
LEMMA RemoveFirstInjective ==
    ASSUME NEW S, NEW s \in Seq(S), NEW e, IsInjective(s)
    PROVE  /\ RemoveFirst(s, e) \in Seq(S) /\ IsInjective(RemoveFirst(s, e))
           /\ ToSet(RemoveFirst(s, e)) = ToSet(s) \ {e}
  <1>1. CASE \E i \in 1 .. Len(s) : s[i] = e
    <2>1. PICK k \in 1 .. Len(s) : s[k] = e
      BY <1>1
    <2>2. {i \in 1 .. Len(s) : s[i] = e} = {k}
      BY <2>1 DEF IsInjective
    <2>3. Min({k}) = k
      BY <2>1 DEF Min
    <2>4. RemoveFirst(s, e) = RemoveAt(s, k)
      BY <1>1, <2>2, <2>3 DEF RemoveFirst, SelectInSeq
    <2> QED
      BY <2>1, <2>4, RemoveAtInjective
  <1>2. CASE ~\E i \in 1 .. Len(s) : s[i] = e
    BY <1>2 DEF RemoveFirst, ToSet
  <1> QED
    BY <1>1, <1>2

\* ... and when an account that is not in it is added (try_add_server).
LEMMA AddedOnce ==
    ASSUME NEW S, NEW s \in Seq(S), NEW x \in S, IsInjective(s), x \notin ToSet(s)
    PROVE  /\ Append(s, x) \in Seq(S) /\ IsInjective(Append(s, x))
           /\ ToSet(Append(s, x)) = ToSet(s) \union {x}
  <1> DEFINE t == Append(s, x)
  <1>1. /\ t \in Seq(S)
        /\ Len(t) = Len(s) + 1
        /\ t[Len(s) + 1] = x
        /\ \A i \in 1 .. Len(s) : t[i] = s[i]
    BY AppendProperties
  <1> HIDE DEF t
  <1>2. DOMAIN t = 1 .. Len(s) + 1
    BY <1>1
  <1>3. ASSUME NEW i \in 1 .. Len(s) + 1, NEW j \in 1 .. Len(s) + 1, t[i] = t[j]
        PROVE  i = j
    BY <1>1, <1>3 DEF IsInjective, ToSet
  <1>4. ToSet(t) = ToSet(s) \union {x}
    <2>1. \A i \in DOMAIN t : t[i] \in ToSet(s) \union {x}
      BY <1>1, <1>2 DEF ToSet
    <2>2. \A j \in DOMAIN s : j \in DOMAIN t /\ t[j] = s[j]
      BY <1>1, <1>2
    <2>3. Len(s) + 1 \in DOMAIN t
      BY <1>2
    <2> QED
      BY <1>1, <2>1, <2>2, <2>3 DEF ToSet
  <1> QED
    BY <1>1, <1>2, <1>3, <1>4 DEF IsInjective, t

\* The lists are lists of distinct accounts. That the devices have countries is
\* part of it: unregister_device looks at the list of the device's country.
ListInv ==
    /\ DeviceInfo \in [Accounts -> Countries \union {NoDevice}]
    /\ ServersByCountry \in [Countries -> Seq(Accounts)]
    /\ reaped \subseteq Accounts
    /\ NoDoubleAdd

\* Replacing one list by a list of distinct accounts keeps them all distinct.
LEMMA ListReplaced ==
    ASSUME ListInv, NEW c \in Countries, NEW list \in Seq(Accounts), IsInjective(list),
           ServersByCountry' = [ServersByCountry EXCEPT ![c] = list]
    PROVE  ServersByCountry' \in [Countries -> Seq(Accounts)] /\ NoDoubleAdd'
  <1>1. ServersByCountry' \in [Countries -> Seq(Accounts)]
    BY DEF ListInv
  <1>2. ASSUME NEW d \in Countries
        PROVE  IsInjective(ServersByCountry'[d])
    <2>1. CASE d = c
      <3>1. ServersByCountry'[d] = list
        BY <2>1 DEF ListInv
      <3> QED
        BY <3>1
    <2>2. CASE d # c
      <3>1. ServersByCountry'[d] = ServersByCountry[d]
        BY <2>2 DEF ListInv
      <3> QED
        BY <3>1 DEF ListInv, NoDoubleAdd
    <2> QED
      BY <2>1, <2>2
  <1> QED
    BY <1>1, <1>2 DEF NoDoubleAdd

\* try_remove_server leaves a list of distinct accounts.
LEMMA TryRemoveList ==
    ASSUME ListInv, NEW a \in Accounts, NEW c \in Countries
    PROVE  /\ TryRemove(a, c) \in Seq(Accounts) /\ IsInjective(TryRemove(a, c))
           /\ ToSet(TryRemove(a, c)) = ServersOf(c) \ {a}
  <1>1. ServersByCountry[c] \in Seq(Accounts) /\ IsInjective(ServersByCountry[c])
    BY DEF ListInv, NoDoubleAdd
  <1> QED
    BY <1>1, RemoveFirstInjective DEF TryRemove, ServersOf

\* Every call keeps the lists.
LEMMA NextListInv == ListInv /\ [Next]_vars => ListInv'
  <1> SUFFICES ASSUME ListInv, [Next]_vars PROVE ListInv'
    OBVIOUS
  <1>1. ASSUME NEW a \in Accounts, unregister_device(a)
        PROVE  ListInv'
    <2>1. DeviceInfo[a] \in Countries
      BY <1>1 DEF unregister_device, Registered, ListInv
    <2>2. ServersByCountry' \in [Countries -> Seq(Accounts)] /\ NoDoubleAdd'
      BY <1>1, <2>1, TryRemoveList, ListReplaced DEF unregister_device
    <2> QED
      BY <1>1, <2>2 DEF unregister_device, ListInv
  <1>2. ASSUME NEW a \in Accounts, NEW country \in Countries, register_device(a, country)
        PROVE  ListInv'
    BY <1>2 DEF register_device, ListInv, NoDoubleAdd
  <1>3. ASSUME NEW a \in Accounts, NEW country \in Countries, register_server(a, country)
        PROVE  ListInv'
    <2> DEFINE list == Append(ServersByCountry[country], a)
    <2>1. /\ ServersByCountry[country] \in Seq(Accounts)
          /\ IsInjective(ServersByCountry[country])
          /\ a \notin ToSet(ServersByCountry[country])
      BY <1>3 DEF register_server, MayAdd, ServersOf, ListInv, NoDoubleAdd
    <2>2. list \in Seq(Accounts) /\ IsInjective(list)
      BY <2>1, AddedOnce
    <2>3. ServersByCountry' = [ServersByCountry EXCEPT ![country] = list]
      BY <1>3 DEF register_server
    <2> HIDE DEF list
    <2>4. ServersByCountry' \in [Countries -> Seq(Accounts)] /\ NoDoubleAdd'
      BY <2>2, <2>3, ListReplaced
    <2> QED
      BY <1>3, <2>4 DEF register_server, ListInv
  <1>4. ASSUME NEW a \in Accounts, NEW country \in Countries, unregister_server(a, country)
        PROVE  ListInv'
    <2>1. ServersByCountry' \in [Countries -> Seq(Accounts)] /\ NoDoubleAdd'
      BY <1>4, TryRemoveList, ListReplaced DEF unregister_server
    <2> QED
      BY <1>4, <2>1, DeeperNodeAssumption DEF unregister_server, ListInv
  <1>5. ASSUME NEW from \in Accounts, NEW to \in Accounts, NEW amount \in Amounts,
               transfer(from, to, amount)
        PROVE  ListInv'
    BY <1>5 DEF transfer, ListInv, NoDoubleAdd
  <1>6. CASE UNCHANGED vars
    BY <1>6 DEF vars, ListInv, NoDoubleAdd
  <1> QED
    BY <1>1, <1>2, <1>3, <1>4, <1>5, <1>6 DEF Next, Transfers

\* The lists start empty.
LEMMA InitListInv == Init => ListInv
  <1> SUFFICES ASSUME Init PROVE ListInv
    OBVIOUS
  <1>1. ServersByCountry = [c \in Countries |-> <<>>] /\ reaped = {}
        /\ DeviceInfo = [a \in Accounts |-> NoDevice]
    BY DEF Init
  <1>2. \A c \in Countries : ServersByCountry[c] = <<>>
    BY <1>1
  <1>3. IsInjective(<<>>)
    BY DEF IsInjective
  <1> QED
    BY <1>1, <1>2, <1>3 DEF ListInv, NoDoubleAdd

\* "no double add": for any accounts and countries, whatever calls are made, an
\* account is on the list of a country at most once.
THEOREM NoServerTwice == Spec => []NoDoubleAdd
  <1>1. Spec => []ListInv
    BY InitListInv, NextListInv, PTL DEF Spec
  <1>2. ListInv => NoDoubleAdd
    BY DEF ListInv
  <1> QED
    BY <1>1, <1>2, PTL

\* The storage of the pallet and the ledger under it keep their types; the
\* balances do so because every unit of them is part of the issuance.
THEOREM DeviceTypes == Spec => []TypeOK
  <1>1. Spec => []ListInv
    BY InitListInv, NextListInv, PTL DEF Spec
  <1>3. ListInv /\ IndInv => TypeOK
    BY DEF ListInv, IndInv, LedgerInv, TypeOK
  <1> QED
    BY <1>1, Invariance, <1>3, PTL

-----------------------------------------------------------------------------
(* Clients that keep to the life cycle of a device *)

\* Disciplined clients make the calls that everybody may make.
LEMMA DisciplinedIsNext == DisciplinedNext => Next
  BY DEF DisciplinedNext, Next

\* A server is on the list of the country in its details. That is more than
\* ListMatchesDevice and ServersAreRegistered say one by one: it is what makes
\* unregister_device look at the only list that the device can be on.
ServerInv ==
    /\ ListInv
    /\ \A c \in Countries : \A a \in ServersOf(c) : DeviceInfo[a] = c

\* Disciplined clients strand nothing.
DepositInv == IndInv /\ \A a \in Accounts : stranded[a] = 0

\* What a call does to the lists, as sets: one list gains or loses a server.
LEMMA ServersReplaced ==
    ASSUME ListInv, NEW c \in Countries, NEW list \in Seq(Accounts),
           ServersByCountry' = [ServersByCountry EXCEPT ![c] = list]
    PROVE  /\ ServersOf(c)' = ToSet(list)
           /\ \A d \in Countries : d # c => ServersOf(d)' = ServersOf(d)
  <1>1. /\ ServersByCountry'[c] = list
        /\ \A d \in Countries : d # c => ServersByCountry'[d] = ServersByCountry[d]
    BY DEF ListInv
  <1> QED
    BY <1>1 DEF ServersOf

\* unregister_device takes the device off the list of its country.
LEMMA UnregisterServers ==
    ASSUME ServerInv, NEW a \in Accounts, unregister_device(a)
    PROVE  /\ \A d \in Countries : ServersOf(d)' = ServersOf(d) \ {a}
           /\ DeviceInfo' = [DeviceInfo EXCEPT ![a] = NoDevice]
           /\ Registered(a)
  <1>1. DeviceInfo[a] \in Countries
    BY DEF unregister_device, Registered, ServerInv, ListInv
  <1>2. /\ ServersByCountry' = [ServersByCountry EXCEPT ![DeviceInfo[a]] = TryRemove(a, DeviceInfo[a])]
        /\ DeviceInfo' = [DeviceInfo EXCEPT ![a] = NoDevice] /\ Registered(a)
    BY DEF unregister_device
  <1>3. /\ TryRemove(a, DeviceInfo[a]) \in Seq(Accounts)
        /\ ToSet(TryRemove(a, DeviceInfo[a])) = ServersOf(DeviceInfo[a]) \ {a}
    BY <1>1, TryRemoveList DEF ServerInv
  <1>4. \A d \in Countries : d # DeviceInfo[a] => ServersOf(d)' = ServersOf(d)
    BY <1>1, <1>2, <1>3, ServersReplaced DEF ServerInv
  <1>5. ToSet(ServersByCountry'[DeviceInfo[a]]) = ServersOf(DeviceInfo[a]) \ {a}
    BY <1>1, <1>2, <1>3 DEF ServerInv, ListInv
  <1>6. \A d \in Countries : d # DeviceInfo[a] => a \notin ServersOf(d)
    BY DEF ServerInv
  <1>7. ASSUME NEW d \in Countries
        PROVE  ServersOf(d)' = ServersOf(d) \ {a}
    <2>1. CASE d = DeviceInfo[a]
      BY <1>5, <2>1 DEF ServersOf
    <2>2. CASE d # DeviceInfo[a]
      BY <1>4, <1>6, <2>2
    <2> QED
      BY <2>1, <2>2
  <1> QED
    BY <1>2, <1>7

\* register_server puts it on one list ...
LEMMA RegisterServers ==
    ASSUME ServerInv, NEW a \in Accounts, NEW c \in Countries, register_server(a, c)
    PROVE  /\ ServersOf(c)' = ServersOf(c) \union {a}
           /\ \A d \in Countries : d # c => ServersOf(d)' = ServersOf(d)
           /\ DeviceInfo' = [DeviceInfo EXCEPT ![a] = c]
           /\ Registered(a)
  <1> DEFINE list == Append(ServersByCountry[c], a)
  <1>1. /\ ServersByCountry[c] \in Seq(Accounts)
        /\ IsInjective(ServersByCountry[c])
        /\ a \notin ToSet(ServersByCountry[c])
    BY DEF register_server, MayAdd, ServersOf, ServerInv, ListInv, NoDoubleAdd
  <1>2. list \in Seq(Accounts) /\ ToSet(list) = ServersOf(c) \union {a}
    BY <1>1, AddedOnce DEF ServersOf
  <1>3. /\ ServersByCountry' = [ServersByCountry EXCEPT ![c] = list]
        /\ DeviceInfo' = [DeviceInfo EXCEPT ![a] = c] /\ Registered(a)
    BY DEF register_server
  <1> HIDE DEF list
  <1> QED
    BY <1>2, <1>3, ServersReplaced DEF ServerInv

\* ... and unregister_server takes it off again.
LEMMA UnregisterServer ==
    ASSUME ServerInv, NEW a \in Accounts, NEW c \in Countries, unregister_server(a, c)
    PROVE  /\ \A d \in Countries : ServersOf(d)' = ServersOf(d) \ {a}
           /\ DeviceInfo' = [DeviceInfo EXCEPT ![a] = 0]
           /\ Registered(a) /\ a \in ServersOf(c)
  <1>1. /\ ServersByCountry' = [ServersByCountry EXCEPT ![c] = TryRemove(a, c)]
        /\ DeviceInfo' = [DeviceInfo EXCEPT ![a] = 0]
        /\ Registered(a) /\ a \in ServersOf(c)
    BY DEF unregister_server
  <1>2. TryRemove(a, c) \in Seq(Accounts) /\ ToSet(TryRemove(a, c)) = ServersOf(c) \ {a}
    BY TryRemoveList DEF ServerInv
  <1>3. /\ ServersOf(c)' = ServersOf(c) \ {a}
        /\ \A d \in Countries : d # c => ServersOf(d)' = ServersOf(d)
    BY <1>1, <1>2, ServersReplaced DEF ServerInv
  <1>4. \A d \in Countries : d # c => a \notin ServersOf(d)
    BY <1>1 DEF ServerInv
  <1> QED
    BY <1>1, <1>3, <1>4

\* Every disciplined call keeps servers on the list of their country.
LEMMA DisciplinedServerInv == ServerInv /\ [DisciplinedNext]_vars => ServerInv'
  <1> SUFFICES ASSUME ServerInv, [DisciplinedNext]_vars PROVE ServerInv'
    OBVIOUS
  <1>1. ListInv'
    BY DisciplinedIsNext, NextListInv DEF ServerInv
  <1>2. DeviceInfo \in [Accounts -> Countries \union {NoDevice}]
        /\ \A c \in Countries : ServersOf(c) \subseteq Accounts
    BY DEF ServerInv, ListInv, ServersOf, ToSet
  <1> DEFINE Goal == \A c \in Countries : \A b \in ServersOf(c)' : DeviceInfo'[b] = c
  <1>3. ASSUME NEW a \in Accounts, unregister_device(a) PROVE Goal
    BY <1>2, <1>3, UnregisterServers DEF ServerInv
  <1>4. ASSUME NEW a \in Accounts, NEW country \in Countries,
               ~Registered(a), register_device(a, country)
        PROVE  Goal
    <2>1. \A c \in Countries : a \notin ServersOf(c) /\ ServersOf(c)' = ServersOf(c)
      BY <1>4, DeeperNodeAssumption DEF ServerInv, Registered, register_device, ServersOf
    <2> QED
      BY <1>2, <1>4, <2>1 DEF register_device, ServerInv
  <1>5. ASSUME NEW a \in Accounts, NEW country \in Countries,
               \A c \in Countries : a \notin ServersOf(c), register_server(a, country)
        PROVE  Goal
    BY <1>2, <1>5, RegisterServers DEF ServerInv
  <1>6. ASSUME NEW a \in Accounts, NEW country \in Countries, unregister_server(a, country)
        PROVE  Goal
    BY <1>2, <1>6, UnregisterServer DEF ServerInv
  <1>7. ASSUME Transfers \/ UNCHANGED vars PROVE Goal
    <2>1. UNCHANGED <<DeviceInfo, ServersByCountry>>
      BY <1>7 DEF Transfers, transfer, vars
    <2> QED
      BY <2>1 DEF ServerInv, ServersOf
  <1>8. Goal
    BY <1>3, <1>4, <1>5, <1>6, <1>7 DEF DisciplinedNext
  <1> QED
    BY <1>1, <1>8 DEF ServerInv

LEMMA InitServerInv == Init => ServerInv
  <1> SUFFICES ASSUME Init PROVE ServerInv
    OBVIOUS
  <1>1. \A c \in Countries : ServersOf(c) = {}
    BY DEF Init, ServersOf, ToSet
  <1> QED
    BY <1>1, InitListInv DEF ServerInv

LEMMA ServerInvariance == DisciplinedSpec => []ServerInv
  BY InitServerInv, DisciplinedServerInv, PTL DEF DisciplinedSpec

\* With disciplined clients, whoever is on a list has a device; servers_registered
\* is the run that shows why discipline is needed.
THEOREM ServersHaveDevices == DisciplinedSpec => []ServersAreRegistered
  <1>1. ServerInv => ServersAreRegistered
    BY DeeperNodeAssumption DEF ServerInv, ServersAreRegistered, Registered
  <1> QED
    BY ServerInvariance, <1>1, PTL

\* "ensure consistency": with disciplined clients the country in a server's
\* details is that of its list.
THEOREM ListsMatchDevices == DisciplinedSpec => []ListMatchesDevice
  <1>1. ServerInv => ListMatchesDevice
    BY DEF ServerInv, ListMatchesDevice
  <1> QED
    BY ServerInvariance, <1>1, PTL

\* Every disciplined call keeps one deposit per device at most.
LEMMA DisciplinedDepositInv == DepositInv /\ [DisciplinedNext]_vars => DepositInv'
  <1> SUFFICES ASSUME DepositInv, [DisciplinedNext]_vars PROVE DepositInv'
    OBVIOUS
  <1>1. IndInv /\ IndInv'
    BY DisciplinedIsNext, NextIndInv DEF DepositInv
  <1>2. \A b \in Accounts : stranded[b] = 0
    BY DEF DepositInv
  <1>3. ASSUME NEW a \in Accounts, NEW country \in Countries, ~Registered(a),
               register_device(a, country), NEW b \in Accounts
        PROVE  stranded'[b] = 0
    <2>1. stranded' = [stranded EXCEPT ![a] = @ + Backing(a)] /\ Backing(a) = 0
      BY <1>3 DEF register_device, Backing
    <2> QED
      BY <1>1, <1>2, <2>1, IndInvOf
  <1>4. ASSUME Transfers, NEW b \in Accounts PROVE stranded'[b] = 0
    BY <1>2, <1>4 DEF Transfers, transfer
  <1>5. CASE UNCHANGED stranded
    BY <1>1, <1>2, <1>5 DEF DepositInv
  <1>6. ASSUME ~UNCHANGED stranded PROVE \A b \in Accounts : stranded'[b] = 0
    BY <1>3, <1>4, <1>6
    DEF DisciplinedNext, unregister_device, register_server, unregister_server, vars
  <1> QED
    BY <1>1, <1>5, <1>6 DEF DepositInv

LEMMA InitDepositInv == Init => DepositInv
  BY InitIndInv DEF Init, DepositInv

\* The device of an account goes away only by its own unregistering.
LEMMA GoneByUnregister ==
    ASSUME DepositInv, DisciplinedNext, NEW a \in Accounts, Registered(a), ~Registered(a)'
    PROVE  unregister_device(a)
  <1>1. DeviceInfo[a] # NoDevice /\ DeviceInfo'[a] = NoDevice
    BY DEF Registered
  <1>2. /\ DeviceInfo \in [Accounts -> Countries \union {NoDevice}]
        /\ NoDevice \notin Countries /\ 0 \in Countries
    BY IndInvOf DEF DepositInv
  <1>3. ASSUME NEW b \in Accounts, unregister_device(b) PROVE b = a
    BY <1>1, <1>2, <1>3 DEF unregister_device
  <1>4. ASSUME NEW b \in Accounts, NEW c \in Countries, DeviceInfo' = [DeviceInfo EXCEPT ![b] = c]
        PROVE  FALSE
    BY <1>1, <1>2, <1>4
  <1> QED
    BY <1>1, <1>2, <1>3, <1>4
    DEF DisciplinedNext, register_device, register_server, unregister_server, Transfers, transfer

\* A disciplined client that unregisters its device gets its deposit back, and
\* has nothing left in reserve, however often it came and went.
THEOREM DepositsReturned == DisciplinedSpec => DepositReturned
  <1> DEFINE Returned(a) == /\ free'[a] = free[a] + Backing(a)
                            /\ reserved'[a] = 0
             Step == \A a \in Accounts : (Registered(a) /\ ~Registered(a)') => Returned(a)
  <1>1. ASSUME DepositInv, DisciplinedNext, NEW a \in Accounts, Registered(a), ~Registered(a)'
        PROVE  Returned(a)
    <2>1. unregister_device(a) /\ IndInv /\ stranded[a] = 0
      BY <1>1, GoneByUnregister DEF DepositInv
    <2> QED
      BY <2>1, UnregisterGivesBack
  <1>2. DepositInv /\ [DisciplinedNext]_vars => [Step]_vars
    BY <1>1
  <1>3. DisciplinedSpec => []DepositInv
    BY InitDepositInv, DisciplinedDepositInv, PTL DEF DisciplinedSpec
  <1>4. DisciplinedSpec => [][Step]_vars
    BY <1>2, <1>3, PTL DEF DisciplinedSpec
  <1> QED
    BY <1>4 DEF DepositReturned

-----------------------------------------------------------------------------
(* The refinement of DeviceLifecycle *)

registeredBar == {a \in Accounts : Registered(a)}
servingBar == [a \in Accounts |-> {c \in Countries : a \in ServersOf(c)}]

\* The initial state has no devices.
LEMMA InitLifecycle == Init => Lifecycle!Init
  <1> SUFFICES ASSUME Init PROVE Lifecycle!Init
    OBVIOUS
  <1>1. \A c \in Countries : ServersOf(c) = {}
    BY DEF Init, ServersOf, ToSet
  <1>2. registeredBar = {}
    BY DEF Init, Registered, registeredBar
  <1>3. servingBar = [a \in Accounts |-> {}]
    BY <1>1 DEF servingBar
  <1> QED
    BY <1>2, <1>3 DEF Lifecycle!Init, registeredBar, servingBar

\* What happens to one account's device is all that happens to the devices.
LEMMA ServingReplaced ==
    ASSUME NEW a \in Accounts, NEW set,
           {c \in Countries : a \in ServersOf(c)'} = set,
           \A b \in Accounts : b # a =>
               \A c \in Countries : b \in ServersOf(c)' <=> b \in ServersOf(c)
    PROVE  servingBar' = [servingBar EXCEPT ![a] = set]
  <1>1. servingBar' = [b \in Accounts |-> {c \in Countries : b \in ServersOf(c)'}]
    BY DEF servingBar
  <1>2. [servingBar EXCEPT ![a] = set]
        = [b \in Accounts |-> IF b = a THEN set ELSE {c \in Countries : b \in ServersOf(c)}]
    BY DEF servingBar
  <1>3. \A b \in Accounts :
           {c \in Countries : b \in ServersOf(c)'}
           = IF b = a THEN set ELSE {c \in Countries : b \in ServersOf(c)}
    OBVIOUS
  <1> QED
    BY <1>1, <1>2, <1>3

\* Every disciplined step is a step of the life cycle, or changes no device.
LEMMA NextLifecycle ==
    ServerInv /\ [DisciplinedNext]_vars => [Lifecycle!Next]_<<registeredBar, servingBar>>
  <1> SUFFICES ASSUME ServerInv, [DisciplinedNext]_vars
               PROVE  [Lifecycle!Next]_<<registeredBar, servingBar>>
    OBVIOUS
  <1>0. /\ DeviceInfo \in [Accounts -> Countries \union {NoDevice}]
        /\ NoDevice \notin Countries /\ 0 \in Countries
    BY DeeperNodeAssumption DEF ServerInv, ListInv
  <1>1. ASSUME NEW a \in Accounts, unregister_device(a)
        PROVE  Lifecycle!Unregister(a)
    <2>1. /\ \A d \in Countries : ServersOf(d)' = ServersOf(d) \ {a}
          /\ DeviceInfo' = [DeviceInfo EXCEPT ![a] = NoDevice]
          /\ Registered(a)
      BY <1>1, UnregisterServers
    <2>2. servingBar' = [servingBar EXCEPT ![a] = {}]
      <3>1. {c \in Countries : a \in ServersOf(c)'} = {}
        BY <2>1
      <3>2. \A b \in Accounts : b # a =>
               \A c \in Countries : b \in ServersOf(c)' <=> b \in ServersOf(c)
        BY <2>1
      <3> QED
        BY <3>1, <3>2, ServingReplaced
    <2>3. registeredBar' = registeredBar \ {a} /\ a \in registeredBar
      BY <1>0, <2>1 DEF registeredBar, Registered
    <2> QED
      BY <2>2, <2>3 DEF Lifecycle!Unregister, registeredBar, servingBar
  <1>2. ASSUME NEW a \in Accounts, NEW country \in Countries, ~Registered(a),
               register_device(a, country)
        PROVE  Lifecycle!Register(a)
    <2>1. /\ ServersByCountry' = ServersByCountry
          /\ DeviceInfo' = [DeviceInfo EXCEPT ![a] = country]
      BY <1>2 DEF register_device
    <2>2. servingBar' = servingBar
      BY <2>1 DEF servingBar, ServersOf
    <2>3. registeredBar' = registeredBar \union {a} /\ a \notin registeredBar
      BY <1>0, <1>2, <2>1 DEF registeredBar, Registered
    <2> QED
      BY <2>2, <2>3 DEF Lifecycle!Register, registeredBar, servingBar
  <1>3. ASSUME NEW a \in Accounts, NEW country \in Countries,
               \A c \in Countries : a \notin ServersOf(c), register_server(a, country)
        PROVE  Lifecycle!Serve(a, country)
    <2>1. /\ ServersOf(country)' = ServersOf(country) \union {a}
          /\ \A d \in Countries : d # country => ServersOf(d)' = ServersOf(d)
          /\ DeviceInfo' = [DeviceInfo EXCEPT ![a] = country]
          /\ Registered(a)
      BY <1>3, RegisterServers
    <2>2. servingBar' = [servingBar EXCEPT ![a] = {country}]
      <3>1. {c \in Countries : a \in ServersOf(c)'} = {country}
        BY <1>3, <2>1
      <3>2. \A b \in Accounts : b # a =>
               \A c \in Countries : b \in ServersOf(c)' <=> b \in ServersOf(c)
        BY <2>1
      <3> QED
        BY <3>1, <3>2, ServingReplaced
    <2>3. registeredBar' = registeredBar /\ a \in registeredBar
      BY <1>0, <2>1 DEF registeredBar, Registered
    <2>4. servingBar[a] = {}
      BY <1>3 DEF servingBar
    <2> QED
      BY <2>2, <2>3, <2>4 DEF Lifecycle!Serve, registeredBar, servingBar
  <1>4. ASSUME NEW a \in Accounts, NEW country \in Countries, unregister_server(a, country)
        PROVE  Lifecycle!Retire(a)
    <2>1. /\ \A d \in Countries : ServersOf(d)' = ServersOf(d) \ {a}
          /\ DeviceInfo' = [DeviceInfo EXCEPT ![a] = 0]
          /\ Registered(a) /\ a \in ServersOf(country)
      BY <1>4, UnregisterServer
    <2>2. servingBar' = [servingBar EXCEPT ![a] = {}]
      <3>1. {c \in Countries : a \in ServersOf(c)'} = {}
        BY <2>1
      <3>2. \A b \in Accounts : b # a =>
               \A c \in Countries : b \in ServersOf(c)' <=> b \in ServersOf(c)
        BY <2>1
      <3> QED
        BY <3>1, <3>2, ServingReplaced
    <2>3. registeredBar' = registeredBar /\ a \in registeredBar
      BY <1>0, <2>1 DEF registeredBar, Registered
    <2>4. servingBar[a] # {}
      BY <2>1 DEF servingBar
    <2> QED
      BY <2>2, <2>3, <2>4 DEF Lifecycle!Retire, registeredBar, servingBar
  <1>5. ASSUME Transfers \/ UNCHANGED vars
        PROVE  UNCHANGED <<registeredBar, servingBar>>
    <2>1. DeviceInfo' = DeviceInfo /\ ServersByCountry' = ServersByCountry
      BY <1>5 DEF Transfers, transfer, vars
    <2> QED
      BY <2>1 DEF registeredBar, servingBar, Registered, ServersOf
  <1> QED
    BY <1>1, <1>2, <1>3, <1>4, <1>5 DEF DisciplinedNext, Lifecycle!Next

\* For disciplined clients the pallet implements the life cycle: leaving finds
\* the right list, and coming back finds no traces.
THEOREM DevicesFollowLifecycle == DisciplinedSpec => ImplementsLifecycle
  <1>1. ServerInv /\ [DisciplinedNext]_vars => [Lifecycle!Next]_(Lifecycle!lifecycleVars)
    BY NextLifecycle DEF Lifecycle!lifecycleVars, registeredBar, servingBar
  <1> QED
    BY ServerInvariance, InitLifecycle, <1>1, PTL
    DEF DisciplinedSpec, ImplementsLifecycle, Lifecycle!Spec
=============================================================================
