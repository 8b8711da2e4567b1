----------------------------- MODULE DeeperNode -----------------------------
(***************************************************************************)
(* The deeper_node pallet (pallets/deeper-node/src/lib.rs): an account     *)
(* registers its device against a deposit, and offers it as a server of a  *)
(* country. Of a device's details only the country, which the pallet       *)
(* itself uses, is kept. The Err of a failed try_add_server is dropped by  *)
(* its caller: the call returns Ok and changes nothing.                    *)
(***************************************************************************)
EXTENDS Balances, SequencesExt

CONSTANTS
    Countries,     \* u16 country codes
    MIN_LOCK_AMT,  \* the deposit of a device, 100
    Amounts,       \* the amounts of the accounts' own transfers
    NoDevice       \* no entry in the DeviceInfo map

ASSUME DeeperNodeAssumption ==
    /\ 0 \in Countries
    /\ MIN_LOCK_AMT \in Balance \ {0}
    /\ Amounts \subseteq Balance
    /\ NoDevice \notin Countries

VARIABLES
    DeviceInfo,        \* storage: the country of each registered device
    ServersByCountry,  \* storage: the servers of each country
    reaped,            \* history: devices whose account died since they registered
    stranded           \* history: the deposits of repeated registrations, until
                       \* the account dies

vars == <<free, reserved, issuance, DeviceInfo, ServersByCountry, reaped, stranded>>

Registered(a) == DeviceInfo[a] # NoDevice
ServersOf(c) == ToSet(ServersByCountry[c])

Init ==
    /\ BalancesInit
    /\ DeviceInfo = [a \in Accounts |-> NoDevice]
    /\ ServersByCountry = [c \in Countries |-> <<>>]
    /\ reaped = {}
    /\ stranded = [a \in Accounts |-> 0]

-----------------------------------------------------------------------------
\* The server list of a country once try_remove_server has dealt with a
TryRemove_kept(a, c) == ServersByCountry[c]
TryRemove(a, c) == RemoveFirst(ServersByCountry[c], a)

\* The deposit that backs the device of a
Backing(a) == IF Registered(a) /\ a \notin reaped THEN MIN_LOCK_AMT ELSE 0

\* The `double registration' check of try_add_server
MayAdd_twice(a, c) == TRUE
MayAdd(a, c) == a \notin ServersOf(c)

\* register_device(origin, ip, country): reserves a deposit on every call,
\* also when the device is registered and backed already.
Register_insertFirst(a, country) ==
    /\ DeviceInfo' = [DeviceInfo EXCEPT ![a] = country]
    /\ \/ Reserve(a, MIN_LOCK_AMT)
       \/ free[a] < MIN_LOCK_AMT /\ UNCHANGED balanceVars
    /\ stranded' = [stranded EXCEPT ![a] = @ + Backing(a)]
    /\ reaped' = reaped \ {a}
    /\ UNCHANGED ServersByCountry
register_device(a, country) ==
    /\ Reserve(a, MIN_LOCK_AMT)
    /\ DeviceInfo' = [DeviceInfo EXCEPT ![a] = country]
    /\ stranded' = [stranded EXCEPT ![a] = @ + Backing(a)]
    /\ reaped' = reaped \ {a}
    /\ UNCHANGED ServersByCountry

\* unregister_device(origin): leaves the list of the device's country and
\* gives one deposit back.
Unregister_locked(a) ==
    /\ Registered(a)
    /\ ServersByCountry' = [ServersByCountry EXCEPT ![DeviceInfo[a]] = TryRemove(a, DeviceInfo[a])]
    /\ DeviceInfo' = [DeviceInfo EXCEPT ![a] = NoDevice]
    /\ UNCHANGED balanceVars
    /\ reaped' = reaped \ {a}
    /\ UNCHANGED stranded
\* with every deposit given back
Unregister_all(a) ==
    /\ Registered(a)
    /\ ServersByCountry' = [ServersByCountry EXCEPT ![DeviceInfo[a]] = TryRemove(a, DeviceInfo[a])]
    /\ DeviceInfo' = [DeviceInfo EXCEPT ![a] = NoDevice]
    /\ Unreserve(a, reserved[a])
    /\ reaped' = reaped \ {a}
    /\ UNCHANGED stranded
\* with a deposit of new money in place of unreserve
Unregister_minted(a) ==
    /\ Registered(a)
    /\ ServersByCountry' = [ServersByCountry EXCEPT ![DeviceInfo[a]] = TryRemove(a, DeviceInfo[a])]
    /\ DeviceInfo' = [DeviceInfo EXCEPT ![a] = NoDevice]
    /\ free' = [free EXCEPT ![a] = @ + MIN_LOCK_AMT]
    /\ UNCHANGED <<reserved, issuance>>
    /\ reaped' = reaped \ {a}
    /\ UNCHANGED stranded
Unregister_kept(a) ==
    /\ Registered(a)
    /\ ServersByCountry' = [ServersByCountry EXCEPT ![DeviceInfo[a]] = TryRemove(a, DeviceInfo[a])]
    /\ Unreserve(a, MIN_LOCK_AMT)
    /\ UNCHANGED <<DeviceInfo, reaped, stranded>>
unregister_device(a) ==
    /\ Registered(a)
    /\ ServersByCountry' = [ServersByCountry EXCEPT ![DeviceInfo[a]] = TryRemove(a, DeviceInfo[a])]
    /\ DeviceInfo' = [DeviceInfo EXCEPT ![a] = NoDevice]
    /\ Unreserve(a, MIN_LOCK_AMT)
    /\ reaped' = reaped \ {a}
    /\ UNCHANGED stranded

\* register_server(origin, country)
register_server(a, country) ==
    /\ Registered(a)
    /\ MayAdd(a, country)
    /\ ServersByCountry' = [ServersByCountry EXCEPT ![country] = Append(@, a)]
    /\ DeviceInfo' = [DeviceInfo EXCEPT ![a] = country]
    /\ UNCHANGED <<balanceVars, reaped, stranded>>

\* unregister_server(origin, country)
unregister_server(a, country) ==
    /\ Registered(a)
    /\ a \in ServersOf(country)
    /\ ServersByCountry' = [ServersByCountry EXCEPT ![country] = TryRemove(a, country)]
    /\ DeviceInfo' = [DeviceInfo EXCEPT ![a] = 0]
    /\ UNCHANGED <<balanceVars, reaped, stranded>>

\* Balances::transfer. The payer dies if it keeps less than the existential
\* deposit, and all its deposits are burnt with it; the device stays.
Kills(from, to, amount) == amount # 0 /\ from # to /\ Dies(from, free[from] - amount)
transfer(from, to, amount) ==
    LET dead == {a \in {from} : Kills(from, to, amount)} IN
    /\ CurrencyTransfer(from, to, amount)
    /\ reaped' = reaped \union {a \in dead : Registered(a)}
    /\ stranded' = [a \in Accounts |-> IF a \in dead THEN 0 ELSE stranded[a]]
    /\ UNCHANGED <<DeviceInfo, ServersByCountry>>

Transfers == \E from, to \in Accounts, amount \in Amounts : transfer(from, to, amount)

Next ==
    \/ \E a \in Accounts :
          \/ unregister_device(a)
          \/ \E country \in Countries : \/ register_device(a, country)
                                        \/ register_server(a, country)
                                        \/ unregister_server(a, country)
    \/ Transfers

Spec == Init /\ [][Next]_vars

\* A client that keeps to the life cycle of a device: it registers a device
\* once, and serves one country at a time. The pallet does not enforce it.
DisciplinedNext ==
    \/ \E a \in Accounts :
          \/ unregister_device(a)
          \/ \E country \in Countries :
                \/ ~Registered(a) /\ register_device(a, country)
                \/ (\A c \in Countries : a \notin ServersOf(c)) /\ register_server(a, country)
                \/ unregister_server(a, country)
    \/ Transfers

DisciplinedSpec == Init /\ [][DisciplinedNext]_vars

-----------------------------------------------------------------------------
TypeOK ==
    /\ BalancesTypeOK
    /\ DeviceInfo \in [Accounts -> Countries \union {NoDevice}]
    /\ ServersByCountry \in [Countries -> Seq(Accounts)]
    /\ reaped \subseteq Accounts
    /\ stranded \in [Accounts -> Nat]

\* "no double add": an account is in the list of a country at most once,
\* whatever calls led there.
NoDoubleAdd ==
    \A c \in Countries : IsInjective(ServersByCountry[c])

\* A registered device is backed by a full deposit, unless its account died
\* after it registered.
DepositHeld ==
    \A a \in Accounts :
        (Registered(a) /\ a \notin reaped) => reserved[a] >= MIN_LOCK_AMT

\* Every unit in reserve is the deposit that backs a device or one that a
\* repeated registration has stranded: register_device locks a deposit each
\* time, unregister_device gives one back, so that those of all registrations
\* but one stay locked, however the account goes on, until it dies; the
\* deposits of a dead account do not come back.
DepositsAccounted ==
    \A a \in Accounts : reserved[a] = stranded[a] + Backing(a)

\* With disciplined clients, unregistering gives back everything in reserve:
\* exactly one deposit, or nothing if the account died since it registered and
\* the deposit was burnt.
DepositReturned ==
    [][\A a \in Accounts : (Registered(a) /\ ~Registered(a)') =>
          /\ free'[a] = free[a] + Backing(a)
          /\ reserved'[a] = 0]_vars

\* The servers on the lists are registered devices ("sender device needs
\* register first").
ServersAreRegistered ==
    \A c \in Countries : \A a \in ServersOf(c) : Registered(a)

\* "ensure consistency": a device that is on the list of a country has that
\* country in its details, so that it is on one list at most.
ListMatchesDevice ==
    \A c \in Countries : \A a \in ServersOf(c) : Registered(a) => DeviceInfo[a] = c

\* The life cycle of the devices, as the storage shows it
Lifecycle == INSTANCE DeviceLifecycle WITH
    registered <- {a \in Accounts : Registered(a)},
    serving <- [a \in Accounts |-> {c \in Countries : a \in ServersOf(c)}]

\* With disciplined clients the two maps of the pallet, the country that is
\* kept twice and the scans of the lists amount to that life cycle: leaving
\* finds the right list, and coming back finds no traces.
ImplementsLifecycle == Lifecycle!Spec
=============================================================================
