-------------------------- MODULE DeviceLifecycle --------------------------
(***************************************************************************)
(* What the deeper_node pallet promises clients that keep to the life      *)
(* cycle of a device, without deposits, country fields or server lists: a  *)
(* device that is registered may serve one country at a time, and one that *)
(* leaves serves none.                                                     *)
(***************************************************************************)
CONSTANTS Accounts, Countries

VARIABLES
    registered,  \* the accounts that have a device
    serving      \* the countries for which the account's device is a server

lifecycleVars == <<registered, serving>>

Init ==
    /\ registered = {}
    /\ serving = [a \in Accounts |-> {}]

Register(a) ==
    /\ a \notin registered
    /\ registered' = registered \union {a}
    /\ UNCHANGED serving

Serve(a, c) ==
    /\ a \in registered
    /\ serving[a] = {}
    /\ serving' = [serving EXCEPT ![a] = {c}]
    /\ UNCHANGED registered

Retire(a) ==
    /\ a \in registered
    /\ serving[a] # {}
    /\ serving' = [serving EXCEPT ![a] = {}]
    /\ UNCHANGED registered

Unregister(a) ==
    /\ a \in registered
    /\ registered' = registered \ {a}
    /\ serving' = [serving EXCEPT ![a] = {}]

Next == \E a \in Accounts :
    \/ Register(a) \/ Retire(a) \/ Unregister(a)
    \/ \E c \in Countries : Serve(a, c)

Spec == Init /\ [][Next]_lifecycleVars
=============================================================================
