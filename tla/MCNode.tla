------------------------------- MODULE MCNode -------------------------------
(***************************************************************************)
(* A node process and the chain specification it is given: the operator    *)
(* takes a built-in specification, has the script add validators to it,    *)
(* and starts the node with the result. `run' loads it (load_spec) before  *)
(* the first step of the build, which makes the genesis block of it.       *)
(***************************************************************************)
EXTENDS NodeService, Genesis

processVars == <<config, pc, tasks, network, status, spec, used>>

ProcessInit == Init /\ GenesisInit

\* The script runs before the node does.
Prepare ==
    /\ pc = 1 /\ status = "starting"
    /\ GenesisNext
    /\ UNCHANGED vars

Process ==
    /\ Next
    /\ UNCHANGED genesisVars

ProcessNext == Prepare \/ Process

\* The fairness of NodeService
ProcessSpec ==
    /\ ProcessInit
    /\ [][ProcessNext]_processVars
    /\ WF_vars(BuildStep)
    /\ WF_vars(StartRunning)
    /\ WF_vars(FinishSubcommand)
    /\ WF_vars(StopOnFailure)
=============================================================================
