----------------------------- MODULE NodeService -----------------------------
(***************************************************************************)
(* The life of a node process: node/src/command.rs chooses what to build,  *)
(* node/src/service.rs builds it step by step. A step marked `?' in the    *)
(* code may fail; new_full and new_light then return Err, the TaskManager  *)
(* is dropped, and with it every task spawned so far. What the steps call  *)
(* is the Substrate client (external): a step stands for the tasks it      *)
(* spawns and for the network's state.                                     *)
(***************************************************************************)
EXTENDS Naturals, Sequences

Roles == {"Full", "Light", "Sentry", "Authority"}
Commands == {"run", "subcommand"}

Configurations == [command : Commands, role : Roles,
                   disable_grandpa : BOOLEAN, offchain_worker : BOOLEAN]

VARIABLES
    config,    \* the parsed command line, fixed for the life of the process
    pc,        \* the number of the next step
    tasks,     \* the tasks the TaskManager runs
    network,   \* "none", "built" (a starter is held) or "started"
    status     \* "starting", "running", "done", "failed" or "stopped"

vars == <<config, pc, tasks, network, status>>

\* role.is_authority(); !config.disable_grandpa
is_authority(c) == c.role = "Authority"
enable_grandpa(c) == ~c.disable_grandpa

-----------------------------------------------------------------------------
(* The steps, in the order of the code *)

When(condition, steps) == IF condition THEN steps ELSE <<>>

\* new_partial; a subcommand (export, import, revert, ...) builds no more
new_partial(c) ==
    <<"new_full_parts", "transaction_pool", "grandpa_block_import", "babe_block_import",
      "import_queue">>

New_full_networkFirst(c) ==
    new_partial(c)
    \o <<"build_network", "start_network">>
    \o When(c.offchain_worker, <<"offchain_workers">>)
    \o <<"spawn_tasks">>
    \o When(is_authority(c), <<"start_babe">>)
    \o IF enable_grandpa(c) THEN <<"grandpa_voter">> ELSE <<"setup_disabled_grandpa">>
new_full(c) ==
    new_partial(c)
    \o <<"build_network">>
    \o When(c.offchain_worker, <<"offchain_workers">>)
    \o <<"spawn_tasks">>
    \o When(is_authority(c), <<"start_babe">>)
    \o (IF enable_grandpa(c) THEN <<"grandpa_voter">> ELSE <<"setup_disabled_grandpa">>)
    \o <<"start_network">>

new_light(c) ==
    <<"new_light_parts", "transaction_pool", "light_grandpa_block_import", "babe_block_import",
      "import_queue", "build_network">>
    \o When(c.offchain_worker, <<"offchain_workers">>)
    \o <<"spawn_tasks", "start_network">>

\* run: what the command line asks for
Steps(c) ==
    CASE c.command = "subcommand" -> new_partial(c)
      [] c.command = "run" /\ c.role = "Light" -> new_light(c)
      [] c.command = "run" /\ c.role # "Light" -> new_full(c)

\* The steps without a `?'
Infallible == {"transaction_pool", "offchain_workers", "start_network"}

\* The tasks a step spawns; the essential ones take the service down.
Spawned_observer(step) ==
    CASE step = "transaction_pool" -> {"txpool"}
      [] step = "import_queue" -> {"block-import"}
      [] step = "build_network" -> {"network-worker"}
      [] step = "offchain_workers" -> {"offchain-workers"}
      [] step = "spawn_tasks" -> {"rpc", "telemetry"}
      [] step = "start_babe" -> {"babe-proposer"}
      [] step = "grandpa_voter" -> {"grandpa-observer"}
      [] OTHER -> {}
Spawned(step) ==
    CASE step = "transaction_pool" -> {"txpool"}
      [] step = "import_queue" -> {"block-import"}
      [] step = "build_network" -> {"network-worker"}
      [] step = "offchain_workers" -> {"offchain-workers"}
      [] step = "spawn_tasks" -> {"rpc", "telemetry"}
      [] step = "start_babe" -> {"babe-proposer"}
      [] step = "grandpa_voter" -> {"grandpa-voter"}
      [] OTHER -> {}
Essential_proposer == {"babe-proposer"}
Essential == {"babe-proposer", "grandpa-voter"}

-----------------------------------------------------------------------------
Init ==
    /\ config \in Configurations
    /\ pc = 1
    /\ tasks = {}
    /\ network = "none"
    /\ status = "starting"

\* The next step of the build succeeds.
BuildStep ==
    /\ status = "starting"
    /\ pc <= Len(Steps(config))
    /\ LET step == Steps(config)[pc] IN
          /\ tasks' = tasks \union Spawned(step)
          /\ network' = CASE step = "build_network" -> "built"
                          [] step = "start_network" -> "started"
                          [] OTHER -> network
    /\ pc' = pc + 1
    /\ UNCHANGED <<config, status>>

\* Dropping the TaskManager ends every task and releases the network.
Drop ==
    /\ tasks' = {}
    /\ network' = "none"

\* The next step returns Err.
FailStep ==
    /\ status = "starting"
    /\ pc <= Len(Steps(config))
    /\ Steps(config)[pc] \notin Infallible
    /\ status' = "failed"
    /\ Drop
    /\ UNCHANGED <<config, pc>>

\* The builder returns Ok(task_manager) to run_node_until_exit.
StartRunning ==
    /\ status = "starting"
    /\ config.command = "run"
    /\ pc > Len(Steps(config))
    /\ status' = "running"
    /\ UNCHANGED <<config, pc, tasks, network>>

\* A subcommand does its work on the parts it was given, and exits.
FinishSubcommand ==
    /\ status = "starting"
    /\ config.command = "subcommand"
    /\ pc > Len(Steps(config))
    /\ status' = "done"
    /\ Drop
    /\ UNCHANGED <<config, pc>>

\* A task ends or panics: while the node runs, or while it is still being
\* built, as a task runs from the moment it is spawned.
TaskExits(task) ==
    /\ status \in {"starting", "running"}
    /\ task \in tasks
    /\ tasks' = tasks \ {task}
    /\ UNCHANGED <<config, pc, network, status>>

\* The essential tasks this node has spawned
EssentialOf(c) ==
    Essential \intersect UNION {Spawned(Steps(c)[i]) : i \in 1 .. Len(Steps(c))}

\* run_node_until_exit sees that an essential task is gone, also if it went
\* before the builder returned.
StopOnFailure ==
    /\ status = "running"
    /\ ~(EssentialOf(config) \subseteq tasks)
    /\ status' = "stopped"
    /\ Drop
    /\ UNCHANGED <<config, pc>>

\* Ctrl-C or SIGTERM
Interrupt ==
    /\ status = "running"
    /\ status' = "stopped"
    /\ Drop
    /\ UNCHANGED <<config, pc>>

Next ==
    \/ BuildStep
    \/ FailStep
    \/ StartRunning
    \/ FinishSubcommand
    \/ \E task \in tasks : TaskExits(task)
    \/ StopOnFailure
    \/ Interrupt

\* The build is straight-line code, and run_node_until_exit selects over the
\* essential tasks' failure: what they can do they do.
Spec ==
    /\ Init
    /\ [][Next]_vars
    /\ WF_vars(BuildStep)
    /\ WF_vars(StartRunning)
    /\ WF_vars(FinishSubcommand)
    /\ WF_vars(StopOnFailure)

-----------------------------------------------------------------------------
TypeOK ==
    /\ config \in Configurations
    /\ pc \in 1 .. 12
    /\ tasks \subseteq {"txpool", "block-import", "network-worker", "offchain-workers",
                        "rpc", "telemetry", "babe-proposer", "grandpa-voter"}
    /\ network \in {"none", "built", "started"}
    /\ status \in {"starting", "running", "done", "failed", "stopped"}

\* Peers are served only by a complete node: once the network has started no
\* further task is spawned and the builder cannot fail any more, whatever the
\* role and the options, and whichever tasks have ended by then (start_network
\* is the last call of both builders, and has no `?').
NetworkStartsLast ==
    [][network = "started" => tasks' \subseteq tasks /\ status' # "failed"]_vars

\* "the GRANDPA voter task is considered infallible, i.e. if it fails we take
\* down the service with it": no node goes on for ever without its voter, also
\* if the voter was gone before the node was complete.
VoterFailureStopsService ==
    (status = "running" /\ config.role # "Light" /\ enable_grandpa(config)
        /\ "grandpa-voter" \notin tasks)
    ~> status = "stopped"
=============================================================================
