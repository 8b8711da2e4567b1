----------------------------- MODULE NodeProofs -----------------------------
(***************************************************************************)
(* The node's own code (node/src): that a builder starts the network last, *)
(* for every configuration, and the genesis block of a chain specification *)
(* with any number of validators.                                          *)
(***************************************************************************)
EXTENDS NodeService, Genesis, SequenceTheorems, TLAPS

-----------------------------------------------------------------------------
(* The builders as sequences of steps *)

StepNames ==
    {"new_full_parts", "new_light_parts", "transaction_pool", "grandpa_block_import",
     "light_grandpa_block_import", "babe_block_import", "import_queue", "build_network",
     "offchain_workers", "spawn_tasks", "start_babe", "grandpa_voter",
     "setup_disabled_grandpa", "start_network"}

Elements(s) == {s[i] : i \in 1 .. Len(s)}

\* A concatenation has the elements of both parts.
LEMMA ConcatElements ==
    ASSUME NEW s \in Seq(StepNames), NEW t \in Seq(StepNames)
    PROVE  /\ s \o t \in Seq(StepNames)
           /\ Len(s \o t) = Len(s) + Len(t)
           /\ Elements(s \o t) = Elements(s) \union Elements(t)
  <1>1. /\ s \o t \in Seq(StepNames) /\ Len(s \o t) = Len(s) + Len(t)
        /\ \A i \in 1 .. Len(s) + Len(t) :
              (s \o t)[i] = IF i <= Len(s) THEN s[i] ELSE t[i - Len(s)]
    BY ConcatProperties
  <1>2. Len(s) \in Nat /\ Len(t) \in Nat
    OBVIOUS
  <1>3. ASSUME NEW x \in Elements(s \o t) PROVE x \in Elements(s) \union Elements(t)
    <2>1. PICK i \in 1 .. Len(s) + Len(t) : x = (s \o t)[i]
      BY <1>1 DEF Elements
    <2>2. CASE i <= Len(s)
      BY <1>1, <1>2, <2>1, <2>2 DEF Elements
    <2>3. CASE ~(i <= Len(s))
      <3>1. x = t[i - Len(s)] /\ i - Len(s) \in 1 .. Len(t)
        BY <1>1, <1>2, <2>1, <2>3
      <3> QED
        BY <3>1 DEF Elements
    <2> QED
      BY <2>2, <2>3
  <1>4. ASSUME NEW x \in Elements(s) PROVE x \in Elements(s \o t)
    <2>1. PICK i \in 1 .. Len(s) : x = s[i]
      BY DEF Elements
    <2>2. x = (s \o t)[i] /\ i \in 1 .. Len(s \o t)
      BY <1>1, <1>2, <2>1
    <2> QED
      BY <2>2 DEF Elements
  <1>5. ASSUME NEW x \in Elements(t) PROVE x \in Elements(s \o t)
    <2>1. PICK i \in 1 .. Len(t) : x = t[i]
      BY DEF Elements
    <2>2. x = (s \o t)[i + Len(s)] /\ i + Len(s) \in 1 .. Len(s \o t)
      BY <1>1, <1>2, <2>1
    <2> QED
      BY <2>2 DEF Elements
  <1> QED
    BY <1>1, <1>3, <1>4, <1>5

\* A step of its own, and a step that is taken on a condition
LEMMA OneStep ==
    ASSUME NEW x \in StepNames, NEW b \in BOOLEAN
    PROVE  /\ <<x>> \in Seq(StepNames) /\ Len(<<x>>) = 1 /\ Elements(<<x>>) = {x}
           /\ When(b, <<x>>) \in Seq(StepNames) /\ Len(When(b, <<x>>)) <= 1
           /\ Elements(When(b, <<x>>)) = {y \in {x} : b}
  <1>1. <<x>> \in Seq(StepNames) /\ Len(<<x>>) = 1 /\ Elements(<<x>>) = {x}
    BY DEF Elements
  <1>2. <<>> \in Seq(StepNames) /\ Len(<<>>) = 0 /\ Elements(<<>>) = {}
    BY DEF Elements
  <1> QED
    BY <1>1, <1>2 DEF When

\* What every builder starts with
LEMMA PartialSteps ==
    ASSUME NEW c
    PROVE  /\ new_partial(c) \in Seq(StepNames) /\ Len(new_partial(c)) = 5
           /\ Elements(new_partial(c)) =
                 {"new_full_parts", "transaction_pool", "grandpa_block_import",
                  "babe_block_import", "import_queue"}
  <1>1. new_partial(c) \in Seq(StepNames) /\ Len(new_partial(c)) = 5
    BY DEF new_partial, StepNames
  <1>2. \A x : x \in Elements(new_partial(c)) <=>
           \/ x = new_partial(c)[1] \/ x = new_partial(c)[2] \/ x = new_partial(c)[3]
           \/ x = new_partial(c)[4] \/ x = new_partial(c)[5]
    <2>1. 1 .. 5 = {1, 2, 3, 4, 5}
      OBVIOUS
    <2> QED
      BY <1>1, <2>1 DEF Elements
  <1> QED
    BY <1>1, <1>2 DEF new_partial

\* new_full starts the network once, and last, whichever steps the
\* configuration leaves out.
LEMMA FullSteps ==
    ASSUME NEW c \in Configurations
    PROVE  \E body \in Seq(StepNames) :
              /\ new_full(c) = body \o <<"start_network">>
              /\ Len(body) <= 10
              /\ "start_network" \notin Elements(body)
  <1> DEFINE s1 == new_partial(c) \o <<"build_network">>
             offchain == When(c.offchain_worker, <<"offchain_workers">>)
             s2 == s1 \o offchain
             s3 == s2 \o <<"spawn_tasks">>
             babe == When(is_authority(c), <<"start_babe">>)
             s4 == s3 \o babe
             grandpa == IF enable_grandpa(c) THEN <<"grandpa_voter">>
                        ELSE <<"setup_disabled_grandpa">>
             body == s4 \o grandpa
  <1>0. /\ c.offchain_worker \in BOOLEAN /\ is_authority(c) \in BOOLEAN
        /\ "build_network" \in StepNames /\ "offchain_workers" \in StepNames
        /\ "spawn_tasks" \in StepNames /\ "start_babe" \in StepNames
        /\ "grandpa_voter" \in StepNames /\ "setup_disabled_grandpa" \in StepNames
    BY DEF Configurations, is_authority, StepNames
  <1>1. /\ <<"build_network">> \in Seq(StepNames) /\ Len(<<"build_network">>) = 1
        /\ <<"spawn_tasks">> \in Seq(StepNames) /\ Len(<<"spawn_tasks">>) = 1
        /\ Elements(<<"build_network">>) = {"build_network"}
        /\ Elements(<<"spawn_tasks">>) = {"spawn_tasks"}
    BY <1>0, OneStep
  <1>2. /\ offchain \in Seq(StepNames) /\ Len(offchain) <= 1
        /\ Elements(offchain) = {x \in {"offchain_workers"} : c.offchain_worker}
    BY <1>0, OneStep
  <1>3. /\ babe \in Seq(StepNames) /\ Len(babe) <= 1
        /\ Elements(babe) = {x \in {"start_babe"} : is_authority(c)}
    BY <1>0, OneStep
  <1>4. /\ grandpa \in Seq(StepNames) /\ Len(grandpa) = 1
        /\ Elements(grandpa) = IF enable_grandpa(c) THEN {"grandpa_voter"}
                               ELSE {"setup_disabled_grandpa"}
    BY <1>0, OneStep
  <1>5. new_full(c) = body \o <<"start_network">>
    BY DEF new_full
  <1> HIDE DEF offchain, babe, grandpa
  <1>6. /\ s1 \in Seq(StepNames) /\ Len(s1) = Len(new_partial(c)) + Len(<<"build_network">>)
        /\ Elements(s1) = Elements(new_partial(c)) \union Elements(<<"build_network">>)
    BY <1>1, PartialSteps, ConcatElements
  <1> HIDE DEF s1
  <1>7. /\ s2 \in Seq(StepNames) /\ Len(s2) = Len(s1) + Len(offchain)
        /\ Elements(s2) = Elements(s1) \union Elements(offchain)
    BY <1>2, <1>6, ConcatElements
  <1> HIDE DEF s2
  <1>8. /\ s3 \in Seq(StepNames) /\ Len(s3) = Len(s2) + Len(<<"spawn_tasks">>)
        /\ Elements(s3) = Elements(s2) \union Elements(<<"spawn_tasks">>)
    BY <1>1, <1>7, ConcatElements
  <1> HIDE DEF s3
  <1>9. /\ s4 \in Seq(StepNames) /\ Len(s4) = Len(s3) + Len(babe)
        /\ Elements(s4) = Elements(s3) \union Elements(babe)
    BY <1>3, <1>8, ConcatElements
  <1> HIDE DEF s4
  <1>10. /\ body \in Seq(StepNames) /\ Len(body) = Len(s4) + Len(grandpa)
         /\ Elements(body) = Elements(s4) \union Elements(grandpa)
    BY <1>4, <1>9, ConcatElements
  <1> HIDE DEF body
  <1>11. Len(body) <= 10
    <2>1. Len(offchain) \in Nat /\ Len(babe) \in Nat
      BY <1>2, <1>3
    <2>2. Len(s1) = 6
      <3>1. Len(new_partial(c)) = 5
        BY PartialSteps
      <3>2. Len(s1) = Len(new_partial(c)) + 1
        BY <1>1, <1>6
      <3> QED
        BY <3>1, <3>2
    <2>3. Len(s3) = 7 + Len(offchain)
      BY <1>1, <1>7, <1>8, <2>1, <2>2
    <2> QED
      BY <1>2, <1>3, <1>4, <1>9, <1>10, <2>1, <2>3
  <1>12. \A x : x \in Elements(body) <=>
            \/ x \in Elements(new_partial(c)) \union {"build_network", "spawn_tasks"}
            \/ x = "offchain_workers" /\ c.offchain_worker
            \/ x = "start_babe" /\ is_authority(c)
            \/ x = "grandpa_voter" /\ enable_grandpa(c)
            \/ x = "setup_disabled_grandpa" /\ ~enable_grandpa(c)
    BY <1>1, <1>2, <1>3, <1>4, <1>6, <1>7, <1>8, <1>9, <1>10
  <1>13. "start_network" \notin Elements(body)
    BY <1>12, PartialSteps
  <1> QED
    BY <1>5, <1>10, <1>11, <1>13

\* So does new_light.
LEMMA LightSteps ==
    ASSUME NEW c \in Configurations
    PROVE  \E body \in Seq(StepNames) :
              /\ new_light(c) = body \o <<"start_network">>
              /\ Len(body) <= 8
              /\ "start_network" \notin Elements(body)
  <1> DEFINE s1 == <<"new_light_parts", "transaction_pool", "light_grandpa_block_import",
                     "babe_block_import", "import_queue", "build_network">>
             offchain == When(c.offchain_worker, <<"offchain_workers">>)
             s2 == s1 \o offchain
             body == s2 \o <<"spawn_tasks">>
  <1>0. "offchain_workers" \in StepNames /\ "spawn_tasks" \in StepNames
        /\ "start_network" \in StepNames
    BY DEF StepNames
  <1>1. s1 \in Seq(StepNames) /\ Len(s1) = 6
    BY DEF StepNames
  <1>2. \A x : x \in Elements(s1) <=>
            x \in {"new_light_parts", "transaction_pool", "light_grandpa_block_import",
                   "babe_block_import", "import_queue", "build_network"}
    <2>1. 1 .. 6 = {1, 2, 3, 4, 5, 6}
      OBVIOUS
    <2>2. \A x : x \in Elements(s1) <=> \/ x = s1[1] \/ x = s1[2] \/ x = s1[3]
                                       \/ x = s1[4] \/ x = s1[5] \/ x = s1[6]
      BY <1>1, <2>1 DEF Elements
    <2> QED
      BY <2>2
  <1>3. /\ offchain \in Seq(StepNames) /\ Len(offchain) <= 1
        /\ Elements(offchain) = {x \in {"offchain_workers"} : c.offchain_worker}
    BY <1>0, OneStep DEF Configurations
  <1>4. /\ <<"spawn_tasks">> \in Seq(StepNames) /\ Len(<<"spawn_tasks">>) = 1
        /\ Elements(<<"spawn_tasks">>) = {"spawn_tasks"}
        /\ <<"start_network">> \in Seq(StepNames)
    BY <1>0, OneStep
  <1>5. new_light(c) = s2 \o <<"spawn_tasks", "start_network">>
    BY DEF new_light
  <1> HIDE DEF s1, offchain
  <1>6. /\ s2 \in Seq(StepNames) /\ Len(s2) = Len(s1) + Len(offchain)
        /\ Elements(s2) = Elements(s1) \union Elements(offchain)
    BY <1>1, <1>3, ConcatElements
  <1> HIDE DEF s2
  <1>7. /\ body \in Seq(StepNames) /\ Len(body) = Len(s2) + Len(<<"spawn_tasks">>)
        /\ Elements(body) = Elements(s2) \union Elements(<<"spawn_tasks">>)
    BY <1>4, <1>6, ConcatElements
  <1>8. s2 \o <<"spawn_tasks", "start_network">> = body \o <<"start_network">>
    <2>1. <<"spawn_tasks", "start_network">> = <<"spawn_tasks">> \o <<"start_network">>
      OBVIOUS
    <2> QED
      BY <1>4, <1>6, <2>1, ConcatAssociative
  <1> HIDE DEF body
  <1>9. Len(body) <= 8
    <2>1. Len(offchain) \in Nat
      BY <1>3
    <2> QED
      BY <2>1, <1>1, <1>3, <1>4, <1>6, <1>7
  <1>10. \A x : x \in Elements(body) <=>
            \/ x \in Elements(s1) \/ x = "spawn_tasks"
            \/ x = "offchain_workers" /\ c.offchain_worker
    BY <1>3, <1>4, <1>6, <1>7
  <1>11. "start_network" \notin Elements(body)
    BY <1>2, <1>10
  <1> QED
    BY <1>5, <1>7, <1>8, <1>9, <1>11

\* The steps of any configuration start the network last, if at all.
LEMMA StepsOfConfiguration ==
    ASSUME NEW c \in Configurations
    PROVE  /\ Len(Steps(c)) \in 0 .. 11
           /\ \A i \in 1 .. Len(Steps(c)) : Steps(c)[i] = "start_network" => i = Len(Steps(c))
  <1>1. ASSUME NEW body \in Seq(StepNames), "start_network" \notin Elements(body)
        PROVE  /\ Len(body \o <<"start_network">>) = Len(body) + 1
               /\ \A i \in 1 .. Len(body) + 1 :
                     (body \o <<"start_network">>)[i] = "start_network" => i = Len(body) + 1
    <2> DEFINE s == body \o <<"start_network">>
    <2>1. <<"start_network">> \in Seq(StepNames) /\ Len(<<"start_network">>) = 1
      BY DEF StepNames
    <2>2. /\ Len(s) = Len(body) + 1 /\ Len(body) \in Nat
          /\ \A i \in 1 .. Len(body) : s[i] = body[i]
      <3>1. /\ Len(s) = Len(body) + Len(<<"start_network">>)
            /\ \A i \in 1 .. Len(body) + Len(<<"start_network">>) :
                  s[i] = IF i <= Len(body) THEN body[i]
                         ELSE <<"start_network">>[i - Len(body)]
        BY <2>1, ConcatProperties
      <3> QED
        BY <2>1, <3>1
    <2> HIDE DEF s
    <2>3. ASSUME NEW i \in 1 .. Len(body) + 1, s[i] = "start_network" PROVE i = Len(body) + 1
      <3>1. CASE i \in 1 .. Len(body)
        BY <1>1, <2>2, <2>3, <3>1 DEF Elements
      <3> QED
        BY <2>2, <3>1
    <2> QED
      BY <2>2, <2>3 DEF s
  <1>2. CASE c.command = "subcommand"
    <2>1. Steps(c) = new_partial(c)
      BY <1>2 DEF Steps
    <2>2. \A i \in 1 .. 5 : new_partial(c)[i] # "start_network"
      BY PartialSteps DEF Elements
    <2> QED
      BY <2>1, <2>2, PartialSteps
  <1>3. CASE c.command = "run"
    <2>1. PICK body \in Seq(StepNames) :
             /\ Steps(c) = body \o <<"start_network">>
             /\ Len(body) <= 10
             /\ "start_network" \notin Elements(body)
      <3>1. CASE c.role = "Light"
        <4>1. Steps(c) = new_light(c)
          BY <1>3, <3>1 DEF Steps
        <4>2. PICK body \in Seq(StepNames) :
                 /\ new_light(c) = body \o <<"start_network">>
                 /\ Len(body) <= 8
                 /\ "start_network" \notin Elements(body)
          BY LightSteps
        <4>3. Len(body) <= 10
          BY <4>2
        <4> QED
          BY <4>1, <4>2, <4>3
      <3>2. CASE c.role # "Light"
        <4>1. Steps(c) = new_full(c)
          BY <1>3, <3>2 DEF Steps
        <4> QED
          BY <4>1, FullSteps
      <3> QED
        BY <3>1, <3>2
    <2>2. Len(body) \in Nat
      OBVIOUS
    <2>3. Len(Steps(c)) = Len(body) + 1
      BY <1>1, <2>1
    <2>4. Len(Steps(c)) \in 0 .. 11
      BY <2>1, <2>2, <2>3
    <2> QED
      BY <1>1, <2>1, <2>3, <2>4
  <1> QED
    BY <1>2, <1>3 DEF Configurations, Commands

-----------------------------------------------------------------------------
(* The life of a node *)

\* Once the network has started, the builder has no steps left to take or to
\* fail. NetworkStartsLast by itself does not say where the builder is.
NodeInv ==
    /\ TypeOK
    /\ network = "started" => pc > Len(Steps(config))

\* The command line does not change, and nor do the steps.
LEMMA StepsAreFixed ==
    ASSUME config' = config
    PROVE  Steps(config)' = Steps(config)
  BY DEF Steps, new_partial, new_full, new_light, When, is_authority, enable_grandpa

\* A step that succeeds adds its tasks, and starts the network only when it is
\* the last.
LEMMA BuildStepKeepsInv ==
    ASSUME NodeInv, BuildStep
    PROVE  NodeInv'
  <1> DEFINE step == Steps(config)[pc]
             n == Len(Steps(config))
  <1>1. /\ pc <= n
        /\ tasks' = tasks \union Spawned(step)
        /\ network' = CASE step = "build_network" -> "built"
                        [] step = "start_network" -> "started"
                        [] OTHER -> network
        /\ pc' = pc + 1 /\ UNCHANGED <<config, status>>
    BY DEF BuildStep
  <1>2. /\ TypeOK /\ pc \in 1 .. 12 /\ n \in 0 .. 11
        /\ \A i \in 1 .. n : Steps(config)[i] = "start_network" => i = n
    BY StepsOfConfiguration DEF NodeInv, TypeOK
  <1>3. pc \in 1 .. n /\ (step = "start_network" => pc = n)
    <2>1. pc \in 1 .. n
      BY <1>1, <1>2
    <2> QED
      BY <1>2, <2>1
  <1>4. network # "started"
    BY <1>1, <1>2 DEF NodeInv
  <1> HIDE DEF step
  <1>5. TypeOK'
    <2>1. pc' \in 1 .. 12
      BY <1>1, <1>2
    <2>2. Spawned(step) \subseteq {"txpool", "block-import", "network-worker", "offchain-workers",
                                  "rpc", "telemetry", "babe-proposer", "grandpa-voter"}
      BY DEF Spawned
    <2>3. network' \in {"none", "built", "started"}
      BY <1>1, <1>2 DEF TypeOK
    <2> QED
      BY <1>1, <1>2, <2>1, <2>2, <2>3 DEF TypeOK
  <1>6. ASSUME network' = "started" PROVE pc' > Len(Steps(config))'
    <2>1. step = "start_network"
      BY <1>1, <1>4, <1>6
    <2>2. Len(Steps(config))' = n
      BY <1>1, StepsAreFixed
    <2> QED
      BY <1>1, <1>2, <1>3, <2>1, <2>2
  <1> QED
    BY <1>5, <1>6 DEF NodeInv

\* Every step of a node keeps the invariant.
LEMMA NextNodeInv == NodeInv /\ [Next]_vars => NodeInv'
  <1> SUFFICES ASSUME NodeInv, [Next]_vars PROVE NodeInv'
    OBVIOUS
  <1>1. ASSUME UNCHANGED <<config, pc>>,
               status' \in {"starting", "running", "done", "failed", "stopped"},
               tasks' \subseteq tasks, network' \in {network, "none"}
        PROVE  NodeInv'
    <2>1. TypeOK'
      BY <1>1 DEF NodeInv, TypeOK
    <2>2. Len(Steps(config))' = Len(Steps(config))
      BY <1>1, StepsAreFixed
    <2> QED
      BY <1>1, <2>1, <2>2 DEF NodeInv
  <1>2. CASE BuildStep
    BY <1>2, BuildStepKeepsInv
  <1>3. CASE FailStep \/ FinishSubcommand \/ StopOnFailure \/ Interrupt
    BY <1>1, <1>3 DEF FailStep, FinishSubcommand, StopOnFailure, Interrupt, Drop
  <1>4. CASE StartRunning
    BY <1>1, <1>4 DEF StartRunning
  <1>5. ASSUME NEW task \in tasks, TaskExits(task)
        PROVE  NodeInv'
    BY <1>1, <1>5 DEF TaskExits
  <1>6. CASE UNCHANGED vars
    BY <1>1, <1>6 DEF vars, NodeInv, TypeOK
  <1> QED
    BY <1>2, <1>3, <1>4, <1>5, <1>6 DEF Next

LEMMA NodeInvariance == Spec => []NodeInv
  <1>1. Init => NodeInv
    BY DEF Init, NodeInv, TypeOK
  <1> QED
    BY <1>1, NextNodeInv, PTL DEF Spec

\* Every builder is done after at most eleven steps, and the tasks it spawns
\* are those of the node's parts.
THEOREM NodeTypes == Spec => []TypeOK
  <1>1. NodeInv => TypeOK
    BY DEF NodeInv
  <1> QED
    BY NodeInvariance, <1>1, PTL

\* No builder lets peers in before every task of the node has been spawned and
\* every step that can fail has succeeded, whichever steps the configuration
\* leaves out and whichever tasks end meanwhile.
THEOREM NetworkIsLast == Spec => NetworkStartsLast
  <1> DEFINE Complete == network = "started" => tasks' \subseteq tasks /\ status' # "failed"
  <1>1. ASSUME NodeInv, Next PROVE Complete
    <2> SUFFICES ASSUME network = "started" PROVE tasks' \subseteq tasks /\ status' # "failed"
      OBVIOUS
    <2>1. ~(pc <= Len(Steps(config)))
      <3>1. pc > Len(Steps(config)) /\ pc \in 1 .. 12 /\ Len(Steps(config)) \in 0 .. 11
        BY <1>1, StepsOfConfiguration DEF NodeInv, TypeOK
      <3> QED
        BY <3>1
    <2> QED
      BY <1>1, <2>1 DEF Next, BuildStep, FailStep, StartRunning, FinishSubcommand, TaskExits,
                        StopOnFailure, Interrupt, Drop
  <1>2. NodeInv /\ [Next]_vars => [Complete]_vars
    BY <1>1
  <1>3. Spec => [][Complete]_vars
    BY <1>2, NodeInvariance, PTL DEF Spec
  <1> QED
    BY <1>3 DEF NetworkStartsLast

-----------------------------------------------------------------------------
(* The genesis block *)

DevSeeds == {"Alice", "Bob", "Charlie", "Dave", "Eve", "Ferdie"}
Seeds == DevSeeds \union NewSeeds
KeyAccounts == Seeds \X {"controller", "stash"}
BalanceEntries == [account : KeyAccounts, amount : Nat]
KeyEntries == [validator : KeyAccounts, babe : Seeds, grandpa : Seeds]
StakerEntries == [stash : KeyAccounts, controller : KeyAccounts, stake : Nat]
ChainSpecs ==
    [balances : Seq(BalanceEntries),
     sudo : KeyAccounts,
     keys : Seq(KeyEntries),
     validator_count : Nat,
     minimum_validator_count : Nat,
     stakers : Seq(StakerEntries),
     invulnerables : Seq(KeyAccounts)]

\* The account has an entry of at least m.
Endowed(s, a, m) ==
    \E j \in 1 .. Len(s.balances) : s.balances[j].account = a /\ s.balances[j].amount >= m

\* No account has two entries, and all are of known secrets.
EntriesDistinct(s, known) ==
    /\ \A i, j \in 1 .. Len(s.balances) :
          s.balances[i].account = s.balances[j].account => i = j
    /\ \A i \in 1 .. Len(s.balances) : s.balances[i].account[1] \in known

\* Validator i has the same secret in all the lists, known and its own, and can
\* bond its stake.
ValidatorsAgree(s, known) ==
    /\ Len(s.stakers) = Len(s.keys) /\ Len(s.invulnerables) = Len(s.keys)
    /\ s.minimum_validator_count <= Len(s.keys)
    /\ \A i \in 1 .. Len(s.keys) :
          LET seed == s.keys[i].babe IN
          /\ seed \in known
          /\ s.keys[i].validator = Stash(seed)
          /\ s.invulnerables[i] = Stash(seed)
          /\ s.stakers[i].stash = Stash(seed) /\ s.stakers[i].controller = Account(seed)
          /\ Endowed(s, Stash(seed), s.stakers[i].stake)
          /\ Endowed(s, Account(seed), 1)
    /\ \A i, j \in 1 .. Len(s.keys) : s.keys[i].babe = s.keys[j].babe => i = j

Sound(s, known) ==
    /\ s \in ChainSpecs
    /\ EntriesDistinct(s, known)
    /\ ValidatorsAgree(s, known)
    /\ Endowed(s, s.sudo, 1)

GenesisInv == used \subseteq NewSeeds /\ Sound(spec, DevSeeds \union used)

\* Different keys of different secrets are different accounts.
LEMMA KeyAccountsDiffer ==
    ASSUME NEW s \in Seeds, NEW t \in Seeds
    PROVE  /\ Account(s) \in KeyAccounts /\ Stash(s) \in KeyAccounts
           /\ Account(s) # Stash(t)
           /\ Account(s) = Account(t) => s = t
           /\ Stash(s) = Stash(t) => s = t
           /\ Account(s)[1] = s /\ Stash(s)[1] = s
  BY DEF Account, Stash, KeyAccounts

\* An account with one entry has its amount at genesis.
LEMMA EndowedBalance ==
    ASSUME NEW a, NEW m \in Nat, GenesisInv, Endowed(spec, a, m)
    PROVE  GenesisBalance(a) \in Nat /\ GenesisBalance(a) >= m
  <1> DEFINE entries == {i \in 1 .. Len(spec.balances) : spec.balances[i].account = a}
  <1>1. PICK j \in 1 .. Len(spec.balances) :
           spec.balances[j].account = a /\ spec.balances[j].amount >= m
    BY DEF Endowed
  <1>2. entries = {j}
    BY <1>1 DEF GenesisInv, Sound, EntriesDistinct
  <1>3. (CHOOSE i \in entries : \A k \in entries : k <= i) = j
    <2>1. j \in Nat
      BY <1>1
    <2> HIDE DEF entries
    <2> QED
      BY <1>2, <2>1
  <1>4. GenesisBalance(a) = spec.balances[j].amount
    BY <1>2, <1>3 DEF GenesisBalance
  <1>5. spec.balances[j].amount \in Nat
    <2>1. spec.balances \in Seq(BalanceEntries)
      BY DEF GenesisInv, Sound, ChainSpecs
    <2>2. spec.balances[j] \in BalanceEntries
      BY <2>1, ElementOfSeq
    <2> QED
      BY <2>2 DEF BalanceEntries
  <1> QED
    BY <1>1, <1>4, <1>5

\* The seeds of the development accounts are six different ones.
LEMMA LocalSeedsAre ==
    /\ Len(LocalSeeds) = 6
    /\ \A i \in 1 .. 6 : LocalSeeds[i] \in DevSeeds
    /\ \A i, j \in 1 .. 6 : LocalSeeds[i] = LocalSeeds[j] => i = j
    /\ NewSeeds \intersect DevSeeds = {}
  <1>1. 1 .. 6 = {1, 2, 3, 4, 5, 6}
    OBVIOUS
  <1>2. Len(LocalSeeds) = 6 /\ DOMAIN LocalSeeds = 1 .. 6
    BY DEF LocalSeeds
  <1>3. \A i \in 1 .. 6 : LocalSeeds[i] \in DevSeeds
    BY <1>1 DEF LocalSeeds, DevSeeds
  <1>4. \A i, j \in 1 .. 6 : LocalSeeds[i] = LocalSeeds[j] => i = j
    BY <1>1 DEF LocalSeeds
  <1>5. \A x \in DevSeeds : x \in Range(LocalSeeds)
    BY <1>1, <1>2 DEF LocalSeeds, DevSeeds, Range
  <1> QED
    BY <1>2, <1>3, <1>4, <1>5, GenesisAssumption

\* A list of n elements is a sequence of length n.
LEMMA ListOf ==
    ASSUME NEW S, NEW n \in Nat, NEW f \in [1 .. n -> S]
    PROVE  f \in Seq(S) /\ Len(f) = n
  OBVIOUS

LEMMA SequenceOf ==
    ASSUME NEW S, NEW s \in Seq(S)
    PROVE  Len(s) \in Nat /\ s \in [1 .. Len(s) -> S]
  OBVIOUS

\* Two lists one after the other
LEMMA TwoLists ==
    ASSUME NEW S, NEW s \in Seq(S), NEW t \in Seq(S)
    PROVE  /\ s \o t \in Seq(S) /\ Len(s \o t) = Len(s) + Len(t)
           /\ \A i \in 1 .. Len(s) : (s \o t)[i] = s[i]
           /\ \A i \in 1 .. Len(t) : (s \o t)[Len(s) + i] = t[i]
  <1> DEFINE st == s \o t
             k == Len(s)
             l == Len(t)
  <1>1. st \in Seq(S) /\ Len(st) = k + l
    BY ConcatProperties
  <1>2. \A i \in 1 .. k + l : st[i] = IF i <= k THEN s[i] ELSE t[i - k]
    BY ConcatProperties
  <1>3. k \in Nat /\ l \in Nat
    BY SequenceOf
  <1> HIDE DEF st, k, l
  <1>4. \A i \in 1 .. k : st[i] = s[i]
    BY <1>2, <1>3
  <1>5. ASSUME NEW i \in 1 .. l PROVE st[k + i] = t[i]
    <2>1. k + i \in 1 .. k + l /\ ~(k + i <= k) /\ (k + i) - k = i
      BY <1>3
    <2> QED
      BY <1>2, <2>1
  <1> QED
    BY <1>1, <1>4, <1>5 DEF st, k, l

\* testnet_genesis makes a sound specification of any authorities, as long as
\* they and the sudo key are among the endowed accounts and nobody is listed
\* twice.
LEMMA TestnetIsSound ==
    ASSUME NEW n \in Nat, NEW auth \in [1 .. n -> DevSeeds], Len(auth) = n,
           NEW m \in Nat, NEW endowed \in [1 .. m -> KeyAccounts], Len(endowed) = m,
           NEW root,
           \A i, j \in 1 .. n : auth[i] = auth[j] => i = j,
           \A i, j \in 1 .. m : endowed[i] = endowed[j] => i = j,
           \A i \in 1 .. m : endowed[i][1] \in DevSeeds,
           \A i \in 1 .. n : /\ \E j \in 1 .. m : endowed[j] = Account(auth[i])
                             /\ \E j \in 1 .. m : endowed[j] = Stash(auth[i]),
           \E j \in 1 .. m : endowed[j] = root
    PROVE  Sound(testnet_genesis(auth, root, endowed), DevSeeds)
  <1> DEFINE s == testnet_genesis(auth, root, endowed)
  <1>1. /\ \A i \in 1 .. n : auth[i] \in DevSeeds /\ auth[i] \in Seeds
        /\ \A i \in 1 .. m : endowed[i] \in KeyAccounts
    BY DEF Seeds
  <1>2. /\ s.balances = [i \in 1 .. m |-> [account |-> endowed[i], amount |-> Endowment]]
        /\ s.sudo = root
        /\ s.keys = [i \in 1 .. n |-> SessionKeys(auth[i])]
        /\ s.validator_count = n * 2 /\ s.minimum_validator_count = n
        /\ s.stakers = [i \in 1 .. n |-> Staker(auth[i])]
        /\ s.invulnerables = [i \in 1 .. n |-> Stash(auth[i])]
        /\ s = [balances |-> s.balances, sudo |-> s.sudo, keys |-> s.keys,
                validator_count |-> s.validator_count,
                minimum_validator_count |-> s.minimum_validator_count,
                stakers |-> s.stakers, invulnerables |-> s.invulnerables]
    BY DEF testnet_genesis, Map
  <1> HIDE DEF s
  <1>3. \A i \in 1 .. n : Account(auth[i]) \in KeyAccounts /\ Stash(auth[i]) \in KeyAccounts
    BY <1>1, KeyAccountsDiffer
  <1>4. /\ s.balances \in [1 .. m -> BalanceEntries]
        /\ s.keys \in [1 .. n -> KeyEntries]
        /\ s.stakers \in [1 .. n -> StakerEntries]
        /\ s.invulnerables \in [1 .. n -> KeyAccounts]
    BY <1>1, <1>2, <1>3, GenesisAssumption
    DEF SessionKeys, Staker, BalanceEntries, KeyEntries, StakerEntries
  <1>5. /\ s.balances \in Seq(BalanceEntries) /\ Len(s.balances) = m
        /\ s.keys \in Seq(KeyEntries) /\ Len(s.keys) = n
        /\ s.stakers \in Seq(StakerEntries) /\ Len(s.stakers) = n
        /\ s.invulnerables \in Seq(KeyAccounts) /\ Len(s.invulnerables) = n
    <2>1. s.balances \in Seq(BalanceEntries) /\ Len(s.balances) = m
      BY <1>4, ListOf
    <2>2. s.keys \in Seq(KeyEntries) /\ Len(s.keys) = n
      BY <1>4, ListOf
    <2>3. s.stakers \in Seq(StakerEntries) /\ Len(s.stakers) = n
      BY <1>4, ListOf
    <2>4. s.invulnerables \in Seq(KeyAccounts) /\ Len(s.invulnerables) = n
      BY <1>4, ListOf
    <2> QED
      BY <2>1, <2>2, <2>3, <2>4
  <1>6. s \in ChainSpecs
    <2>1. s.sudo \in KeyAccounts
      BY <1>1, <1>2
    <2>2. s.validator_count \in Nat /\ s.minimum_validator_count \in Nat
      BY <1>2
    <2> QED
      BY <1>2, <1>5, <2>1, <2>2 DEF ChainSpecs
  <1>7. \A i \in 1 .. m : s.balances[i].account = endowed[i] /\ s.balances[i].amount = Endowment
    BY <1>2
  <1>8. EntriesDistinct(s, DevSeeds)
    BY <1>5, <1>7 DEF EntriesDistinct
  <1>9. ASSUME NEW a, NEW k \in Nat, k <= Endowment, \E j \in 1 .. m : endowed[j] = a
        PROVE  Endowed(s, a, k)
    <2>1. PICK j \in 1 .. m : endowed[j] = a
      BY <1>9
    <2>2. s.balances[j].account = a /\ s.balances[j].amount >= k
      BY <1>7, <1>9, <2>1, GenesisAssumption
    <2> QED
      BY <1>5, <2>2 DEF Endowed
  <1>10. STASH \in Nat /\ STASH <= Endowment /\ 1 \in Nat /\ 1 <= Endowment
    BY GenesisAssumption
  <1>11. ValidatorsAgree(s, DevSeeds)
    <2>1. \A i \in 1 .. n : /\ s.keys[i].babe = auth[i] /\ s.keys[i].validator = Stash(auth[i])
                            /\ s.invulnerables[i] = Stash(auth[i])
                            /\ s.stakers[i].stash = Stash(auth[i])
                            /\ s.stakers[i].controller = Account(auth[i])
                            /\ s.stakers[i].stake = STASH
      BY <1>2 DEF SessionKeys, Staker
    <2>2. ASSUME NEW i \in 1 .. n
          PROVE  Endowed(s, Stash(auth[i]), STASH) /\ Endowed(s, Account(auth[i]), 1)
      BY <1>9, <1>10
    <2> QED
      BY <1>1, <1>2, <1>5, <2>1, <2>2 DEF ValidatorsAgree
  <1>12. Endowed(s, s.sudo, 1)
    BY <1>2, <1>9, <1>10
  <1> QED
    BY <1>6, <1>8, <1>11, <1>12 DEF Sound, s

\* The development chain: Alice alone.
LEMMA DevelopmentIsSound == Sound(development_config, DevSeeds)
  <1> DEFINE auth == <<"Alice">>
             endowed == <<Account("Alice"), Account("Bob"), Stash("Alice"), Stash("Bob")>>
  <1>1. 1 .. 1 = {1} /\ 1 .. 4 = {1, 2, 3, 4}
    OBVIOUS
  <1>2. "Alice" \in DevSeeds /\ "Bob" \in DevSeeds /\ "Alice" \in Seeds /\ "Bob" \in Seeds
    BY DEF DevSeeds, Seeds
  <1>3. auth \in [1 .. 1 -> DevSeeds] /\ Len(auth) = 1 /\ auth[1] = "Alice"
    BY <1>1, <1>2
  <1>4. /\ endowed \in [1 .. 4 -> KeyAccounts] /\ Len(endowed) = 4
        /\ endowed[1] = Account("Alice") /\ endowed[2] = Account("Bob")
        /\ endowed[3] = Stash("Alice") /\ endowed[4] = Stash("Bob")
    BY <1>1, <1>2, KeyAccountsDiffer
  <1>5. development_config = testnet_genesis(auth, Account("Alice"), endowed)
    BY DEF development_config
  <1> HIDE DEF auth, endowed
  <1>6. \A i, j \in 1 .. 4 : endowed[i] = endowed[j] => i = j
    <2>1. /\ Account("Alice") # Account("Bob") /\ Account("Alice") # Stash("Alice")
          /\ Account("Alice") # Stash("Bob") /\ Account("Bob") # Stash("Alice")
          /\ Account("Bob") # Stash("Bob") /\ Stash("Alice") # Stash("Bob")
      BY DEF Account, Stash
    <2> QED
      BY <1>1, <1>4, <2>1
  <1>7. \A i \in 1 .. 4 : endowed[i][1] \in DevSeeds
    BY <1>1, <1>2, <1>4, KeyAccountsDiffer
  <1>8. /\ \A i, j \in 1 .. 1 : auth[i] = auth[j] => i = j
        /\ \A i \in 1 .. 1 : /\ \E j \in 1 .. 4 : endowed[j] = Account(auth[i])
                             /\ \E j \in 1 .. 4 : endowed[j] = Stash(auth[i])
        /\ \E j \in 1 .. 4 : endowed[j] = Account("Alice")
    BY <1>1, <1>3, <1>4
  <1>9. 1 \in Nat /\ 4 \in Nat
    OBVIOUS
  <1> QED
    BY <1>3, <1>4, <1>5, <1>6, <1>7, <1>8, <1>9, TestnetIsSound

\* The local test network: Alice and Bob, with all the development accounts.
LEMMA LocalIsSound == Sound(local_testnet_config, DevSeeds)
  <1> DEFINE auth == <<"Alice", "Bob">>
             c == Map(Account, LocalSeeds)
             t == Map(Stash, LocalSeeds)
             endowed == c \o t
  <1>1. 1 .. 2 = {1, 2}
    OBVIOUS
  <1>2. "Alice" \in DevSeeds /\ "Bob" \in DevSeeds
    BY DEF DevSeeds
  <1>3. auth \in [1 .. 2 -> DevSeeds] /\ Len(auth) = 2 /\ auth[1] = "Alice" /\ auth[2] = "Bob"
    BY <1>1, <1>2
  <1>4. \A i \in 1 .. 6 : LocalSeeds[i] \in DevSeeds /\ LocalSeeds[i] \in Seeds
    BY LocalSeedsAre DEF Seeds
  <1>5. c \in [1 .. 6 -> KeyAccounts] /\ t \in [1 .. 6 -> KeyAccounts]
    BY <1>4, LocalSeedsAre, KeyAccountsDiffer DEF Map
  <1>6. \A i \in 1 .. 6 : c[i] = Account(LocalSeeds[i]) /\ t[i] = Stash(LocalSeeds[i])
    BY LocalSeedsAre DEF Map
  <1>7. local_testnet_config = testnet_genesis(auth, Account("Alice"), endowed)
    BY DEF local_testnet_config
  <1> HIDE DEF auth, c, t
  <1>8. c \in Seq(KeyAccounts) /\ Len(c) = 6 /\ t \in Seq(KeyAccounts) /\ Len(t) = 6
    BY <1>5, ListOf
  <1>9. /\ Len(endowed) = 6 + 6 /\ endowed \in Seq(KeyAccounts)
        /\ \A i \in 1 .. 6 : endowed[i] = c[i] /\ endowed[6 + i] = t[i]
    <2>1. c \in Seq(KeyAccounts) /\ t \in Seq(KeyAccounts)
      BY <1>8
    <2>2. c \o t \in Seq(KeyAccounts) /\ Len(c \o t) = Len(c) + Len(t)
      BY <2>1, TwoLists
    <2>3. \A i \in 1 .. Len(c) : (c \o t)[i] = c[i]
      BY <2>1, TwoLists
    <2>4. \A i \in 1 .. Len(t) : (c \o t)[Len(c) + i] = t[i]
      BY <2>1, TwoLists
    <2> QED
      BY <1>8, <2>2, <2>3, <2>4, Zenon
  <1> HIDE DEF endowed
  <1>10. Len(endowed) = 12 /\ endowed \in [1 .. 12 -> KeyAccounts]
    <2>1. Len(endowed) = 12
      BY <1>9
    <2> QED
      BY <1>9, <2>1, SequenceOf
  <1>11. \A i \in 1 .. 12 :
            \E k \in 1 .. 6 : \/ i = k /\ endowed[i] = Account(LocalSeeds[k])
                              \/ i = 6 + k /\ endowed[i] = Stash(LocalSeeds[k])
    <2>1. \A i \in 1 .. 12 : \E k \in 1 .. 6 : i = k \/ i = 6 + k
      <3>1. \A i \in 1 .. 12 : i \in 1 .. 6 \/ (i - 6 \in 1 .. 6 /\ i = 6 + (i - 6))
        OBVIOUS
      <3> QED
        BY <3>1
    <2> QED
      BY <1>6, <1>9, <2>1
  <1>12. ASSUME NEW i \in 1 .. 12, NEW j \in 1 .. 12, endowed[i] = endowed[j]
         PROVE  i = j
    <2>1. PICK k \in 1 .. 6 : \/ i = k /\ endowed[i] = Account(LocalSeeds[k])
                              \/ i = 6 + k /\ endowed[i] = Stash(LocalSeeds[k])
      BY <1>11
    <2>2. PICK l \in 1 .. 6 : \/ j = l /\ endowed[j] = Account(LocalSeeds[l])
                              \/ j = 6 + l /\ endowed[j] = Stash(LocalSeeds[l])
      BY <1>11
    <2>3. LocalSeeds[k] \in Seeds /\ LocalSeeds[l] \in Seeds
      BY <1>4
    <2>4. LocalSeeds[k] = LocalSeeds[l] => k = l
      BY LocalSeedsAre
    <2> QED
      BY <1>12, <2>1, <2>2, <2>3, <2>4, KeyAccountsDiffer
  <1>13. \A i \in 1 .. 12 : endowed[i][1] \in DevSeeds
    BY <1>4, <1>11, KeyAccountsDiffer
  <1>14. /\ endowed[1] = Account("Alice") /\ endowed[2] = Account("Bob")
         /\ endowed[7] = Stash("Alice") /\ endowed[8] = Stash("Bob")
    <2>1. LocalSeeds[1] = "Alice" /\ LocalSeeds[2] = "Bob"
      BY DEF LocalSeeds
    <2>2. 6 + 1 = 7 /\ 6 + 2 = 8 /\ 1 \in 1 .. 6 /\ 2 \in 1 .. 6
      OBVIOUS
    <2> QED
      BY <1>6, <1>9, <2>1, <2>2
  <1>15. /\ \A i, j \in 1 .. 2 : auth[i] = auth[j] => i = j
         /\ \A i \in 1 .. 2 : /\ \E j \in 1 .. 12 : endowed[j] = Account(auth[i])
                              /\ \E j \in 1 .. 12 : endowed[j] = Stash(auth[i])
         /\ \E j \in 1 .. 12 : endowed[j] = Account("Alice")
    BY <1>1, <1>3, <1>14
  <1>16. 2 \in Nat /\ 12 \in Nat
    OBVIOUS
  <1> QED
    BY <1>3, <1>7, <1>10, <1>12, <1>13, <1>15, <1>16, TestnetIsSound

\* An element added to a list comes last.
LEMMA AddedLast ==
    ASSUME NEW S, NEW k \in Nat, NEW s \in Seq(S), Len(s) = k, NEW x \in S
    PROVE  /\ Append(s, x) \in Seq(S) /\ Len(Append(s, x)) = k + 1
           /\ \A i \in 1 .. k : Append(s, x)[i] = s[i]
           /\ Append(s, x)[k + 1] = x
  BY AppendProperties

\* The script keeps a specification sound: its accounts are new, so nothing it
\* appends hides an entry, and it endows what it stakes.
LEMMA ScriptKeepsSound ==
    ASSUME GenesisInv, NEW seed \in NewSeeds, NEW is_sudo \in BOOLEAN,
           chain_spec_gen(seed, is_sudo)
    PROVE  GenesisInv'
  <1> DEFINE known == DevSeeds \union used
             b == Len(spec.balances)
             n == Len(spec.keys)
             new == [stash |-> Stash(seed), controller |-> Account(seed), stake |-> GenStake]
  <1>1. /\ spec \in ChainSpecs /\ EntriesDistinct(spec, known) /\ ValidatorsAgree(spec, known)
        /\ Endowed(spec, spec.sudo, 1) /\ used \subseteq NewSeeds
    BY DEF GenesisInv, Sound
  <1>2. /\ spec'.balances = spec.balances \o Funded(seed)
        /\ spec'.invulnerables = Append(spec.invulnerables, Stash(seed))
        /\ spec'.stakers = Append(spec.stakers, new)
        /\ spec'.keys = Append(spec.keys, SessionKeys(seed))
        /\ spec'.sudo = IF is_sudo THEN Account(seed) ELSE spec.sudo
        /\ spec'.validator_count = spec.validator_count
        /\ spec'.minimum_validator_count = spec.minimum_validator_count
        /\ spec' = [balances |-> spec'.balances, sudo |-> spec'.sudo, keys |-> spec'.keys,
                    validator_count |-> spec'.validator_count,
                    minimum_validator_count |-> spec'.minimum_validator_count,
                    stakers |-> spec'.stakers, invulnerables |-> spec'.invulnerables]
    BY <1>1 DEF chain_spec_gen, ChainSpecs
  <1>3. /\ used' = used \union {seed} /\ used' \subseteq NewSeeds
        /\ DevSeeds \union used' = known \union {seed}
        /\ seed \notin known /\ known \subseteq Seeds /\ seed \in Seeds
    BY <1>1, LocalSeedsAre DEF chain_spec_gen, Seeds
  <1>4. /\ spec.balances \in Seq(BalanceEntries) /\ spec.keys \in Seq(KeyEntries)
        /\ spec.stakers \in Seq(StakerEntries) /\ spec.invulnerables \in Seq(KeyAccounts)
        /\ spec.sudo \in KeyAccounts
        /\ spec.validator_count \in Nat /\ spec.minimum_validator_count \in Nat
    BY <1>1 DEF ChainSpecs
  <1>5. /\ b \in Nat /\ n \in Nat /\ Len(spec.balances) = b /\ Len(spec.keys) = n
        /\ Len(spec.stakers) = n /\ Len(spec.invulnerables) = n
    BY <1>1, <1>4, SequenceOf DEF ValidatorsAgree
  <1>6. Account(seed) \in KeyAccounts /\ Stash(seed) \in KeyAccounts
    BY <1>3, KeyAccountsDiffer
  <1>7. /\ Funded(seed) \in Seq(BalanceEntries) /\ Len(Funded(seed)) = 2
        /\ Funded(seed)[1] = [account |-> Account(seed), amount |-> GenBalance]
        /\ Funded(seed)[2] = [account |-> Stash(seed), amount |-> GenBalance]
    <2>1. /\ [account |-> Account(seed), amount |-> GenBalance] \in BalanceEntries
          /\ [account |-> Stash(seed), amount |-> GenBalance] \in BalanceEntries
      BY <1>6, GenesisAssumption DEF BalanceEntries
    <2> QED
      BY <2>1 DEF Funded
  <1>8. SessionKeys(seed) \in KeyEntries /\ new \in StakerEntries
    BY <1>3, <1>6, GenesisAssumption DEF SessionKeys, KeyEntries, StakerEntries
  <1> HIDE DEF b, n, known, new
  <1>9. /\ spec'.balances \in Seq(BalanceEntries) /\ Len(spec'.balances) = b + 2
        /\ \A i \in 1 .. b : spec'.balances[i] = spec.balances[i]
        /\ spec'.balances[b + 1] = [account |-> Account(seed), amount |-> GenBalance]
        /\ spec'.balances[b + 2] = [account |-> Stash(seed), amount |-> GenBalance]
    <2>1. PICK l \in Nat : l = 2
      OBVIOUS
    <2>2. /\ spec'.balances \in Seq(BalanceEntries) /\ Len(spec'.balances) = b + l
          /\ \A i \in 1 .. b : spec'.balances[i] = spec.balances[i]
          /\ \A i \in 1 .. l : spec'.balances[b + i] = Funded(seed)[i]
      <3> DEFINE s == spec.balances
                 f == Funded(seed)
      <3>1. s \in Seq(BalanceEntries) /\ Len(s) = b /\ f \in Seq(BalanceEntries) /\ Len(f) = l
        BY <1>4, <1>5, <1>7, <2>1
      <3>2. spec'.balances = s \o f
        BY <1>2
      <3> HIDE DEF s, f
      <3>3. s \o f \in Seq(BalanceEntries) /\ Len(s \o f) = Len(s) + Len(f)
        BY <3>1, TwoLists
      <3>4. \A i \in 1 .. Len(s) : (s \o f)[i] = s[i]
        BY <3>1, TwoLists
      <3>5. \A i \in 1 .. Len(f) : (s \o f)[Len(s) + i] = f[i]
        BY <3>1, TwoLists
      <3> QED
        BY <3>1, <3>2, <3>3, <3>4, <3>5, Zenon DEF s, f
    <2>3. 1 \in 1 .. l /\ 2 \in 1 .. l
      BY <2>1
    <2> QED
      BY <1>7, <2>1, <2>2, <2>3
  <1>10. /\ spec'.keys \in Seq(KeyEntries) /\ Len(spec'.keys) = n + 1
         /\ \A i \in 1 .. n : spec'.keys[i] = spec.keys[i]
         /\ spec'.keys[n + 1] = SessionKeys(seed)
    BY <1>2, <1>4, <1>5, <1>8, AddedLast
  <1>11. /\ spec'.stakers \in Seq(StakerEntries) /\ Len(spec'.stakers) = n + 1
         /\ \A i \in 1 .. n : spec'.stakers[i] = spec.stakers[i]
         /\ spec'.stakers[n + 1] = new
    BY <1>2, <1>4, <1>5, <1>8, AddedLast
  <1>12. /\ spec'.invulnerables \in Seq(KeyAccounts) /\ Len(spec'.invulnerables) = n + 1
         /\ \A i \in 1 .. n : spec'.invulnerables[i] = spec.invulnerables[i]
         /\ spec'.invulnerables[n + 1] = Stash(seed)
    BY <1>2, <1>4, <1>5, <1>6, AddedLast
  <1>13. spec' \in ChainSpecs
    <2>1. spec'.sudo \in KeyAccounts
      BY <1>2, <1>4, <1>6
    <2> QED
      BY <1>2, <1>4, <1>9, <1>10, <1>11, <1>12, <2>1 DEF ChainSpecs
  <1>14. EntriesDistinct(spec', known \union {seed})
    <2>1. /\ \A i, j \in 1 .. b : spec.balances[i].account = spec.balances[j].account => i = j
          /\ \A i \in 1 .. b : spec.balances[i].account[1] \in known
      BY <1>1, <1>5 DEF EntriesDistinct
    <2>2. /\ Account(seed)[1] = seed /\ Stash(seed)[1] = seed /\ Account(seed) # Stash(seed)
      BY <1>3, KeyAccountsDiffer
    <2>3. \A i \in 1 .. b + 2 : i \in 1 .. b \/ i = b + 1 \/ i = b + 2
      BY <1>5
    <2>4. /\ spec'.balances[b + 1].account = Account(seed)
          /\ spec'.balances[b + 2].account = Stash(seed)
      BY <1>9
    <2>5. \A i \in 1 .. b + 2 : spec'.balances[i].account[1] \in known \union {seed}
      BY <1>9, <2>1, <2>2, <2>3, <2>4
    <2>6. \A i \in 1 .. b : /\ spec'.balances[i].account # Account(seed)
                            /\ spec'.balances[i].account # Stash(seed)
      BY <1>3, <1>9, <2>1, <2>2
    <2>7. \A i, j \in 1 .. b + 2 : spec'.balances[i].account = spec'.balances[j].account => i = j
      BY <1>9, <2>1, <2>2, <2>3, <2>4, <2>6
    <2> QED
      BY <1>9, <2>5, <2>7 DEF EntriesDistinct
  <1>15. ASSUME NEW a, NEW k, Endowed(spec, a, k) PROVE Endowed(spec', a, k)
    <2>1. PICK j \in 1 .. b : spec.balances[j].account = a /\ spec.balances[j].amount >= k
      BY <1>5, <1>15 DEF Endowed
    <2>2. j \in 1 .. b + 2
      BY <1>5
    <2> QED
      BY <1>9, <2>1, <2>2 DEF Endowed
  <1>16. ASSUME NEW k \in Nat, k <= GenBalance
         PROVE  Endowed(spec', Account(seed), k) /\ Endowed(spec', Stash(seed), k)
    <2>1. b + 1 \in 1 .. b + 2 /\ b + 2 \in 1 .. b + 2
      BY <1>5
    <2>2. GenBalance >= k
      BY <1>16, GenesisAssumption
    <2> QED
      BY <1>9, <2>1, <2>2 DEF Endowed
  <1>17. ValidatorsAgree(spec', known \union {seed})
    <2>1. /\ SessionKeys(seed).babe = seed /\ SessionKeys(seed).validator = Stash(seed)
          /\ new.stash = Stash(seed) /\ new.controller = Account(seed) /\ new.stake = GenStake
      BY DEF SessionKeys, new
    <2>2. /\ Endowed(spec', Stash(seed), GenStake)
          /\ Endowed(spec', Account(seed), 1)
      BY <1>16, GenesisAssumption
    <2>3. \A i \in 1 .. n + 1 : i \in 1 .. n \/ i = n + 1
      BY <1>5
    <2>4. ASSUME NEW i \in 1 .. n + 1
          PROVE  LET x == spec'.keys[i].babe IN
                 /\ x \in known \union {seed}
                 /\ spec'.keys[i].validator = Stash(x)
                 /\ spec'.invulnerables[i] = Stash(x)
                 /\ spec'.stakers[i].stash = Stash(x) /\ spec'.stakers[i].controller = Account(x)
                 /\ Endowed(spec', Stash(x), spec'.stakers[i].stake)
                 /\ Endowed(spec', Account(x), 1)
      <3>1. CASE i = n + 1
        BY <1>10, <1>11, <1>12, <2>1, <2>2, <3>1
      <3>2. CASE i \in 1 .. n
        <4>1. /\ spec'.keys[i] = spec.keys[i] /\ spec'.stakers[i] = spec.stakers[i]
              /\ spec'.invulnerables[i] = spec.invulnerables[i]
          BY <1>10, <1>11, <1>12, <3>2
        <4> DEFINE x == spec.keys[i].babe
        <4>2. /\ x \in known
              /\ spec.keys[i].validator = Stash(x)
              /\ spec.invulnerables[i] = Stash(x)
              /\ spec.stakers[i].stash = Stash(x) /\ spec.stakers[i].controller = Account(x)
              /\ Endowed(spec, Stash(x), spec.stakers[i].stake)
              /\ Endowed(spec, Account(x), 1)
          BY <1>1, <1>5, <3>2 DEF ValidatorsAgree
        <4> QED
          BY <1>15, <4>1, <4>2
      <3> QED
        BY <2>3, <3>1, <3>2
    <2>5. \A i, j \in 1 .. n + 1 : spec'.keys[i].babe = spec'.keys[j].babe => i = j
      <3>1. /\ \A i, j \in 1 .. n : spec.keys[i].babe = spec.keys[j].babe => i = j
            /\ \A i \in 1 .. n : spec.keys[i].babe \in known
        BY <1>1, <1>5 DEF ValidatorsAgree
      <3> QED
        BY <1>3, <1>10, <2>1, <2>3, <3>1
    <2>6. spec'.minimum_validator_count <= n + 1
      BY <1>1, <1>2, <1>4, <1>5 DEF ValidatorsAgree
    <2> QED
      BY <1>10, <1>11, <1>12, <2>4, <2>5, <2>6 DEF ValidatorsAgree
  <1>18. Endowed(spec', spec'.sudo, 1)
    <2>1. 1 \in Nat /\ 1 <= GenBalance
      BY GenesisAssumption
    <2> QED
      BY <1>1, <1>2, <1>15, <1>16, <2>1
  <1> QED
    BY <1>3, <1>13, <1>14, <1>17, <1>18 DEF GenesisInv, Sound

LEMMA GenesisInvariance == GenesisSpec => []GenesisInv
  <1>1. GenesisInit => GenesisInv
    <2>1. DevSeeds \union {} = DevSeeds
      OBVIOUS
    <2> QED
      BY <2>1, DevelopmentIsSound, LocalIsSound DEF GenesisInit, GenesisInv
  <1>2. GenesisInv /\ [GenesisNext]_genesisVars => GenesisInv'
    <2>1. GenesisInv /\ UNCHANGED genesisVars => GenesisInv'
      BY DEF GenesisInv, genesisVars
    <2> QED
      BY <2>1, ScriptKeepsSound DEF GenesisNext
  <1> QED
    BY <1>1, <1>2, PTL DEF GenesisSpec

\* The genesis block can be built from either built-in specification and from
\* every one that chain_spec_gen.py makes of them, with any number of added
\* validators and any of them made the sudo account.
THEOREM GenesisCanBeBuilt == GenesisSpec => []GenesisBuilds
  <1>1. ASSUME GenesisInv PROVE GenesisBuilds
    <2> DEFINE n == Len(spec.keys)
    <2>1. /\ spec \in ChainSpecs /\ ValidatorsAgree(spec, DevSeeds \union used)
          /\ Endowed(spec, spec.sudo, 1) /\ used \subseteq NewSeeds
      BY <1>1 DEF GenesisInv, Sound
    <2>2. /\ Len(spec.stakers) = n /\ Len(spec.invulnerables) = n
          /\ spec.minimum_validator_count <= n
          /\ \A i \in 1 .. n :
                LET x == spec.keys[i].babe IN
                /\ x \in Seeds
                /\ spec.keys[i].validator = Stash(x)
                /\ spec.invulnerables[i] = Stash(x)
                /\ spec.stakers[i].stash = Stash(x) /\ spec.stakers[i].controller = Account(x)
                /\ Endowed(spec, Stash(x), spec.stakers[i].stake)
                /\ Endowed(spec, Account(x), 1)
          /\ \A i, j \in 1 .. n : spec.keys[i].babe = spec.keys[j].babe => i = j
      BY <2>1 DEF ValidatorsAgree, Seeds
    <2>3. /\ n \in Nat /\ spec.invulnerables \in [1 .. n -> KeyAccounts]
          /\ spec.stakers \in [1 .. n -> StakerEntries]
      <3>1. /\ spec.keys \in Seq(KeyEntries) /\ spec.invulnerables \in Seq(KeyAccounts)
            /\ spec.stakers \in Seq(StakerEntries)
        BY <2>1 DEF ChainSpecs
      <3> QED
        BY <2>2, <3>1, SequenceOf
    <2> HIDE DEF n
    <2>4. /\ Len(spec.keys) = n /\ \A i \in 1 .. n : spec.stakers[i].stake \in Nat
      BY <2>3 DEF n, StakerEntries
    <2>5. ASSUME NEW i \in 1 .. n
          PROVE  /\ GenesisBalance(spec.stakers[i].stash) >= spec.stakers[i].stake
                 /\ GenesisBalance(spec.stakers[i].controller) \in Nat
                 /\ GenesisBalance(spec.stakers[i].controller) >= 1
      BY <1>1, <2>2, <2>4, EndowedBalance
    <2>6. GenesisBalance(spec.sudo) \in Nat /\ GenesisBalance(spec.sudo) >= 1
      BY <1>1, <2>1, EndowedBalance
    <2>7. \A i, j \in 1 .. n : /\ spec.stakers[i].stash = spec.stakers[j].stash => i = j
                               /\ spec.stakers[i].controller = spec.stakers[j].controller => i = j
                               /\ spec.keys[i].validator = spec.keys[j].validator => i = j
      BY <2>2, KeyAccountsDiffer
    <2>8. /\ Map(LAMBDA s : s.stash, spec.stakers) = [i \in 1 .. n |-> spec.stakers[i].stash]
          /\ Map(LAMBDA s : s.controller, spec.stakers) =
                [i \in 1 .. n |-> spec.stakers[i].controller]
          /\ Map(LAMBDA k : k.validator, spec.keys) = [i \in 1 .. n |-> spec.keys[i].validator]
          /\ Map(LAMBDA k : k.babe, spec.keys) = [i \in 1 .. n |-> spec.keys[i].babe]
      BY <2>2, <2>4 DEF Map
    <2>9. /\ IsInjective([i \in 1 .. n |-> spec.stakers[i].stash])
          /\ IsInjective([i \in 1 .. n |-> spec.stakers[i].controller])
          /\ IsInjective([i \in 1 .. n |-> spec.keys[i].validator])
          /\ IsInjective([i \in 1 .. n |-> spec.keys[i].babe])
      BY <2>2, <2>7 DEF IsInjective
    <2>10. /\ [i \in 1 .. n |-> spec.stakers[i].stash] = spec.invulnerables
           /\ [i \in 1 .. n |-> spec.keys[i].validator] = spec.invulnerables
      <3>1. \A i \in 1 .. n : /\ spec.stakers[i].stash = spec.invulnerables[i]
                              /\ spec.keys[i].validator = spec.invulnerables[i]
        BY <2>2
      <3>2. spec.invulnerables = [i \in 1 .. n |-> spec.invulnerables[i]]
        BY <2>3
      <3> QED
        BY <3>1, <3>2
    <2>11. /\ GenesisBalance(spec.sudo) > 0
           /\ \A i \in 1 .. n : GenesisBalance(spec.stakers[i].controller) > 0
      BY <2>5, <2>6
    <2> QED
      BY <2>2, <2>5, <2>8, <2>9, <2>10, <2>11 DEF GenesisBuilds
  <1> QED
    BY <1>1, GenesisInvariance, PTL
=============================================================================
