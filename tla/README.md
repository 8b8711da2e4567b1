# A TLA+ model of e2-chain

e2-chain is a Substrate 2.0.0-rc6 blockchain: three pallets of its own
(micropayment channels, ERC20-like tokens, a registry of Deeper devices), a
runtime that wires them to library pallets, and a node that runs the chain.
This directory holds TLA+ modules translated from that code, the TLC runs that
check them on small instances, and TLAPS proofs of the main results for every
value of the constants. `PROJECT.json` maps every definition to source lines.

Paths below are relative to the repository.

## 1. Inventory

| Component | State | Operations | What makes it correct |
|---|---|---|---|
| micropayment pallet, `pallets/micropayment/src/lib.rs` | `Channel`, `Nonce`, `SessionId` per (sender, receiver) | `open_channel`, `close_channel`, `claim_payment` | a session of a channel is paid once, as signed for that channel; a session is consumed only with its payment; a channel pays as long as asked and no longer |
| erc20 pallet, `pallets/erc20/src/lib.rs` | `TokenId`, `Tokens`, `BalanceOf`, `Allowance` | `init`, `transfer`, `approve`, `transfer_from` | unique tokens, balances add up to the supply, nobody draws more than was approved |
| deeper_node pallet, `pallets/deeper-node/src/lib.rs` | `DeviceInfo`, `ServersByCountry` | `register_device`, `unregister_device`, `register_server`, `unregister_server` | lists without duplicates, lists and devices agree, a device is backed by a deposit, every deposit is accounted for |
| balances (library), configured in `runtime/src/lib.rs` | free and reserved balance per account, issuance | `transfer` (AllowDeath), `reserve`, `unreserve`, `withdraw` (KeepAlive, for fees) | issuance is what the accounts hold, no dust |
| timestamp (library), configured in `runtime/src/lib.rs` | the moment of the block | the inherent of each block | moments move forward |
| node service, `node/src/service.rs`, `node/src/command.rs` | the parts built so far, the tasks, the network | `run`, `new_partial`, `new_full`, `new_light` | no peer is served by a node that is still being built, no node without its voter |
| chain specifications, `node/src/chain_spec.rs`, `private_chain/chain_spec_gen.py` | the genesis JSON | the two built-in specifications, adding a validator | the genesis block can be built |
| runtime, `runtime/src/lib.rs` | the ledger and the storage of all pallets; the extrinsic that is being executed | `ChargeTransactionPayment`, then the dispatch of the call, Ok or Err | nobody's money moves without its signature, deposits survive fees and claims, fees and dust leave the issuance |
| transactions, `runtime/src/lib.rs` | block number and hashes, the index of each account, what was signed | `create_transaction`, `SignedExtra` (`CheckEra`, `CheckNonce`, fee), `initialize_block` | a transaction is executed once in a life of its signer, only in its era, and is not refused while the era lasts |
| `CurrencyToVoteHandler`, `runtime/src/lib.rs` | none of its own (reads the issuance) | `factor`, the two conversions | a vote is worth the balance it stands for |
| template pallet, `pallets/template/src/lib.rs` | `Something` | `do_something`, `cause_error` | a failing call keeps its fee and changes nothing else |
| rpc, command line, scripts, weights | I/O, generated | | not modelled |

How they interact. The pallets are called by extrinsics, one after the other;
a block first sets the timestamp, then executes its extrinsics. micropayment
and deeper_node call `Currency` of the one ledger, so that a transfer, a claim
or a deposit of one client changes what the next call of another finds. The
runtime takes the fee of an extrinsic from that same ledger before it
dispatches the call, and keeps it when the call fails. Which extrinsics it
accepts at all depends on the index and on the life of the signing account,
which the calls themselves create and reap. The
receiver of a channel and its sender also talk off chain: the sender signs
running totals, which the receiver may present in any order, late, or twice.
The node's builders call library constructors that may fail, and hand tasks to
a TaskManager that runs them concurrently.

What is hard. There is no concurrency inside the runtime; its difficulty is
the order of calls of several accounts with signed messages in flight
(replayed claims, closed and re-opened channels, a drained sender, an account
that dies while it has a device or a channel, by a call of somebody else;
transactions that fit again when their account is endowed anew), writes that survive a failed
call, the boundaries of u32/u64 numbers, and time. In the node it is partial
construction and the failure of tasks. `PROJECT.json` lists these hazards, each
at its line, with the properties that cover it.

## 2. Modules

```
Ledger <- Balances <-- Micropayment ..implements.. PaymentSessions
   ^          ^  Timestamp --^   ^
   |          |                  |
   |          |              Runtime -> Template
   |          |                  |  DN == INSTANCE DeeperNode
   |          +------------- DeeperNode ..implements.. DeviceLifecycle
   +--- Erc20              Transactions         NodeService <- MCNode -> Genesis

LedgerProofs <- BalancesProofs <- MicropaymentProofs <- RuntimeProofs
     ^                ^
     |                +---------- DeeperNodeProofs
     +-- Erc20Proofs       TransactionsProofs        NodeProofs
```

* **Ledger**: balance sheets and their sum. `SumOf` is a constant function that
  the assumption `SumOfAssumption` characterises by its value on the empty
  sheet and by how it follows one update; the MC modules give it as an actual
  sum, on which TLC evaluates the assumption. This keeps recursion, and so
  induction, out of the proofs.
* **Balances**, **Timestamp**: the library pallets, modelled from how the code
  uses and configures them. A payer whose total falls under the existential
  deposit is reaped and its rest, reserved part included, is burnt
  (`DustRemoval = ()`).
* **Micropayment**: `open_channel`, `close_channel` and `claim_payment` are
  actions of a pair. `claim_payment` has two outcomes: `ClaimExpired` closes the
  channel and returns Ok, `ClaimLive` verifies, transfers and marks. `sign` is the
  sender's client, `transfer` an account's own spending, `NewBlock` the clock.
  `vouchers` is the set of messages signed; being a set that is never emptied it
  covers loss, delay, reordering and duplication. Signatures are ideal:
  `verify_signature` holds of what was signed and of nothing else. The fields of
  the signed message have fixed widths, so its encoding is injective.
  `asked` and `paid` are history variables.
* **PaymentSessions**: what the two ends rely on, without clock, ledger or
  storage: numbered rounds, a session paid at most once, in its own round.
* **Erc20**: the storage maps with their default 0; `holders` and `grants` are
  the keys that are present, which `contains_key` looks at. Calls are not
  transactional in this Substrate version: `transfer_from` has a disjunct for a
  failed `_transfer`, which leaves the allowance reduced. `created`, `approved`
  and `drawn` are history variables.
* **DeeperNode**: server lists are sequences, as in the code. The Err of
  `try_add_server` is dropped by its caller, which is a step without effect.
  `reaped` and `stranded` are history variables: the devices whose account has
  died since they registered, and the deposits that repeated registrations
  have left behind. `Backing` is the deposit that the next `unregister_device`
  gives back. `DisciplinedSpec` is the same pallet with clients that register a
  device once and serve one country at a time, which the code does not enforce.
* **DeviceLifecycle**: what those clients rely on: a device is absent or
  registered, serves at most one country, and leaves nothing behind.
* **Transactions**: `create_transaction` signs with the era it computes from
  `BlockHashCount` and the block number; a transaction stays in `signed` for
  ever, so it may be submitted late, again, or never. `apply_extrinsic` is
  `SignedExtra` and the raised index; what the call does is left open:
  `AccountsChange` creates and reaps accounts in any way, and the index of a
  reaped account is lost. `executed` is a history variable, which starts anew
  with each life of an account. Eras and block hashes are the library's
  (`Birth`, `MortalPhase`, `KnownHashes`).
* **Template**: the one stored number and its two calls.
* **Runtime**: the pallets on one ledger. An extrinsic of `Extrinsics` is
  executed in two steps, `pre_dispatch` (the fee) and `DispatchOk` or `DispatchErr`,
  with nothing in between; `DispatchErr` is the case in which no outcome of the
  call is enabled. `OffChain` is signing and the next block. The pallets'
  actions are those of Micropayment (which it extends) and of DeeperNode (an
  instance), unchanged; `reaped` and `stranded` also follow accounts that a claim
  of somebody else has killed (`Reaped`).
  `factor`, `to_vote` and `to_balance` are `CurrencyToVoteHandler`.
* **NodeService**: `Steps(config)` is the code of the builders as a sequence of
  steps; `BuildStep` and `FailStep` execute it. `TaskExits` ends any task from the
  step that spawns it on, also while the node is still being built; the other
  actions are the running node.
* **Genesis**: a chain specification as a record of lists, and the script as
  the action that extends it. Amounts are in DOLLARS (10^14 units).
* **MCNode**: the two together: the script extends a specification, then a node is
  started with it.
* **MCMicropayment**, **MCErc20**, **MCDeeperNode**, **MCRuntime**: constants for TLC.

A dispatchable that returns Err before it writes, and a trap of the runtime
(a signature of the wrong length), change nothing: the action is not enabled.
Definitions such as `Expired_early` next to a definition of the code are
mutated forms of it, with which each property has been seen to fail.

## 3. Runs

| Run | Configuration | Checks |
|---|---|---|
| channels | `MCMicropayment.cfg` | `PaidAsSigned`, `SessionsOfOpenChannel`, `NoncesFresh`, `NoEarlyExpiry`, `NoLatePayment`, `MarkedAsPaid`, `Conservation`, `ImplementsSessions`, `TypeOK` |
| tokens | `MCErc20.cfg` | `FreshToken`, `TokensAreUnique`, `SupplyAccounted`, `DrawnWithinApproved`, `TypeOK` |
| devices | `MCDeeperNode.cfg` | `NoDoubleAdd`, `DepositHeld`, `DepositsAccounted`, `TypeOK` |
| disciplined | `MCDisciplined.cfg` | `ServersAreRegistered`, `ListMatchesDevice`, `DepositReturned`, `ImplementsLifecycle` |
| node | `MCNode.cfg` | `NetworkStartsLast`, `VoterFailureStopsService`, `GenesisBuilds`, `TypeOK` |
| transactions | `Transactions.cfg` | `OncePerLife`, `ExecutedInEra`, `NotRefusedEarly`, `WorkerCanSign`, `TypeOK` |
| runtime | `MCRuntime.cfg` | `SpentAsSigned`, `DepositsHeld`, `DepositsExact`, `Conservation`, `VotesFit`, `PaidAsSigned`, `ImplementsSessions` |

These hold. Five runs show where the code does not do what its comments or
documents say:

| Run | Property | What TLC shows |
|---|---|---|
| duration_wraps | `NoEarlyExpiry` | `duration * 1000` wraps in u32: a long duration gives a short channel |
| channels_close | `ChannelsClose` | a channel whose receiver makes no call stays open past its expiration, for ever |
| self_transfer | `SupplyConstant` | a token transfer to oneself adds to one's balance |
| failed_draw | `AllowanceIsUndrawn` | a failed `transfer_from` consumes the allowance |
| servers_registered | `ServersAreRegistered` | an unregistered device stays on a server list |

The corresponding passing runs say what does hold: `NoEarlyExpiry` for
durations that do not wrap, `NoLatePayment` although the channel stays open,
`SupplyAccounted` with the self-transfers booked, `DrawnWithinApproved` as an
inequality, and `ServersAreRegistered` for disciplined clients. `ListMatchesDevice`
needs the same discipline: the pallet adds a device to a second country's list
without taking it off the first.

On channels_close: `pallets/micropayment/README.md` line 26 says "Until one week
passed, the channel is closed". No code runs when the expiration passes; only a
claim of the receiver looks at it, which costs the receiver a fee and pays
nothing. `NoLatePayment` is what the sender can rely on instead: after the
duration that it asked for nothing is paid from the channel.

On deposits: each `register_device` reserves another one and `unregister_device`
gives one back. `DepositsAccounted` says exactly what that amounts to: the
deposits of all registrations but one stay in reserve, through any further calls,
until the account dies and they are burnt. No document says otherwise, so this
is stated as the behaviour of the code. `DepositReturned` is the case of clients
that register once: they get all back, or nothing if their account has died.

A remark that no run is spent on: `CurrencyToVoteHandler::factor` is rounded
down, so that the cast of a vote to u64 can cut off high bits when the issuance
is above `u64::MAX`. `VotesFit` names the proviso under which it does not: the
other accounts hold `u64::MAX` among them, or there is no more than that in all.
With an issuance just under twice `u64::MAX` the factor is still 1, and an account
with little more than half of it is outside the proviso. The built-in chain
specifications issue less than `u64::MAX` in all (2^60 for each of 4 or 12
accounts).

### Bounds

* Micropayment: alice can pay two claims of which the second leaves dust, bob
  is just alive (existential deposit 2, issuance 6): a claim can succeed, reap
  the sender, or fail for lack of funds. Two channels in a row (`MaxNonce` 2, a
  bound of the model: the code's u64 nonce has none) are what replay needs; two
  running totals of one session, a second session and a voucher of the next
  channel are signed ahead, late, or never. A second is 2 units of time and the
  clock has 4 moments: claims before, at and after the expiration, and an
  expiration that saturates. `U32Modulus` is 16 where nothing wraps and 4 where
  it does. <<alice, alice>> is a pair so that the check of `open_channel` matters.
* Erc20: two accounts cover sender = receiver and sender # receiver. There are
  two tokens, of the same or of different supplies, so that an `init` can meet the
  state of an earlier token, and the second has the last id. `MaxApproved` bounds
  what is approved by one grant to two approvals, `FewGrants` the entries of
  `Allowance` to two: two spenders of one token, or one of each.
* DeeperNode: two accounts, country 0 (which `try_remove_server` writes) and two
  others; a deposit smaller than the existential deposit, as 100 is to 500.
  The accounts are symmetric. The disciplined run has three accounts and
  countries 0 and 1; liveness and refinement are checked without symmetry.
* Transactions: `BlockHashCount` 5 gives a period of 4 and hashes that are pruned
  before block 10, so that an era ends, starts again with the same phase, and
  outlives its block hash if the period is one power of two longer. Two
  accounts, two transactions with nonces up to 2, any number of lives.
* Runtime: two accounts with 6 and 3 units, existential deposit 2, fee 1,
  deposit 1, a channel in each direction, vouchers for two channels in a row:
  a fee leaves too little for the call, a claim reaps the owner of a device,
  an unregistered device comes back. `U64Max` is 2, so that the factor of the
  votes moves from 4 down as fees and dust are burnt.
* NodeService has no bound: it enumerates all configurations. Genesis adds two
  validators, in every order: the second run of the script works on the output
  of the first.

`CHECK_DEADLOCK FALSE` is set where the system may stop: a node that ended, a
chain specification to which no more validators are added.

### Fairness

* `LiveSpec`, used by channels_close: weak fairness of `NewBlock` (the validators
  author blocks as long as the chain is alive) and of nothing else. Nothing in
  the code makes a client open, sign, claim or close.
* NodeService: the build is straight-line code, and `run_node_until_exit` polls
  the essential tasks; none for tasks that exit or for the user's interrupt.
* Time ends at `MomentMax` in the model, so that `ChannelsClose` speaks of
  channels that expire before: the violation is of a channel that has expired,
  which stays while every call on it remains possible.

## 4. Proofs

All for arbitrary constants under the named assumptions of the modules, which
TLC evaluates on every run: `SumOfAssumption`, `DepositAssumption`,
`EndowmentAssumption`, `MomentAssumption`, `MicropaymentAssumption`,
`Erc20Assumption`, `DeeperNodeAssumption`, `TransactionsAssumption`,
`TemplateAssumption`, `RuntimeAssumption`, `GenesisAssumption`.

* **Ledger.** `LedgerInv` (types, `Conservation`, `NoDust`) is kept by each of the
  currency operations (`CurrencyTransferKeepsLedger`, `ReserveKeepsLedger`,
  `UnreserveKeepsLedger`). The three need one another: `unreserve` and a payment
  stay within the balance type because what the accounts hold is the issuance.
* **Micropayment.** `Invariance` proves `IndInv` = `TypeOK`, `LedgerInv`,
  `PaidAsSigned`, `SessionsOfOpenChannel`, `NoncesFresh`. `PaidAsSigned` alone is
  not inductive: that a claim is the first of its session rests on the marks of
  the open channel, and that the marks tell everything the channel has paid
  rests on a new channel having a nonce for which nothing was paid. From it:
  `TypeCorrect`, `PaymentsAreSigned`, `SessionsBelongToChannel`,
  `NoncesAreFresh`, `IssuanceConserved`.
* **Refinement.** `Refinement`: `Spec => ImplementsSessions`; the round of a pair is
  the nonce of the open channel, or else the next nonce. `DurationHonoured` proves
  `NoEarlyExpiry` under `NoWrap` (no duration overflows), by the invariant
  `DeadlineKept`.
* **Claims.** `MarksArePayments` (`MarkedAsPaid`) and `PaymentsAreInTime`
  (`NoLatePayment`) are action properties. They need `ChannelInv` beside `IndInv`:
  an open channel has two different ends, so that the transfer of a claim adds
  to the receiver's free balance, and its expiration is not after its opening
  plus the duration asked for. The second half needs no `NoWrap`: a remainder is
  never larger than the number, so that wrapping and saturation only shorten.
* **Erc20.** `IndInv` adds `FreshToken` and `CreatedFresh` to `SupplyAccounted` and
  `DrawnWithinApproved`: a new token's balances must start at zero.
  `SupplyIsAccounted`, `DrawsAreApproved`, `TokensStayUnique`, `TokensStartFresh`,
  `TokenTypes`.
* **DeeperNode.** `IndInv` = `LedgerInv`, types, `DepositsAccounted`, and that an
  account whose device was reaped has nothing stranded: without the last,
  registering again would not tell the old deposits from the new one. From it
  `DepositsAreAccounted` and `DevicesAreBacked` (`DepositHeld`).
  `NoServerTwice`: `NoDoubleAdd`, from lemmas on removing from and appending to a
  sequence of distinct elements; the invariant `ListInv` adds that a device has a
  known country, whose list `unregister_device` updates. `DeviceTypes`: `TypeOK`.

* **Disciplined clients.** `ServerInv`: whoever is on the list of a country has
  that country in its details. It is stronger than `ListMatchesDevice` and
  `ServersAreRegistered` together, and it is what makes `unregister_device` leave
  the only list the device can be on. From it `ServersHaveDevices`,
  `ListsMatchDevices` and the refinement `DevicesFollowLifecycle`:
  `DisciplinedSpec => ImplementsLifecycle`, with the sets of the lists as the
  mapping. `DepositsReturned` (`DepositReturned`) rests on `DepositInv`: `IndInv`, and
  nothing is ever stranded.
* **Transactions.** `OncePerLife` follows from `IndexInv`: the index of an account
  counts what it has executed in its present life, in the order of nonces.
  `BirthInv` says that a transaction was born in a block of its phase before the
  current one; with the arithmetic of eras (`BirthIsLast`, `BirthIsUnique`,
  `BirthIsKnown`, `MortalBirth`) it gives `ExecutionsInEra`, `ErasAreHonoured` and
  `WorkersCanSign`, for every `BlockHashCount` from 2 to 2^16, quantized eras
  included. `PeriodBounds` is where "the biggest period possible" is needed:
  the period is at most `BlockHashCount` + 2.
* **Runtime.** `RuntimeInv` is `LedgerInv`, the types of the devices and
  what is in reserve (`Accounted`, as in the proofs of DeeperNode). `OneLedger` shows that the two instances and the runtime mean
  the same ledger operations, so that the theorems on Balances apply;
  `TransferEffect`, `ReserveEffect` and `FeeEffect` say what each operation does to
  one account. `RuntimeConserves`, `RuntimeDeposits`,
  `RuntimeAccountsDeposits` (`DepositsExact`), `NobodyElseSpends`
  (the action property `SpentAsSigned`, for any calls of any accounts), and
  `VotesAreWorth`, which is arithmetic from `Conservation`: nobody holds more than
  the issuance. The proofs do not use when a call fails (`Accepted` is ENABLED,
  which the prover does not treat): a failed call is a step that changes
  nothing, whether or not another outcome was possible.
* **Channels within the runtime.** Every step of the runtime is a step of the
  micropayment pallet or leaves its storage alone (`OtherStepsKeepChannels`,
  `MicropaymentCallIsStep`); what the ledger keeps in the second case is
  `RuntimeInv`. So the pallet's `IndInv` is an invariant of the runtime
  (`PaymentInvariance`), and the results that users of a channel rely on hold
  of the composed system: `RuntimePaysAsSigned` (`PaidAsSigned`),
  `RuntimeMarksArePayments` (`MarkedAsPaid`), `RuntimeHonoursDurations`
  (`NoEarlyExpiry`, under `NoWrap`) and `RuntimeRefinesSessions`: fees, deposits,
  devices and failed calls do not show through the abstract payment sessions.
* **Node.** `NodeTypes` and `NetworkIsLast` (`NetworkStartsLast`), from `NodeInv` =
  `TypeOK`, and that a started network means that no step is left. That is a
  fact about the step lists, `StepsOfConfiguration`: in those of `new_full` and
  `new_light`, for every role and option, `start_network` stands last and nowhere
  else. `TaskExits` may empty `tasks` at any time and does not matter.
* **Genesis.** `GenesisCanBeBuilt` proves `GenesisBuilds` for any number of added
  validators and any amounts that cover the stakes. `GenesisInv`: no account has
  two balance entries, every entry belongs to a seed that has been used, the
  i-th staker, session key and invulnerable are the same validator, its stash
  has an entry that covers its stake. `GenesisBuilds` alone is not inductive: an
  appended entry replaces an earlier one of the same account, which only the
  freshness of the generated secrets excludes. `GenesisAssumption` states that
  freshness: `subkey generate` yields none of the development seeds.

Only model-checked: the liveness properties (`VoterFailureStopsService`, and
the refuted `ChannelsClose`), since TLAPS does not treat fairness here. Every
invariant and every action property that a passing run checks is a theorem.

## 5. Not modelled

* The transaction pool, tips, weights and how a fee is computed: every
  extrinsic pays the same `Fee`. The library pays it with KeepAlive, so a fee
  never reaps an account.
* The calls of library pallets other than `Balances::transfer`, among them
  `sudo` and `utility.batch`, which dispatch other calls.
* erc20 within Runtime: it shares no state with the other pallets.
* Staking, session, BABE and GRANDPA are libraries; this repository configures
  them and adds no logic.
* Cryptography and encodings; device addresses; token names.
* rpc, command line, scripts, weights: they keep no state; see `PROJECT.json`.
* A debug build would trap where `duration * 1000` overflows; the release
  build, whose profile does not enable overflow checks, wraps.

## 6. Plan

Done: Ledger, Balances, Timestamp, Micropayment with its abstract specification
and refinement, Erc20, DeeperNode with its life cycle and refinement,
Transactions, Runtime with Template and the votes, NodeService, Genesis; the
safety properties of all of them proved, and those of the channels also for
the runtime as a whole.

Next:

1. The lists of DeeperNode (`NoDoubleAdd`, and the life cycle for disciplined
   clients) carried over to Runtime as the channels are.
2. `utility.batch` as a call of Runtime: several calls of one extrinsic, of which
   one fails and the earlier ones stay.
