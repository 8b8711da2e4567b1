------------------------------- MODULE Genesis -------------------------------
(***************************************************************************)
(* Chain specifications: development_config and local_testnet_config of    *)
(* node/src/chain_spec.rs, and private_chain/chain_spec_gen.py, which adds *)
(* a validator with freshly generated keys to a specification. A key pair  *)
(* derived from a seed is named by the seed, the one of "<seed>//stash" by *)
(* Stash(seed). Amounts are in whole DOLLARS, 10^14 units.                 *)
(***************************************************************************)
EXTENDS Functions, Sequences, Naturals

CONSTANTS
    NewSeeds,      \* the secrets that `subkey generate' comes up with
    Endowment,     \* 1 << 60 units
    STASH,         \* 100 DOLLARS
    GenBalance,    \* 9000000000000000099999 units
    GenStake       \* 10000000000099999 units

\* The development accounts
LocalSeeds == <<"Alice", "Bob", "Charlie", "Dave", "Eve", "Ferdie">>

\* Whoever is endowed can bond what it stakes, and no generated secret is the
\* name of a development account.
ASSUME GenesisAssumption ==
    /\ STASH \in Nat /\ Endowment \in Nat \ {0} /\ STASH <= Endowment
    /\ GenStake \in Nat /\ GenBalance \in Nat \ {0} /\ GenStake <= GenBalance
    /\ NewSeeds \intersect Range(LocalSeeds) = {}

Account(seed) == <<seed, "controller">>
Stash(seed) == <<seed, "stash">>

VARIABLES
    spec,    \* the genesis part of the chain specification
    used     \* the secrets generated so far

genesisVars == <<spec, used>>

Map(Op(_), s) == [i \in 1 .. Len(s) |-> Op(s[i])]

-----------------------------------------------------------------------------
\* The stakers: stash, controller, amount at stake
Staker(seed) == [stash |-> Stash(seed), controller |-> Account(seed), stake |-> STASH]
\* Session keys are registered for the stash.
SessionKeys(seed) == [validator |-> Stash(seed), babe |-> seed, grandpa |-> seed]

testnet_genesis(initial_authorities, root_key, endowed_accounts) ==
    [balances |-> Map(LAMBDA a : [account |-> a, amount |-> Endowment], endowed_accounts),
     sudo |-> root_key,
     keys |-> Map(SessionKeys, initial_authorities),
     validator_count |-> Len(initial_authorities) * 2,
     minimum_validator_count |-> Len(initial_authorities),
     stakers |-> Map(Staker, initial_authorities),
     invulnerables |-> Map(Stash, initial_authorities)]

development_config ==
    testnet_genesis(<<"Alice">>, Account("Alice"),
                    <<Account("Alice"), Account("Bob"), Stash("Alice"), Stash("Bob")>>)

local_testnet_config ==
    testnet_genesis(<<"Alice", "Bob">>, Account("Alice"),
                    Map(Account, LocalSeeds) \o Map(Stash, LocalSeeds))

-----------------------------------------------------------------------------
GenesisInit ==
    /\ spec \in {development_config, local_testnet_config}
    /\ used = {}

\* The balance entries that chain_spec_gen.py appends: both of the keys.
Funded_controllerOnly(seed) == <<[account |-> Account(seed), amount |-> GenBalance]>>
Funded(seed) == <<[account |-> Account(seed), amount |-> GenBalance],
                  [account |-> Stash(seed), amount |-> GenBalance]>>

\* chain_spec_gen with the keys of gen_keys; -s makes the new key the sudo
\* key. The validator counts stay what they were.
chain_spec_gen(seed, is_sudo) ==
    /\ seed \notin used
    /\ used' = used \union {seed}
    /\ spec' = [spec EXCEPT
          !.balances = @ \o Funded(seed),
          !.invulnerables = Append(@, Stash(seed)),
          !.stakers = Append(@, [stash |-> Stash(seed), controller |-> Account(seed),
                                 stake |-> GenStake]),
          !.keys = Append(@, SessionKeys(seed)),
          !.sudo = IF is_sudo THEN Account(seed) ELSE @]

GenesisNext == \E seed \in NewSeeds, is_sudo \in BOOLEAN : chain_spec_gen(seed, is_sudo)

GenesisSpec == GenesisInit /\ [][GenesisNext]_genesisVars

-----------------------------------------------------------------------------
\* The free balance that an account has at genesis: pallet_balances inserts
\* the entries one by one.
GenesisBalance(a) ==
    LET entries == {i \in 1 .. Len(spec.balances) : spec.balances[i].account = a}
    IN IF entries = {} THEN 0
       ELSE spec.balances[CHOOSE i \in entries : \A j \in entries : j <= i].amount

\* However many validators the script has added, the genesis block can be
\* built: every stash can bond its stake and every controller and the sudo
\* account exist, nobody is a staker or in the session twice, and the
\* stakers, the session keys and the invulnerables are the same validators,
\* enough of them for an election.
GenesisBuilds ==
    /\ \A i \in 1 .. Len(spec.stakers) :
          /\ GenesisBalance(spec.stakers[i].stash) >= spec.stakers[i].stake
          /\ GenesisBalance(spec.stakers[i].controller) > 0
    /\ GenesisBalance(spec.sudo) > 0
    /\ IsInjective(Map(LAMBDA s : s.stash, spec.stakers))
    /\ IsInjective(Map(LAMBDA s : s.controller, spec.stakers))
    /\ IsInjective(Map(LAMBDA k : k.validator, spec.keys))
    /\ IsInjective(Map(LAMBDA k : k.babe, spec.keys))
    /\ Map(LAMBDA s : s.stash, spec.stakers) = spec.invulnerables
    /\ Map(LAMBDA k : k.validator, spec.keys) = spec.invulnerables
    /\ spec.minimum_validator_count <= Len(spec.stakers)
=============================================================================
