# Arcane: a verification project

TLA+ models of the Arcane programs, the TLC runs that check them on small
instances and the theorems TLAPS checks for every instance. `PROJECT.json`
lists the components, the runs, the lines of code behind every definition
("map"), the hazards and the theorems. Run everything in this directory:

    tlc -workers 2 -config Betting.cfg MCColosseum.tla
    tlapm ColosseumTheorems.tla

## 1. The system

Arcane is an arena of trading agents on an EVM chain whose native currency is
USDC: Solidity contracts that hold the money, Python services around them, and
a web front end.

| component | state it keeps | operations | hard behaviour | what makes it correct |
|---|---|---|---|---|
| `Colosseum.sol`, the arena | duels, bets, stakes, escrows, prize pools in one USDC balance | register, announce, report, resolve, bet, inject, sponsor, claim, setters | several duels and registrations interleave; rounding; resolve is permissionless; settings change under way | solvency, a balanced book, a final outcome, every escrow and stake finds its payee, every duel ends |
| `BondVault.sol`, agents' bonds | bonds, counter-bonds, the activity clock, the pause | post, release, counter-bond, slash, approve, poke, rescue, admin | owner, oracle, agents and strangers interleave; pausing | solvency, nobody profits from a slash, no pause and no oracle keeps a bond |
| `PerformanceOracle.sol`, verdicts | one advice per agent | recordAdvice, resolve (which calls the vault) | one transaction over two contracts; integer rounding; the agent may leave first | a verdict the price deserves, equal burning, a verdict that is due can be had |
| `AgentRegistry.sol`, `MemoryAnchor.sol` | agents and operators; append-only memory roots | register, recordAction, deactivate, anchor | identity NFTs change hands between calls | sequence, latest and history agree |
| Constitution stack (registry, validator, hook, executor, fallback, adapters) | rules of an account | define, install, validate, preCheck, postCheck, execute | one rule walk written three times; several rules of one kind; nested calls | a trade that breaks a rule never executes; all copies say the same; a child is not freer than its parent |
| `agents/duel_runner.py`, `arena.py` | block window of the poll, cycle counter, leaderboard | create, run_cycle, poll, resolve | lost cycles, polls and receipts, early resolve, superseded injections | what is scored is what the chain holds; nothing counts twice; duels get resolved |
| `agents/dark_pool.py`, `nonce_store.py`, `rate_limiter.py` | used nonces, token buckets, results | query, add, purge | concurrent requests between check and commit, restarts, expiry | what has bought an answer buys no second one while it is valid (on one server: none at all); a rejected request burns no nonce |
| `agents/memory_service.py`, `alice.py`, `bob.py`, `orchestrator.py` | weighted entries, a pinned set, an archive file; Bob and his descendants | seed, bootstrap, learn, decay, spawn a child, judge a trade | two writers of one file, a crash inside a save, ids that collide, heirs with capped memories | what is served was built whole; a rule is lost only to a later one of its name; what Bob predicts comes true |
| `agents/registry_api.py`, `agent_runner.py`, `scripts/seed_actions.py`, `anchor_memory.py`, `resolve_bond.py` | the memory of the process; a stop event | publish (memory, then chain), resolve (oracle, then registry), cycles over agents | the second step fails; one key, several processes; requests choose ids, oracle and address | the feed shows no more than what happened; one agent's failure costs the others nothing |
| `agents/provision.py`, `agent_wallet.py`, `scripts/run_arena.py`, `scripts/lib/chain.py` | keystores, identity sidecar, the key's nonce | spawn, fund, mint, approve, register; sign and wait | failure between steps, two processes with one key, receipt timeouts | nobody is paid twice, no funded key is lost, a pool is what its files say |
| clients, operations scripts, deployment, TypeScript tools, web UI | none, or external | | | not modelled (section 8) |

Calls: spectators and developers call `Colosseum`; the duel runner is its
recorder and reads its `ChaosInjected` events; the registry API and
`resolve_bond.py` call `PerformanceOracle`, which is the `oracle` of
`BondVault`; the dark pool sells what the memory service finds, and the API
writes to a memory of its own; `MemoryAnchor` receives memories' Merkle roots.
The contracts of an account that has a constitution judge the calls Bob builds.

## 2. Plan

Done: `Coins`, `Colosseum` and its proofs; `Parimutuel`, the abstract book each
duel implements, with the proof that it does; `BondVault` and `PerformanceOracle`,
composed, with the proofs of both; `DarkPool` with proofs; `DuelRunner` over
`Colosseum`, with proofs, that it implements it among them; `ChainSender`, with
`Provision` and `Registry` over it and proofs of both; `MemoryService` and
`Constitution`, with `Orchestrator` over both and proofs about the archive, the
memories and the constitutions.

Next, in this order:

1. Installing and uninstalling a constitution as actions, with nested calls
   between `preCheck` and `postCheck`.
2. Bob's budget against his payments, over `DarkPool`.

## 3. Modules

| module | what it is |
|---|---|
| `Coins` | `Total(f, S)`, the sum of amounts over a finite set, without recursion: the number of unit coins |
| `Colosseum` | `contracts/src/Colosseum.sol` |
| `Parimutuel` | what one duel's betting promises, without the contract's bookkeeping |
| `ColosseumProps`, `MCColosseum` | properties, the refinement of `Parimutuel`, and the instances TLC checks |
| `BasicLemmas`, `ColosseumTheorems` | lemmas about numbers and sums; proofs about the duels, the money and the refinement |
| `BondVault`, `BondVaultProps`, `BondVaultTheorems` | `contracts/src/BondVault.sol`, its properties, and the proofs of vault and oracle |
| `PerformanceOracle`, `PerformanceOracleProps`, `MCPerformanceOracle` | `contracts/src/PerformanceOracle.sol` composed with the vault, properties and instances of both |
| `DuelRunner`, `DuelRunnerProps`, `MCDuelRunner`, `DuelRunnerTheorems` | `agents/duel_runner.py` and `agents/arena.py` over `Colosseum`; properties, instance, proofs |
| `DarkPool`, `DarkPoolProps`, `MCDarkPool`, `DarkPoolTheorems` | `dark_pool.py` with `nonce_store.py` and `rate_limiter.py`; properties, instance, proofs |
| `MemoryService` | `memory_service.py` as operators on a memory |
| `Constitution` | the constitution contracts and adapters, and what `bob.py` predicts of them, as operators |
| `Orchestrator`, `OrchestratorProps`, `MCOrchestrator` | `alice.py`, `seed_alice.py`, `bob.py` and `orchestrator.py` over those two |
| `OrchestratorTheorems` | proofs about the constitutions, the archive and the family's memories |
| `ChainSender` | `scripts/lib/chain.py` over a node's mempool |
| `Provision`, `ProvisionProps`, `MCProvision`, `ProvisionTheorems` | `run_arena.py` up to its round, `provision.py`, `agent_wallet.py`, over `ChainSender` |
| `Registry`, `RegistryProps`, `MCRegistry`, `RegistryTheorems` | `AgentRegistry.sol`, `MemoryAnchor.sol` and the four programs that write to them, over `ChainSender` |

**From contract to module.** A transaction is atomic, so one action is one
external function with everything it calls; each `revert` is a guard and a
transaction that reverts changes nothing, so it is no step at all (except in the
modules of the senders, where a mined revert uses up a nonce). A mapping is
a function over the keys of the instance, with the value Solidity gives an
unwritten key. `block.timestamp` is `now`, which `Tick` advances between
transactions. The USDC token is external: it is the function of its balances,
a transfer needs the payer to have the amount, and allowances are taken as
granted. Arithmetic is unbounded, but for the vault's window and timeout (below):
Solidity 0.8 reverts on overflow, and amounts are far below 2^256 (an `unchecked`
block appears nowhere in these contracts).
Subtraction is always guarded, as the checked subtraction is.

`Colosseum` keeps a duel's struct as one function per field. `resolve` contains
`_closeOutStake` for both agents and both prize transfers; when one developer is
behind several payments they add up. Its conditions, those of its transfers
included, are `MayBeResolved`. `onlyRecorder` is not modelled as an
identity: the recorder may do what it may do at any time, and no property relies
on the recorder being honest about scores. Assumed: the treasury is a person and
not the contract itself, and nobody sends tokens to the contract outside its
functions (a donation would only add to what it holds).

`BondVault` keeps the struct `Bond` as one function per field, without
`lastActivitySignal`, which the vault only hands back to the checker; the checker's
answer is an input. A slasher is any account that is or was the oracle. `setOracle`,
the windows, the checker and the pause take any of the values of the instance, which
for window and timeout are a shorter or the first one and one that the clock never
reaches. The ends of window and deadline are checked additions, so they revert beyond
`MaxUint` (`WindowFits`, `DeadlineFits`): the one overflow that an owner can bring
about.

`PerformanceOracle` extends `BondVault`: its contract account is one of the
slashers, which calls the vault only from `resolve`. `SlashAsOracle` is the
top-up (`postCounterBond`) and `slash` of the one transaction; `Slashed` takes
the token and counter-bond balances the top-up leaves. `MayResolve` gathers every
condition of that transaction, the vault's with it. Pyth is external:
whoever records or resolves brings an update, and the price it makes fresh is
any of `Quotes`. Solidity's signed division is `Quotient`, which truncates
towards zero.

`Parimutuel` has no `paidOut` rule, only what a bettor may rely on: at least the
whole units of a fair share, never more than the pot, the pot empty after the
last winner, or everybody's own stake when nobody won. `ColosseumProps!Book(d)`
is its instance for duel d, with the phase computed from status and clock.

`DuelRunner` extends `Colosseum` with the recorder's process; its actions are
the steps between which the world can change: register, create, the wait for
trading, a poll, the two reports of a cycle, the anchors, the waits, the resolve.
`mode` is the driver: `arena` is `Arena.run` as `run_arena.py` assembles it
(errors are caught per duel), `cli` is `duel_runner.main` with `--resolve` (an
error ends the process). A send returns after its effect, or raises without one,
or raises after one, when only the receipt was lost (`Raised` inside a report
that counted, `ReceiptLost`). `hand` is the injection of the cycle by target:
the latest of the polled window, as the dictionary built from the events keeps
it. `since`, `minedAt` and `faulty` are history. An agent's decision is
its direction and whether the chaos flipped it; the market is a constant of the
instance. One block is mined per unit of time. The arena's clock for a duel starts
when its creation is mined; `main`'s `t0` is taken before the creation is sent, so
`cli` sets its clock in the step before, and time may pass until the duel is there.

`DarkPool` is a set of servers, each a process with one event loop, that share a
SQLite file. From the end of `await request.json()` a handler never gives the
loop away (the limiter's `asyncio.Lock` is never held across an `await`, so
taking it does not suspend), so a server has one request at a time and `stage`
is its place in the handler: `TakeUp` is `_validate_payment` up to the clock it
reads and the fields it compares; `Admit` is its look into the nonce table, then the
rate limit and `/add`'s check of the trace; `Check` and `Insert` are the two
statements of `_commit_nonce`; `Respond` is the answer or `memory.add`. The stages in
between are `timely`, `admitted`, `fresh` and `committed`, and between these steps
other servers, the clock and a crash (`Restart`) may come. A request that is
refused without a trace is no step; one that is refused by the limiter is,
because it refills the bucket. `Restart` keeps the table (SQLite commits each
statement) and starts with the purge of `_lifespan`; the limiter and the memory
start afresh. An authorization is the record that was signed; its `domain`
stands for chain id and verifying contract, and signature recovery is taken to
find the signer. A bucket holds whole tokens and `now` counts whole seconds, as
`int(time.time())` does. The traces of the file a memory is loaded from are not
among `Traces`. `served`, `lost` and `grants` are history, used by properties
only.

`MemoryService` has no variables: a memory is a value (its centroid and its entries by
trace) and the service's methods are operators on it. A weight `exp(-f)` is kept as
`f`, so decay adds and eviction compares; a code is the text with the centroid it was
centred on; the Merkle root is what its leaves hash, with SHA-256 taken to be
injective. `Orchestrator` has two processes over one archive file: the seed command
and the demo that hosts Alice and Bob. `save` is three steps (`Open` truncates
`mem_path.tmp`, `Write`, `Replace`), and an open handle follows its file through the
other's rename, so two writers can mix what they write (`mixed`); `Crash` may come
between any two. The six demo steps are the actions `SpawnBob` to `SpawnChild`, in any
order, as `run_demo_step` allows; the steps that `_stepN` runs when it finds no query
yet are part of its action (`Asked`, `Family`). `agents` is the line from Bob down:
each with its rules and its memory. What a query ranks first is any entry of
`Hits`. An archive has a version, which stands for its seed, its embedding model and
the rules of the code that built it: `Corpora` gives the texts and rules of each,
`Ours` is the demo's, `Seeds` what the seed command may be told (`--seed`, `--model`),
`Kept` the whole archives that were there before. `bootstrap` loads any readable
archive that is long enough. `AnchoredRoot` is the root that `step_decay_check_pinned`
and the anchor tool compute from the file.

`Constitution` has no variables either: a constitution is a sequence of rules
and the contracts are predicates of rules and calls. `Validate`, `PreCheck` and
`Execute` are written out separately, as the contracts are, and give the kind of
the first rule that stops the call, or why the call cannot be judged
(`Malformed`, `MissingRequiredAdapter`). Calldata is kept as its selector, two
numbers and whether the body is whole, which is all that the walks tell apart.
`Classify` is Bob's own prediction over rule dicts, whose missing fields get the
defaults of the code (`Field`, `DefaultBound`, which differ between the encoder
and the prediction). `Evidence` is what the demo script concludes from an
`eth_call` and a transaction, each of which the node may answer, refuse or lose.
`Meaning` gives a rule of `Orchestrator` its dict, and `OnChain` is what the
registry receives of it.

`ChainSender` splits a send into the calls it makes: `Sign` reads the pending nonce,
`Broadcast` offers the transaction, `Mined` takes one from the pool in the order of
nonces, `Receives` finds the receipt of its own hash. Between them another process
with the key may read the same nonce; the node then refuses the second transaction or
lets it replace the first. `BroadcastRaises` may have reached the node all the same,
and `WaitRaises` leaves the transaction pending. `Provision` lets several launchers
run `acquire_pool` on it with one operator key and one keystore directory: `job` is
where a launcher is among the four transactions per agent (transfer, mint, approve,
register); `identities.json` is read, overlaid, truncated and written in separate
steps, as `save_identities` does without a lock. `Registry` has the API, the runner,
the seeder and the anchor tool with the one key; the API answers one request at a
time, because its handlers block the event loop. A client may choose the trace id of
its advice (`TraceIds`; else it is derived from the trace), and a memory has one entry
per id, with its place among all that were added. It also names the oracle and the
address of the advice that is to be resolved (`Questions`), while the outcome is
recorded for the agent of the route. What `resolve` comes to is open, since prices and
bonds are `PerformanceOracle`'s matter: the configured oracle reverts, burns or
approves, and once advice is settled it reverts; another contract may also succeed and
say nothing, which counts as a release. `feed` and `verdicts` are the events; from the
configured oracle's the directory computes reputation. A process keeps its memory only
while it lives (`Keeps`), and an action on the feed bears the start of the process
that sent it.

## 4. Runs

| run | instance | what it asks |
|---|---|---|
| `Betting` | 1 duel, 3 bettors, bets of 0, 1, 2 | every order of bets, both winners, claims: `PotAccounting`, `WinnersKeepTheirStake`, `ImplementsParimutuel` |
| `Arena` | 2 duels, shared agents, forfeits, sponsors, re-registration by others | `LiveDuelsHaveDevelopers`, `OutcomeIsFinal`, `ResolveHandsOutEverything` |
| `Chaos` | 2 duels that may share agents, 2 injections, half the price to the treasury | `EscrowsReachTheirTarget`, `EveryDuelResolves` |
| `Tuning` | 1 duel, every setter with legal and illegal values | `TypeOK`, `Solvent` |
| `Verdicts` | 1 agent, verdict contract and another oracle in turn, 5 quotes, 2 thresholds; checker and pause changed at will, window and timeout shortened, restored or raised for good | the vault's `VaultSolvent`, `NobodyProfits`, `BondsComeHome`, and `FundedVerdictsGoThrough`, `VerdictsMatchThePrice`, `VerdictsMoveTheMoney` |
| `Payments` | 2 servers, 3 authorizations over 2 domains, 1 trace, a bucket of 1 | `AnsweredIsSpent`, `NoncesBurnOnlyForService`, `PaidTracesStay`, `BurstBound` |
| `Duels` | both drivers (the `cli` clock runs before the duel is mined), one pair, 2 injections, every poll and send may fail or lose its receipt | `InjectionsCountOnce`, `StandingsMatchTheChain`, `LatestPolledIsScored`, `CleanDuelsAreResolved`, `RunnerFinishes` |
| `Memory` | seed command (two seeds) and demo on one archive, older archives, 2 crashes, 3 rules, 2 extra rules, one child | `ServedMemoryIsWhole`, `SavesAreAtomic`, `AliceComesUp`, `OnlyNamesakesAreLost`, `AnchoredRootIsServed`, `PredictionsComeTrue`, `ChildrenAreNoFreer` |
| `Provision` | 2 launchers, 4 keys, pools of 2, 3 starts, two stake requirements | `FundedKeysAreOnDisk`, `PaidOnce`, `ProgressIsOnChain`, `PoolsAreWhole` |
| `Registry` | every pair of the four programs, chosen ids, 3 questions, an identity that changes hands, a stranger | `PublishedIsKnown`, `OutcomesAreVerdicts`, `AnchorsAgree`, `RunnerServesEveryone` |
| `Reuse`, `NoVerdict` | see section 5 | each ends in the counterexample to a comment |

**Bounds.** Bounds appear in guards marked `bound`, so a bounded step simply does
not happen; `LastPost` and `MaxAdvice` end the posts and advices early enough for
time to run out after them.

- Amounts are single coins: three bettors with 1 and 2 coins on both
  sides give every case of rounding (a remainder, a sweep by a second or a third
  claimant, an empty side), which is what the book's arithmetic distinguishes.
  Two duels suffice for what one duel can do to another, since their only shared
  state is the pair of agents, the balance and the injection ids. Time needs one
  instant per boundary (`tradingStartsAt`, `endsAt`), posts one before and one
  after the window. `MaxReports` and `MaxFailures` bound counters only; a
  threshold of 1 reaches forfeits.
- `Verdicts`: the prices 3 and 2 differ by 3333 1/3 bps, the
  threshold 3333 lies a third of a basis point below, and one quote's confidence
  band is exactly as wide as its loss. A window or timeout of 4 outlasts the clock and
  stands for longer than anyone waits; with `MaxUint` 4 it also overflows for a bond
  that was posted, or found alive, after the first second. One agent, because bonds of different
  agents meet only in the token balance, which the proofs cover for any number.
- `Payments`: the clock passes every `validAfter` and `validBefore`, so that
  purges and refusals fall on, before and after the second of expiry, and two
  servers suffice for one to be overtaken by the other at each step.
- `Duels`: a duel of two or three units, so that there are scheduled cycles,
  straggler cycles and a wait; two injections, so that one can supersede the
  other in one window or fall into two. `BettingPeriods`, `TradingPeriods` and
  `Returns` are what the process asks of the contract (`CallsAssumption`); the
  contract's other inputs are not used, its other callers being left out. The
  `cli` waits exactly as long as its duel takes (`Buffer` 0), so that a creation that
  is mined a second late is one its wait does not cover. What
  happens after the process's end is the contract's own business and not
  explored.
- `Memory`: archives that are absent or torn, too short (`SeedSizes`), of another
  seed, or of an older version with other rules; one answer to questions (`Hits`);
  `MaxCrashes` 2, so that a save of either process dies; one seed command at a
  time. The demo's steps, which touch no file, are tried while the seed command
  is not running (`Ready`): their interleaving with it changes nothing.
  `Generations` 2 is Bob and a child. The extra rules are one that shares its
  name with an inherited cap and one that does not; `Calls` has one call for each
  kind of rule, with and without its adapter, and `Amounts` a transfer exactly at
  the cap; 5 times the cap and the demo's 50 USDC are always judged.
- `Provision`: the stake requirement is fixed per behaviour, once payable and
  once more than a launcher approves. Three starts are two that overlap and one
  after either.
- `Registry`: two starts, which may be any two programs or one program twice, and
  three starts and API requests together; at most two pending transactions; at most two
  anchors, and the identity changes hands or strangers anchor only where no program but
  the anchor tool has been started (nothing else reads anchors). Two traces, one
  of whose ids a client may give to either; three questions: the
  operator's advice and another's at the configured oracle, both outstanding at first,
  and another contract. Strangers resolve only the operator's; a burn of it takes the
  bond that registering needs (`Ruinous`). The runner makes one cycle, with a resolve
  in it, for two agents.

**Deadlock.** `Betting`, `Arena`, `Chaos`, `Duels`, `Memory`, `Provision`,
`Registry` and the runs that end in a counterexample set
`CHECK_DEADLOCK FALSE`: when time has reached its bound, everything is claimed or
every program has ended and may not start again, nothing is left to do. The
other runs always have an enabled step (a setter, a request).

**Fairness.** `Chaos`: weak fairness of `Tick` (blocks keep coming) and of
`resolve(d)` for each duel, which is permissionless and which the arena and `scripts/`
call until it succeeds; it holds continuously once a duel is over, because nothing un-
ends a duel. `Verdicts` (`FairRelease`): `Tick` and `Home(a)`, the agent taking its
bond by whichever of `release` and `releaseToOperator` is open to it; nothing is
assumed of the owner, the oracle or other rescuers. `NoVerdict`: `Tick` and someone
resolving with a fresh price. `Duels`: the process keeps running (`Runner`, which
includes the failures of its calls: every call has a timeout) and time passes; nothing
is assumed of spectators and strangers, nor of any call's success. `Memory`: an
operator starts the demo again when it is off, and a process that runs takes its next
step; crashes are bounded. `Registry`: the runner's process runs on, with whatever
outcome of its calls, as long as they return; nothing is assumed of the chain. The
calls of `main` do: they have timeouts. Only `_cast_run` (`chain.py:107-113`), which
`resolve_bond` reads the fee with, has none, and `main` fills no `agent_addrs`, so it
never gets there. `Provision` has no liveness property and no fairness: whether a
launch ends is not asked.

**Mutations.** Some definitions are preceded by a plausible mistake in the same
code (`PayoutWithoutSweep` before `Payout`, `PostCheckFirst` before `PostCheck`).
Nothing uses them; `PROJECT.json` "mutants" says which property of which run
fails when one takes the definition's place, which shows the property can see
that mistake.

## 5. Where the code and its comments part

Two runs end in a counterexample to what the code says of itself.

| run | comment | what the code does |
|---|---|---|
| `Reuse` | `run_arena.py:188-189`: reused agents "are already minted/registered/staked" | a pool is accepted by its keystores and identities, but resolving the round it played closed its agents out: `createDuel` reverts until they register again |
| `NoVerdict` | `PerformanceOracle.sol:41`: anyone can "pull the verdict" after the horizon | when the agent has released its bond, `resolve` reverts for ever, and the advice blocks the next |

Others, met while modelling; the models follow the code.

- `Colosseum.sol:74-77` "an agent runs one duel per registration": `createDuel`
  (`:317`) checks only that both are registered. `Arena` and `Chaos` show what
  this does not break: money stays accounted for when an agent fights twice, is
  closed out by the first resolve and registered again by somebody else.
- `Colosseum.sol:303` "trading ... runs for the next `tradingSecs`":
  `reportCall` looks at the status only, and `injectChaos` checks only the start,
  so calls are scored before trading, and calls and chaos taken after `endsAt`
  until someone resolves. `fundPrizePool` (`:565`) takes money for a resolved
  duel, which nothing pays out.
- `BondVault.sol:75` without a checker "every agent [is] alive": `isAgentAlive`
  is then time-only; with a timeout shorter than the release window a rescue
  opens before the release does.
- `BondVault.sol:231-232` has `release` open to agents "trying to rescue their funds".
  A pause does not keep a bond, nor does a raised window alone: after the liveness
  timeout the agent can call `releaseToOperator`. But the owner may raise both
  (`:186-194`, no bound), or raise the window while a checker finds the agent alive;
  and a window so long that `postedAt + releaseWindow` overflows makes `release`
  revert also where the oracle has approved (`:238`), which `BondsComeHome` excludes.
- `duel_runner.py:587-588,620`: the `cli` counts its last wait from before the create
  is sent. A create mined more than the three seconds of its buffer later makes the
  resolve of a duel in which nothing failed come before `endsAt` and revert, which
  is what the wait is for (`arena.py:111-113`); `CleanDuelsAreResolved` speaks of
  duels that the wait covers (`WaitCovers`).
- `_validate_payment` reads the clock (`dark_pool.py:637-640`) before the nonce table
  (`:752-758`). With two servers on one database the other's purge may delete the row of an
  answered authorization in between, in the second it expires; it is then admitted
  again. `AnsweredIsSpent` has that limit, and one server alone is safe
  (`OnePaymentOneAnswer`).
- `arena.py:190-192` "a Flashbang fired anytime — including the final gap — gets
  polled and scored": one of the last interval comes after the last poll, and a
  cycle that fails after its poll loses what it polled.
- `agent_runner.py:383-388`: `main` never fills `agent_addrs`, so every resolve of
  `--resolve-every` raises, where `README_arena.md:86` has one fired every fifth
  cycle. `_make_advice` (`:84-86`, "never the same string twice") repeats itself
  every 40 cycles and one template every 5.
- `agent_runner.py:195-199` records `QUERY_PAID` also when no paid query
  ran (`AgentRegistry.sol:78`). `BOND_RELEASED` is recorded when a verdict only
  approves the release. `seed_actions.py` counts as emitted what it has no
  receipt of. If the record after a verdict fails, its outcome never enters the
  feed; `resolve_agent` does not look at that receipt's status.
- `resolve_agent` records for the agent of the route what it learned about the address
  of the request (`registry_api.py:561-573`), so the feed can show an agent the outcome
  of another's advice, or of a contract that is no oracle; a call that succeeds
  without `AdviceResolved` is recorded as `BOND_RELEASED` with a return of 0
  (`:577-581`). `OutcomesAreVerdicts` therefore counts by question, not by agent.
- A client may choose `trace_id` (`registry_api.py:298,507`), and `memory.add` replaces
  what has the id (`memory_service.py:344`): later advice with it, also advice whose
  record then fails, takes the place of advice that is on the feed.
- `MemoryAnchor.sol`: `latestRoot(0)` is not "equivalent to `rootOfIdentity`" for
  identity 0.
- `provision.py:169-175` accepts a funding equal to the stake, though its message
  asks for stake plus gas. `save_identities` merges with what it read, which two
  launchers can both do before either writes.
- `memory_service.py:78-82` calls the drift of the anchored root across boots gone.
  Alice's own build (`alice.py:289`) sets no centroid and the seed command's does, so
  the root of the same rules still depends on which of the two wrote the archive.
- `Alice.bootstrap` counts the entries of the archive it finds (`alice.py:205-207`): a
  whole archive of another seed, model or set of rules is served as hers if it
  is long enough. `ServedMemoryIsWhole` says that it is one whole build.
- `bob.py:642-643` "constitution must transfer intact": an extra rule of
  a child with the `rule_id` of an inherited rule, or without one and of its kind, is
  pinned under the same trace (`:552`, `:622-626`) and replaces it in the child's memory.
  `OnlyNamesakesAreLost` says that no rule is lost otherwise. The rules that the
  child publishes keep both.
- `demo_e2e.py:838-850` anchors the root of the archive. It is the root of the memory
  Alice serves only while both are built around one origin: if the file is built
  anew by the other program, the root is another's (`AnchoredRootIsServed`).
- Constitution: the hook's comment (`ConstitutionHook.sol:27-31`) has postCheck
  enforce the trade cap, but of several caps it knows the last one (`:173`); a
  child with a looser extra cap is bound by that one after the fact, which is why
  the second half of `ChildrenAreNoFreer` assumes that caps tighten.
  `ConstitutionValidator.sol:366-368` "we skip silently" reverts instead. The
  encoder takes a missing `max_usdc` for 1 (`bob.py:190`), the prediction for 0
  (`bob.py:772`), which is why `PredictionsComeTrue` asks for caps that are
  spelled out. `default_bob_rules` (`orchestrator.py:79-82`) has a
  leverage rule without adapter, which the registry refuses; only `demo_e2e.py`
  wires one. The demo takes any revert for the violation it expects: where the
  installation failed, which it does not look at (`demo_e2e.py:803-813`),
  `NotInstalled` passes for `MAX_TRADE_SIZE`; `EvidenceIsTrue` therefore speaks
  of an account whose constitution is installed. A receipt that does not come
  ends the script although its comment (`chain.py:601-604`) has the evidence of
  the `eth_call` kept: `TimeoutError` is no `RuntimeError`.

## 6. What is proved

From the assumptions named in each module (agents, people, slashers and servers
are finite sets, contracts are none of them, bounds and inputs are of their
types; an agent is in one pair of the arena, `FieldAssumption`; the durations and scores
the runner sends are among the inputs of `Colosseum`, `CallsAssumption`), for any
number and amount of each.

| theorem | says |
|---|---|
| `TypeCorrect` | `Spec => [](TypeOK /\ Roster)` |
| `PrizesHavePayees` | `LiveDuelsHaveDevelopers` and `StakesAreReleasable` always hold |
| `OutcomesAreFinal` | `OutcomeIsFinal` |
| `ResolutionHandsOutEverything` | `ResolveHandsOutEverything` |
| `BookIsBalanced` | `PotAccounting` always holds |
| `ContractIsSolvent` | `Solvent` always holds |
| `WinnersNeverLose` | `WinnersKeepTheirStake` always holds |
| `EscrowsArriveWhole` | `EscrowsReachTheirTarget` |
| `BettingIsParimutuel` | `ImplementsParimutuel`: every duel's betting implements `Parimutuel` |
| `NothingBlocksAResolve` | a duel that is over can always be resolved: no coin and no payee is ever missing, for prizes, stakes and escrows |
| `DuelsWaitForAResolve` | a live duel keeps its end, within the clock's bound, and stays live until `resolve` |
| `VaultTypeCorrect` | `VaultTypeOK`, and a bond is on file only for the agent itself (`SelfFunded`) |
| `VaultIsSolvent` | `VaultSolvent` always holds |
| `NobodyEverProfits` | `NobodyProfits` |
| `TheVaultAlwaysPays`, `TheVaultAlwaysPaysUnderVerdicts` | any bond and any counter-bond are in the vault together, without and with the oracle |
| `VerdictsAreTyped`, `VerdictsKeepTheVaultSolvent`, `NobodyProfitsFromVerdicts` | the same three of the vault with its oracle |
| `VerdictsAreFair` | `VerdictsMatchThePrice` |
| `VerdictsMoveExactly` | `VerdictsMoveTheMoney` |
| `FundedVerdictsAreNeverBlocked` | `MayResolve` holds exactly when the horizon, the price, the oracle's office, the pause, the bond and the oracle's money allow it; so whenever the hypotheses of `FundedVerdictsGoThrough` do |
| `RunnerDrivesTheContract` | `RunSpec => Spec`: the duel runner implements the contract's specification |
| `RunnerKeepsTheContractsPromises` | so all of the above about the arena holds under `RunSpec`: `Solvent`, `PotAccounting`, `WinnersKeepTheirStake`, `LiveDuelsHaveDevelopers`, `OutcomeIsFinal`, `ResolveHandsOutEverything`, `EscrowsReachTheirTarget`, `ImplementsParimutuel` |
| `CleanResolvesAreAccepted` | where nothing raised and the wait covers the duel, the contract takes the runner's resolve unless somebody was first |
| `CycleReportsAreAccepted` | a report of a live duel names a duelist and an injection against it that can be settled |
| `InjectionsCount` | `InjectionsCountOnce` always holds |
| `StandingsAreReal` | `StandingsMatchTheChain` always holds |
| `LatestIsScored` | `LatestPolledIsScored` always holds |
| `CleanDuelsEnd` | `CleanDuelsAreResolved` always holds |
| `PoolTypeCorrect` | `PoolTypeOK` always holds |
| `AnsweredStaysSpent` | `AnsweredIsSpent`: what was answered is not admitted again before something under its nonce has expired |
| `OnePaymentOneAnswer` | with one server, no authorization is answered twice (`EachPaymentBuysOneAnswer`) |
| `NoncesAreBurntForService` | `NoncesBurnOnlyForService` always holds |
| `PaidTracesAreKept` | `PaidTracesStay` |
| `BurstsAreBounded` | `BurstBound` always holds |
| `LaunchersAreTyped` | the types of launchers, keys, files and mempool, and what each stage knows |
| `FundedKeysAreSafe` | `FundedKeysAreOnDisk` always holds |
| `AgentsArePaidOnce` | `PaidOnce` always holds |
| `ProgressIsReal` | `ProgressIsOnChain` always holds |
| `PoolsAreComplete` | `PoolsAreWhole` always holds |
| `ProcessesAreTyped` | the types of the four programs that write to the registry |
| `PublishedAdviceIsKnown` | `PublishedIsKnown` always holds |
| `OutcomesStandForVerdicts` | `OutcomesAreVerdicts` always holds |
| `AnchorsTellTheSame` | `AnchorsAgree` always holds |
| `CopiesAgree` | validator, hook and executor give every call the same verdict under every constitution the registry accepts |
| `SpecPredictionsComeTrue` | `PredictionsComeTrue` always holds |
| `SpecChildrenAreNoFreer` | `ChildrenAreNoFreer` always holds |
| `ArchiveIsTyped` | files are absent, torn or whole builds; `mixed` tells who was interfered with |
| `AliceServesOneBuild` | `ServedMemoryIsWhole` always holds |
| `AnchoredRootIsAlices` | `AnchoredRootIsServed` always holds |
| `SavingIsAtomic` | `SavesAreAtomic` |
| `OnlyNamesakesTakeRules` | `OnlyNamesakesAreLost` always holds |
| `FamilyRootsAreStable` | the pinned root of Bob and of each descendant never changes |

Theorems that name no property of section 4 are proved and not checked by a run of
their own.

**The arena.** `LiveDuelsHaveDevelopers` is not inductive: that `createDuel`
finds developers needs "registered agents have one", that a close-out harms no
other live duel needs "the developer stays on file", and that ids above
`duelCount` are unused is needed for the new duel. `Roster` is the conjunction.
The book: `PotAccounting` needs to know that nobody has claimed from a duel that
is not resolved and that unused ids hold no bets (`Unclaimed`); the step that
matters is `claim`, where `paidOut * W <= winClaimedStake * T` survives
truncation, and the sweep makes it exact. Solvency adds `FreshEscrows` (an id
not yet sold holds nothing) and splits the obligation into stakes, escrows,
prizes and pots; each action moves the balance and exactly one or two of the
four sums by the same amount, through the lemmas of `BasicLemmas` on how a
total changes with one entry (`TotalChange`, `TotalRemove`, `TotalMember`).
`WinnersNeverLose` then follows from the book (the payout is at least the stake)
and solvency (the contract holds the rest of the pot). `EscrowsArriveWhole` and
`BettingIsParimutuel` are about steps. For the first, each action either leaves an
injection alone, creates it, reports it, or settles it to both payees at once. For
the second, every action is mapped to a step or a stutter of `Parimutuel`: a bet
deposits, `resolveDuel` locks the book in, a claim pays, a sweep closes. It needs
one more invariant, `Timed`: no duel ends before its betting closes, so the book
that is locked in is one that takes no more bets.

Liveness is out of the prover's reach, what it stands on is not.
`EveryDuelResolves` needs that time reaches the end of a duel
(`DuelsWaitForAResolve`: nothing puts the end off) and that `resolve` is enabled
from then on until it happens (`NothingBlocksAResolve`). The second combines most
of what is known: a prize has a payee because live duels have developers, and the
coins are there because stakes, escrows and prize pools are summands of the
balance and `HandedOut` is exactly the prize pool and the stakes of two different
agents (`HandsOutItsMoney`, `BalanceCovers`). What is left to TLC is the fairness
argument over these two.

**The vault.** Every step is one of five kinds (`MoneyStep`): it moves no money,
an agent's own coins into or out of its bond, an owner's own coins into or out of
its counter-bond, it burns equal parts of a slasher's counter-bond and an agent's
bond, or it does so with a counter-bond posted in the same transaction
(`BurnsInHand`: a verdict of the oracle). One lemma per operation shows which;
both money properties then follow from the kind alone. The one that needs an
invariant is the rescue: it pays the `operator` on file, so it is harmless only
because that is never anybody but the agent (`SelfFunded`). With the oracle,
`VerdictInv` adds that advice on file is typed and that no counter-bond of the
oracle stays in the vault (`NothingPosted`); `VerdictsAreFair` is then arithmetic:
the truncated quotient of `resolve` is beyond its threshold exactly when the
products the property compares are. `FundedVerdictsAreNeverBlocked` is the guard
of `resolve` simplified: with nothing posted, the top-up is the whole slash, the
counter-bond then equals it, and the vault holds the bond (`ClaimsAreCovered`,
from solvency) besides the top-up, so both legs are there; advice on file has
something to slash (`AdviceHasStakes`), so a bond that covers it is not empty when
it passes.

**The duel runner.** A step does one of six things to the chain (`ChainStep`);
what the process needs of each is stated once, so that the proofs do not look into the
contract again. `RunInv` has the types and the duels of the process on the chain:
the current one is the last of the list, every duel is between its own pair, and
injections are held in the three stages of a cycle only. The rest comes in four
layers. `CleanInv`: while nothing has raised and the wait covers the duel (always in
the arena, `WaitCovers`), the process wakes from the last wait
no sooner than `endsAt`, so a resolve that the contract refuses was a stranger's
before it. `StandingsInv`: standings plus the reports that have not joined them yet
(`Recorded`) are what the contract counts, and an agent that has not fought has
nothing on either side; this is where an agent in two pairs would break the
leaderboard, whose lines are kept by agent. `BlocksInv`: events are mined in the
order of their ids, none before the block being built, and the window of the polls
lies before it. On it rest `CountInv` (reports counted plus one that is pending are at
most the injections the window has passed; a poll that finds one passes at least
one more) and `LatestInv` (of those passed by this duel's polls the latest is
settled or pending). `InjectionsCountOnce` alone is not inductive, because a
report that is pending may still raise the count.

`RunnerDrivesTheContract` maps each step of the process to the step of `Colosseum`
it causes, or to a stutter. Most are the contract's action by construction; what
has to be shown is that the process calls it with arguments of the contract's
`Next`: its duel is in `DuelIds`, the reported agents and injections exist, and
the score is among `Returns`, for which the cycle of a report must lie within the
market's horizon. `CycleInv` bounds it: a step is within the steps of the run, and
a straggler cycle is counted in both `step` and `extra`. Every theorem about
`Spec` then holds of the runs of the process (`RunnerKeepsTheContractsPromises`),
and two more follow from `NothingBlocksAResolve` with the process's own
invariants: that its resolves are accepted (`CleanInv`: it does not come too
early) and its reports too (`HandsAreTheirs`: what it holds for an agent was
bought against that agent).

**The dark pool.** `AnsweredStaysSpent` rests on `SpentInv`: as long as no
authorization under its nonce has expired, the row of one that was answered, or is
committed, is in the table (`Remembered`). The purge removes a row only when
`expires_at <= now`, which is when `_validate_payment` calls an authorization expired
(`valid_before <= now`); let it purge a second earlier and the proof (and the run)
fails. "Under its nonce" is needed because `INSERT OR IGNORE` keeps the expiry of
whoever came first. The theorem is about admission after an answer. It does not say
that two servers that work on one authorization at the same moment cannot both answer:
`has` and `add` are two statements, and the lock around them is that of one process.
With one server no purge falls between its look at the clock and its look at the
table: `OnePaymentOneAnswer` (whatever clients sign) rests on `OneAnswerInv`, which
says that what the server has admitted is unanswered, that what was answered and is
still valid has a row with its own expiry, and that what was found timely, if it was
answered, has a row. `PaidTracesAreKept` needs that a trace found free stays free
until the write (`TracesAreFree`), which is where "one request at a time" enters.
`BurstsAreBounded` is proved from `BurstInv`: what was granted since any earlier
second, plus the tokens still in the bucket, is at most a full bucket plus the refill
since then. It is about every window at once, so a grant now is charged to all windows
that end now (`TotalChange` again), and the clock only adds refill.

**Provisioning.** `TypeInv` says what each stage of a launcher knows. `FundInv` is
about coins: pools of two live launchers share no wallet (`PoolsDisjoint`), what a
launcher has not sent yet has not happened (`UnsentAreUntouched`), nothing happens
for an agent without a whole keystore (`UnbornAreUntouched`), no call is in two
transactions (`CallsAreUnique`), and an agent is paid at most once and then has no
transfer left on the way. `PaidOnce` alone is not inductive: that a second
transfer is never sent needs all five. `ProgressInv` ties the launcher's counter
to the chain: calls below it have happened, and a good receipt is of a call that
did. `FilesInv` says that what `identities.json`, when whole, and a launcher's memory
say of an agent's identity is what the chain minted, and that whoever is in the
file has registered.

**The registry.** All steps but the chain's own are steps of one process (`ProcStep`),
which says what a step may do to the other processes, the pool, the feed and the
verdicts; one lemma per action shows it. `MemoryInv` follows a record from the process
that makes it through the pool to the feed, and its advice, or what took its id later,
is in memory all the while, until that process starts anew: places only grow
(`Keeping`). `LedgerInv` counts, for each line of the books (a kind of outcome and a
question), records on the feed, records on their way and processes that owe one:
together never more than what the programs' own calls said to that question.
`OutcomesAreVerdicts` is the first summand. `AnchorInv` adds that the latest record of
an account is that of its history's end.

**The archive and the memories.** `ArchiveInv` says that no file and no memory ever
holds a part of a build of whatever version, other than a torn one (`WholeBuilds`),
and that a writer whose temporary file was taken or overwritten is already counted in
`mixed` (`TellTale`); both mention the other writer's file handle, because a rename
moves the file under it. Alice may serve any readable archive that is long enough
because it is one whole build, whose entries are counted (`WhatIsBuilt`,
`UsableIsEnough`); the root she anchors is the build's, since its origin tells the
version and decay takes no pin (`DecayKeepsRoot`). `FamilyInv` is `Lineage` with the
constitution of every agent found among its memories, rule by rule where no later rule
has the name. The rules of a child are added one at a time by a recursive function,
`after` in `WithRules`; that it pins every rule, over what has its name, is shown by
its least counterexample (`WithRulesPins`). Clones, decay and lessons leave that part
of a memory steady.

**The constitutions.** The inductive invariant is `Lineage`: every agent's rules
are a sequence of known rules, and every child's are its parent's with extra
rules behind them. It is needed because both properties compare agents that
different steps have made. What a constitution stops is the first rule that does
not say OK, so the lemmas reason about the least index of a non-empty set of
naturals (`LeastNat`): two walks agree when they agree rule by rule
(`CopiesAgree`; a rule without its adapter is where they would not, and the
registry accepts none), a longer constitution says OK only where a shorter one
does (`ExtrasOnlyForbid`), and Bob's prediction, which never looks at adapters,
is right for a transfer because no adapter decodes one (`LabelsAreTrue`).
`LastCapBinds` is the half about the outflow: the last cap is the least of them
when caps only tighten. `OversizedIsRefused` shows that five times the first cap
breaks it whatever the cap, zero included. The theorems speak of every sequence
of rules with the dicts of `Meaning`, any calls and any amounts; from
`OrchestratorAssumption` they use that rules have dicts and bounds are naturals.

## 7. What is only model-checked

Liveness (`EveryDuelResolves`, `BondsComeHome`, `RunnerFinishes`, `AliceComesUp`,
`RunnerServesEveryone`) is beyond the prover; section 6 says what of the first is
proved. `FundedVerdictsGoThrough` speaks of `ENABLED`, which is too: that the guard
of `resolve` holds under its hypotheses is a theorem
(`FundedVerdictsAreNeverBlocked`), that the rest of the action only assigns is
what TLC evaluates. Every other property of the passing runs is a theorem.

## 8. Not modelled

Whole components: the deployment script, whose parameters are initial states here;
the TypeScript tools and the web front end, which are clients of external
services and render chain state; `x402_client.py`, `duelist.py` and `embedder.py`,
linear code around HTTP and model calls; the remaining operations scripts
(`preflight`, `docs_to_skills`), which read and report.

In the contracts: events as such, views, `reportReasoning` (it only emits one),
ERC-20 allowances outside provisioning, the Pyth fee and its refund, reentrancy
(every function that pays out is `nonReentrant` or changes its state before it
pays), the transfer of the vault's ownership, `AgentRegistry.deactivate`. Of the
constitution stack: installing and uninstalling, who may call the modules, how the outer
calldata is decoded, nested calls between `preCheck` and `postCheck`, which token
is the balance token, the fallback module and the Drift adapter (which refuses
short calldata that the other two pass on).

In the services: embeddings, similarity and RaBitQ vectors, which are
floating-point arithmetic, and the rounding of prices and weights; Bob's budgets;
the chaos that tests inject without polling; runs of `duel_runner.main` without
`--resolve`; the encryption of keystores; fees and calldata of transactions. In the
dark pool: the migration of old database files (which drops their nonces), a loss
of power (`synchronous=NORMAL` may forget the last commits), a wall clock that
steps back, an exception inside `memory.query`, the in-memory store
(`agents/README_darkpool.md:154` still describes that one), and the app mounted
under the registry API, whose `_lifespan` never runs (no purge: rows then only
stay longer).
