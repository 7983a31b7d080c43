# Nicegram/Hydra: specifications and proofs

Hydra is a routing and exchange layer around a Telegram client: phones proxy their
traffic through a relay or through other users, share bandwidth and are paid for it,
use premium routes on credit, exchange USDC for fiat through an escrow contract, and
read Telegram through a feed that a local language model shortens. This directory models
the parts of it that keep state in TLA+, checks the models with TLC on small instances,
and proves the main facts about seven of them for every instance with TLAPS: both contracts with
the app's clients, the relay's sessions, its transport and quota, Share & Earn, the credit ledger, the proxy with the
provider metrics, and the mesh with route discovery and circuits.

Paths below are relative to the repository. `PROJECT.json` maps every definition to the
lines it stands for.

## 1. The system

| Part | Source | State | Operations |
|---|---|---|---|
| Deal board | `contracts/src/HydraDealBoard.sol` | offers, escrows (`Funded → Sent → Completed`, `Funded → Rejected`, `Funded`/`Sent → Expired`), USDC it holds | create and deactivate an offer, accept, mark sent, confirm, reject, claim expired |
| Route book | `contracts/src/HydraRouteBook.sol` | route offers with a USDC stake | create, deactivate, withdraw after a delay, `submitSlashClaim` (an event) |
| Token and ERC-8004 registries | `contracts/src/mocks/` | balances, allowances, agent owners, feedback | transfer, approve, transferFrom, transfer of an agent, giveFeedback |
| Exchange clients | `hydra-exchange/`, `hydra_mobile/rust/src/api/exchange.rs` | none between calls | send a transaction and wait for its receipt, list a table entry by entry |
| Relay worker, provider sessions | `hydra-relay-worker/src/index.ts` (`HydraProviderSession`) | provider socket, consumer socket, `providerReady`, byte count, buffer | accept a provider or consumer, WebSocket events of both, hibernation |
| Relay worker, quota | same file (`checkAndUpdateQuota`) | a record per device and day in a KV store | ask, report |
| Relay worker, dealer profiles | same file | one KV record per profile | signed write, read |
| Transports | `hydra-core/src/transport/` | permits, ECH cooldown | queue, try the endpoints, TCP, TLS with or without ECH, WebSocket |
| Proxy | `hydra-core/src/lib.rs`, `connections.rs` | connection registry, proxy mode, a task per connection | accept, choose a plan, connect, copy, charge, close, gc |
| Route discovery | `hydra-core/src/discovery.rs` | cache of the route book's offers | poll, parse, merge, score, sort |
| Onion router | `hydra-core/src/onion.rs` | none after the call | build a circuit hop by hop |
| Peer-to-peer layer | `hydra-p2p/` | announcements, requests under way, tunnels | publish, diagnose, open and serve streams |
| Credit ledger | `hydra-econ/src/credit.rs`, `hydra_mobile/rust/src/credit_runtime.rs` | account records in sled, a local state file | status, usage, trial, nudge, merge into the Telegram user's account |
| Provider metrics | `hydra-econ/src/provider.rs`, `provider_runtime.rs` | a record per agent with what is not reported yet | record a session, sync to the reputation registry |
| Share & Earn runtime | `hydra_mobile/rust/src/provider_runtime.rs` | state file per profile, `SHARE_RUNTIME` mutex with the task's handle | enable, disable, settings, status; the task: connect, announce, serve, end |
| Mobile runtime | `hydra_mobile/rust/src/api/simple.rs`, `vpn.rs`, `model_manager.rs` | statics of the process, the tunnel's token | prepare, start, set the mode, start and stop the tunnel, activate a model |
| Mobile screens, VPN service | `hydra_mobile/lib/`, `android/.../*.kt` | saved settings, shown state, VPN interface | `main()`, connect button, settings |
| Content feed | `hydra-content/`, `hydra_mobile/rust/src/api/content.rs` | engine, login tokens, attention file | login, list, read, summarise, record attention |
| Routing policy, deal agent | `hydra-ai/` | the model behind a mutex | choose a deal, decide a route |

How they interact. The **proxy** asks the **credit ledger** what a connection may use and
charges it afterwards; it asks **discovery** for routes, which come from the **route book**
and from **peer-to-peer** announcements; a relay-backed route leads through the
**transport** and the **relay worker** to the **Share & Earn** task of another phone, and the
worker counts its bytes against the **quota**. What a session through a route was worth goes into the
**provider metrics** and from there to the reputation registry, which discovery reads. Deals
are made on the **deal board** by the **exchange clients**; both contracts use the same USDC
and agents. The **mobile runtime** owns all of this in one process, which Android may
rebuild the screens of, or kill. The **content feed** and the **routing policy** share one
language model.

What is hard about it, and what makes each part correct:

* **Contracts.** Transactions of different senders in any order, deadlines met by two
  transactions in one block, a dealer who disappears. Correct when the contract owns what
  it owes, pays the entitled party once, reputation agrees with outcomes, and no USDC is
  locked for ever.
* **Exchange clients.** Receipts whose status nobody looks at, tables that change between the
  awaits of a listing, awaits that fail with the transaction already sent. Correct when an
  Ok has left its mark on the chain, an id returned is one's own, and no lasting entry is missed.
* **Relay sessions.** The object handles other events while it awaits the quota store;
  sockets close, close late, or are replaced; the platform evicts the object. Correct when
  frames reach their own target, in order and once, no byte is charged twice, and a session
  is given up when either end is gone.
* **Transport and quota.** A queue for permits, endpoints that fail in turn, a retry without
  ECH, read-modify-write over an eventually consistent store. Correct when every call returns, a
  failure means that everything was tried, and nobody is charged for more than was carried.
* **Share & Earn.** Calls and a background task, on threads of their own, load, change and
  rewrite the same file with no lock, a mutex is held while the task is awaited, the app is
  killed. Correct when there is one task, what is switched off is off, and calls return.
* **Credit ledger.** Load-save without transactions from several threads, kills between two
  saves and inside the save of the file that names the accounts, users who come and go.
  Correct when debt is not counted twice and covers the usage.
* **Proxy and metrics.** Routes that fail in turn, credit read before a session and spent after
  it, records saved by several tasks and a sync. Correct when Telegram traffic does not leak
  around the chosen mode, overspending is bounded, and each session is rated once.
* **Mesh, discovery, circuits.** Messages late, lost and reordered; requests given up and answered
  after all; an event loop that waits; refreshes that fail; hops that vanish. Correct when answers
  match requests, who stopped is forgotten, old offers are not used, unstaked routes do not
  displace staked ones, and a circuit is whole or taken down.
* **Mobile app.** `main()` runs twice in a process; calls into Rust run in no order, and each
  static is set by itself; stopping the tunnel races its start, and the service is destroyed
  some time after it stopped itself, or started again by the system. Correct when the saved
  mode is in force, screens see one node, and off is off.
* **Content feed and model.** Mutexes held over the network and over each other; a login in
  steps; a file rewritten in place; free text from a model. Correct when locks are handed on,
  a login step has its token, attention is kept, and choices keep the agents' rules.

## 2. The modules

| Module | Models | State and actions against the code |
|---|---|---|
| `BaseChain` | block clock, `MockUSDC`, agent ownership | one action is one transaction; a revert is a disabled action |
| `Sums` | — | sums of a sequence of terms (`SumTo`) and over a finite set (`SumOver`) by recursive functions, usable by TLC and by the prover |
| `DealBoard` | `HydraDealBoard.sol` | one action per external function, first argument `msg.sender`; `offers` and `escrows` are sequences, their ids positions; `feedback` is the registry's count and sum per agent. `Init`, `Next` and the like are prefixed `Board` here and `Book` below, so that one module can extend both. What a function requires is an operator of its own, `Can...`, which the action and the clients' gas estimates share |
| `RouteBook` | `HydraRouteBook.sol` | likewise, `routes` |
| `Custody` | abstract: what either contract promises about deposits | `held` per deposit and `pot`; each contract's proofs and runs map it to this |
| `HydraChain` (extends `DealBoard`, `RouteBook`) | both contracts on one token and one clock, at different addresses (`TwoContracts`) | a step of either leaves the other's table alone |
| `ExchangeClient` (extends `HydraChain`) | the app's clients of both contracts: `deal_client.rs`, `client.rs`, `api/exchange.rs` | a call per wallet, one step per await: configuration, gas estimate (`Accepted`: the `Can...` of the function called; a creation beyond the bounds reverts here), send, receipt, answer; `Ok` comes without a look at the receipt's status |
| `RelaySession` | `HydraProviderSession`, the provider runtime's end, a consumer's end | fields of the object under their names; a queue per direction and socket; `AskForProvider` / `RefuseConsumer` / `AcceptConsumer` are the two halves of `acceptConsumer` around its await; `FromProvider`, `FromConsumer` the WebSocket handlers by message. `AcceptProvider` may replace a live socket, that of another device of the agent; one that an evicted object has forgotten is not replaced but left beside, which is left out |
| `RelayQuota` | `checkAndUpdateQuota` and its callers | per connection: ask, carry, read, write; a day's record keeps every value written, a stale read picks any |
| `RelayTransport` | `transport/wss.rs`: permits, endpoints, ECH and its cooldown | per caller an `attempt` with its stage and endpoint; `permits` and `line` are the fair semaphore |
| `DirectRelay` | composition of the last two | the upgrade reaches the worker (`handleDirectConnection`), which asks for the quota; an answer may come too late |
| `ShareRuntime` | the switch, the task, the state file, `SHARE_RUNTIME` | one step from one await, or one access to the file, to the next; `call` and `task` carry a program counter and the copy of the state they loaded. A save is two steps: it cuts the file (`torn`) and fills it; between them a load fails, and saves that overlap may leave a mixture that no load can parse |
| `CreditLedger` | `CreditLedger` and `resolve_anchor_context` | one step per access to the database or file; `call` holds the loaded record. A save of `credit_state.json` cuts the file and then writes it; a kill in between makes the next start mint a new installation id and salt, and `orphaned` keeps what is owed under the old anchors |
| `Proxy` | `handle_connection`, `ConnectionRegistry`, route choice | one step per await; `task`, `registry`, `debt`; the mode may be one the code does not know, which goes direct |
| `ProviderMetrics` (extends `Proxy`) | `ProviderMetricsLedger`, `sync_pending_reputation_internal` | load and save of a record are two steps of a task; a sync lists, sends and marks |
| `Mesh` | the event loop of `hydra-p2p` | per node a loop that is free, or waits for a TCP connection; commands in a queue, requests, gossip that may be lost or late |
| `RouteDiscovery` (extends `Mesh`) | `discovery.rs` | the poll with its RPCs, the cache, and `CurrentRoutes` (parse, merge, score, sort) as an operator |
| `Tunnels` (extends `Mesh`) | `build_circuit`, `handle_incoming_tunnel` | one position per hop; names go down a stream, answers come up |
| `MeshNode` | composition of the last three | which tasks run depends on the script |
| `DealAgent` | `hydra-ai` decisions | pure operators: eligibility, ranking, the choice, the fallback of `decide_route`; no variables, and no recursion |
| `AiNegotiator` (extends `DealAgent`) | `SHARED_AI`, the engine's mutex, model download and activation | a tokio mutex is a queue whose first element holds it |
| `ContentFeed` (extends `AiNegotiator`) | `CONTENT_ENGINE`, login, list, summarise, attention file, the two screens | a call holds the engine's mutex across the network |
| `NodeRuntime` | statics of `simple.rs`, `credit_runtime.rs` | a launch of `main()` has a stage per await, and sets the statics of `services` and of `handles` one per step (`Sets`); a value says by whose call it was made |
| `VpnTunnel` | `connect_screen.dart`, `MainActivity.kt`, `HydraVpnService.kt`, `vpn.rs` | one queue per channel (activity, intents, screen); `token` is the cancellation token. A stop makes the service stop itself; `onDestroy` is a later step of its own, revocation another, and a sticky restart an intent that nobody sent. A device has one interface; a tunnel that is cancelled closes its own |
| `MobileApp` | composition of the last two, with the saved proxy mode | `main()`, settings, connect button |
| `MC...` | instances for TLC | symmetry sets, values that a cfg cannot write, and in `MCHydraChain` (`used`), `MCProxy` and `MCMobileApp` (`explored`) which part of the composition a behaviour explores |
| `SumProofs`, `ContractProofs`, `RelayProofs`, `ShareRuntimeProofs`, `CreditLedgerProofs`, `ProxyProofs`, `MeshNodeProofs`, `AppProofs` | — | the proofs, section 5 |

Definitions whose comment starts with `Mutant:` are variants of the definition after
them, in the manner of a plausible mistake. No specification uses them: for each checked
property `PROJECT.json` names one that, put in the place of the definition, makes the
property fail under the same configuration.

Abstractions common to the modules: amounts and times are small integers with the widths
that matter as constants (`U64`, `MaxUint`); a name, an address or a payload is a model
value; JavaScript or Dart between two awaits is one step, and so is a transaction; Rust
between two awaits is one step where a mutex or the absence of other tasks on the same state
makes it so, and is split at each access to a file or database where nothing does; a WebSocket
is two FIFO queues that end with `gone`. Time, crashes, evictions, the outcome of every
network operation and the language model's reply are free choices.

Some properties are about a part of the behaviours, or of the data, that a ghost variable
singles out, because the code promises no more. Each is false without its condition, and
section 4 says what then happens:

| Ghost | Says | Used by |
|---|---|---|
| `ShareRuntime!orderly` | calls came one after the other, as the screen's `_busy` (`providers_hub.dart:94-113`) makes them, and the app was not killed; the task still saves over the calls, and they over it | `DisabledDoesNotShare`, `OffIsShownOff` |
| `CreditLedger!overlap`, `fault` | calls overlapped; something failed or was killed | `DebtCountedOnce` |
| `CreditLedger!orphaned` | what was owed under anchors lost with a killed save of the state file | `DebtCountedOnce` |
| `ProviderMetrics!disturbed` | of each agent, the sessions that were being added, pending or reported when two accesses to its record overlapped or a report was left in doubt; all others are counted right, before and after (`due`) | `SessionsRatedOnce` |
| `MobileApp!orderly` | the last setting of the mode began alone, and either the node was up or everything before was in turn | `SavedModeIsInForce` |
| `VpnTunnel!stray` | interfaces whose start and stop missed each other: they came to a screen that was off again, gone or not there yet, or the service forgot them with no stop on its way to their tunnel | `OffIsOff` |
| `ContentFeed!acked` | events the screens were told of since a write of the attention file was last torn | `AttentionKept` |

## 3. The runs

| Run | Question | Instance |
|---|---|---|
| `contracts` | Does each contract implement `Custody`, does the board give the dealer the whole window, pay and rate the right party, and does every escrow settle and every stake come free? | 2 users, an agent, 1 offer and 2 escrows of 1 or 2, or 2 routes; a clock to 2, a timeout and a delay of 1; one contract in use per behaviour |
| `rejection_feedback` | *violation*: does a rejected deal give feedback, as the manual says? | 2 users, 1 offer, 1 escrow |
| `exchange_client` | What can a caller rely on after an `Ok`, an id returned, a listing? | 2 users, one of them with the app, 1 deal offer, 1 escrow, 2 routes, a clock to 1 |
| `relay_session` | Are frames in order and bytes charged once through buffering, late control messages and evictions, and is every departure noticed? | 2 provider sockets, the second in place of the first when that is lost or while it lives, 2 consumers, a buffer of 2, 3 frames, evictions |
| `relay_session_targets` | *violation*: do frames only reach their own target? | 1 provider socket, 3 consumers |
| `direct_relay` | Is failure honest, does every call return, can anyone be overcharged? | 2 consumers, 1 sharer, 2 endpoints one of them invalid, 1 permit, a cooldown of 1, a quota of 2, 2 days, stale reads |
| `share_runtime` | Is there one task, is what is switched off off and shown so, do calls return? | 2 profiles, 3 calls of which 2 overlap, 2 task slots, 1 setting, every save in two steps, kills |
| `credit_ledger` | Is debt counted once, and does it cover the usage? | 2 users, 5 calls one at a time or 3 that overlap, kills at every access, inside a save of the state file too, database and disk errors |
| `proxy` | Is the mode respected, the overdraft bounded, each undisturbed session rated once? | 2 tasks; 3 connections over 2 configured and 2 discovered routes, every mode and target; or 2 sessions through the routes of 2 agents, and 1 sync |
| `route_discovery` | Do answers match, are the silent forgotten, is the cache recent, are circuits whole or taken down? | 2 nodes, a time to live of 1, a clock to 3, five scripts, a circuit from the phone to the provider and back |
| `mobile_app` | Is the saved mode in force, do the screens see one node, is off off? | 2 launches in one process, and the node with 2 modes and 3 changes, or the VPN with 3 presses |
| `content_feed` | Are locks handed on, do login steps have their tokens, is attention kept, do choices keep the rules? | 3 callers, 1 negotiator, 1 model, 2 events, five replies of the model |

**Why these bounds are enough to be of interest.** They are chosen so that every action
fires and the case each property is about happens; each property has a mutant that the run
catches within them. Two escrows are what it takes for one
payout to spend another's money; a second stake beside the first does the same for the book.
Amounts of 1 and 2 tell a wrong amount from a right one. In `contracts` a behaviour uses one of the
two contracts, with transfers, approvals and a sale of the agent around it; that they do not
touch each other is proved (`BothSolvent`). In `exchange_client` the wallet's owner
also acts outside the app (agents keep their owner there, and USDC moves for deals and stakes only), so its own transactions race the call's, and two routes are a table
that grows under a listing. Two provider sockets are a replacement, of a lost one or of a live one; two consumers are
one attached and one overlapping, and the violation run has a third that is late; three frames exceed the buffer. With one permit one
caller waits, and the invalid endpoint is skipped without a connection. Two days and a stale
read are what makes a report land on an old record. Two calls and two task slots let a second
task start before the first has ended, if the code allowed it; a third call comes after an
overlap, or between the switch and what the task then saves. Five calls of the ledger are: a session of
the installation, a login with its merge, a logout, another user's login, and what it meets.
Three connections with `MaxClosed = 1` make the cleaning remove an entry while others are
served, and with two tasks they overdraw the credit more than two sessions could if the
check were missing. Two agents are one whose report
fails or overlaps and one that must not notice; a behaviour of `proxy` saves no records or
explores only them, since the records change nothing in the tasks (`ProxyIsKept`). A clock of three ticks is an announcement that
ages past its time to live before and after the provider's end; the five scripts are diagnoses in both directions, a
list and a stream asked for, an announcement next to a discovery service, two announcements that may
arrive in either order, and a circuit with a diagnosis in between. Two launches are the process that survives its
activity; three changes are two that overlap and one that is made alone afterwards; three presses are a start, a
stop and a start again that meets what is left of both. The node and the VPN share the launches only. Three callers are what a cycle over the two mutexes and a waiter takes.

Bounds cap counters in guards: `MaxTime`, `MaxOffers`, `MaxEscrows`, `MaxRoutes`,
`MaxFrames`, `MaxDay`, `MaxBytes`, `MaxStarts`, `MaxCalls`, `MaxOverlap`, `MaxConns`, `MaxPresses`,
`Launches`, `Changes`. `CHECK_DEADLOCK FALSE` stands in the runs where these bounds, or consumers,
connections and presses that never come back, let the model stop; the chain never stops, since
users may transfer for ever, in `share_runtime` the app may always be killed, and in `content_feed` calls come again.
`relay_session` has the CONSTRAINT `ShortQueues`, three messages between the object and the runtime,
which is a ready with what was buffered, or an error, a close and the loss of the link; without it
the run passes as well (4.4 million states) but takes long. The theorems have no such bound.

**Fairness and why the code justifies it.**

* `HydraChain`: blocks keep coming, and an escrow that stays claimable is claimed by somebody.
  `claimExpired` is open to anyone and pays the buyer, who has every reason to call it. Nothing is
  assumed of dealers, and nothing of providers: `StakeComesFree` ends in `CanWithdrawStake`.
* `DirectRelay`: each stage of an attempt has a timeout, so each caller's dial and upgrade goes
  on. The wait for a permit is assumed nothing of: the semaphore is first come, first
  served, and its own timeout is one of the outcomes.
* `ShareRuntime`: the runtime polls calls and tasks; tokio's mutex is first come, first served,
  hence strong fairness for those who ask for it; `select!` is random, hence strong fairness of
  the stop branch; connecting has a timeout. Nothing is assumed of a session with a consumer:
  `handle_provider_session` does not look at the stop signal, so `CallsReturn` says that a
  call returns, or a task that was told to stop is for ever in a session.
* `MeshNode`: the loop of a running node goes on, opening a stream or a TCP connection ends, a
  request that is not answered fails in the end (libp2p gives it up), and the task of a tunnel
  is polled while its node runs. Nodes may stop at any time, and messages be lost.

**Symmetry** is used in runs with safety properties only (`relay_session`, `credit_ledger`,
`proxy`, `content_feed`).

## 4. What the runs found

Two statements of the repository do not hold, each with a run that shows it:

* `relay_session_targets`: two consumers that ask at the same time both pass the busy check,
  which comes before the await (`index.ts:533`). The second one replaces the first, whose
  target the runtime is already connected to; it ignores the second `connect`, and the
  second consumer's frames go to the first one's target. `SERVICE_MANUAL.md:123` promises
  addressing with `X-Hydra-Target`.
* `rejection_feedback`: `SERVICE_MANUAL.md:331` has "Reputation feedback via ERC-8004
  ReputationRegistry on completion/rejection". `rejectDeal` (`HydraDealBoard.sol:275`) settles the
  escrow without a feedback; only `confirmReceipt` and `claimExpired` give one, which is what
  `ReputationMatchesSettlements` says of the code.

Other things the models show the code does, without a run of their own:

*Share & Earn.* The calls and the task load, change and rewrite `ProviderState` with no lock
(`provider_runtime.rs:288-300`, `600-608`, `811-819`).
* Each save undoes what was saved since its load. `publish_announcement` saves the state it
  loaded before it awaited the publication: settings saved meanwhile are lost after the screen has
  said "Share settings updated." (`providers_hub.dart:248`). Calls that overlap can switch a
  profile on again that was switched off; hence the condition of `DisabledDoesNotShare`.
* `fs::write` cuts the file before it fills it. A call that loads it in between fails, the task
  ends with an error, and then the profile may stay shown as active without a task, or be switched on
  with none that tries to connect. A kill in between, or two saves that mix, leave a file that
  no later load can parse: every call for that profile fails from then on.
* After a kill a profile is shown as active until its task reports. What is shown as active need
  therefore not run, and no property asks for it; `OffIsShownOff` is the other direction.

*Credit and metrics.*
* `credit_state.json` is written in place (`credit_runtime.rs:395-399`). After a kill in
  the middle of a save, `ensure_local_state` (`353-363`) makes up a new installation id and a new salt.
  Every anchor changes, those of Telegram users too: what was owed stays in the database
  under anchors that nobody computes any more, and all credit starts anew.
* Calls that overlap may lose a session with its usage and its debt, or bring back a merged account:
  what is left still covers its usage (`DebtCoversUsage`), and no property asks for more. Overlapping
  merges, or one that is killed between its two saves, count an account's debt twice
  (`SERVICE_MANUAL.md:228` describes the merge as a transfer). What an installation uses after a
  logout stays on its own account.
* Two accesses to a provider's record that overlap, two sessions or a session and a sync
  (`provider.rs:56`), lose a session, or bring back what was reported, so that it is reported
  twice: a mark sets the pending amount to zero, whatever was added meanwhile. A feedback sent
  whose mark fails is sent again.

*Contracts and exchange.*
* An agent sold after its offer was posted is rated for the old owner's deals.
* `escrowTimeout` is truncated to 64 bits: the constructor takes 2^64, which is a window of
  zero. `WindowCorrect` is proved under `EscrowTimeout < U64`.
* No client looks at a receipt's status. For a call that changes an entry, `OkLeavesItsMark` shows how much
  an `Ok` is still worth, and its weak case: after `mark_sent` it may mean that the deadline passed
  meanwhile. A creation (`create_deal_offer`, `accept_deal`, `create_offer`) whose transaction reverts
  answers `Ok` with no id, and nothing has happened: the screen says "Escrow #? created"
  (`deals_screen.dart:123`). `OwnIdReturned` is about a creation that does answer with an id.

*Relay, transport, proxy.*
* The provider object forgets its fields when evicted. Closes are dispatched by role
  (`index.ts:484`): the close of a replaced provider socket, which comes after its successor has
  registered, unregisters that successor, which stays connected and offline, and closes the consumer attached
  to it. Bytes of a consumer whose provider leaves are dropped, not reported.
* A report that would exceed the quota is not recorded at all, and of two concurrent reports
  one may be lost: a device can carry more than its limit, never less. `quota.rs` has no caller,
  though `SERVICE_MANUAL.md:171` speaks of a periodic synchronisation.
* The proxy returns early when a failure reply cannot be written and leaves the registry
  entry active for good; `gc`'s comment speaks of an age, its code of a count.
* A mode the code does not know is `_ => direct()` (`lib.rs:603`): Telegram is contacted directly.
* An announcement overwrites the one remembered for its agent and endpoint whichever is older
  (`hydra-p2p/src/lib.rs:445`), so a provider whose announcements arrive out of order is dropped
  before the latest is too old.

*Mobile app.*
* When `main()` runs again in a process that lives on, `prepare_local_runtime` opens the credit
  databases once more and puts its services where the screens look, while the server goes on with its own:
  the screens and the server then write through different openings. sled's lock does not exist on
  Android; elsewhere the second opening fails and the screens keep the first.
* A start that fails leaves `NODE_STARTED` set: no later launch in that process starts a node.
* Changes of the mode that overlap with each other, or come while a launch's calls are under way, can
  leave the server in the mode of the earlier; the next one made alone puts it right.
* A stop that overtakes the start's answer, a screen that was left before the interface came, or a service
  that the system destroys some time after `stopSelf()` and a new start, or starts again by itself
  (`START_STICKY`, with no intent, which it takes for one to connect): the screen shows the VPN as
  off, and an interface goes on taking the device's traffic, perhaps with no tunnel on it (`stray`). Its
  tunnel, if there is one, is still the one the token cancels.

*Decisions and content.*
* `max_rate_premium` is read from the configuration and only printed (`deal_agent.rs:102`), while
  `SERVICE_MANUAL.md:29,334` lists it among the agent's limits.
  `build_circuit`, `decide_route` and the deal agent have no caller in the app.
* `send_code` takes the login token before the code is checked. After one wrong code the engine's
  state is `error`, but the screen goes on asking for the code, and every further one fails for
  want of the token.
* The attention file is rewritten in place; a kill or a full disk in the middle loses all of it.

## 5. The proofs

`tlapm` checks every proof to its leaves, from the assumptions on constants that the
modules name, and nothing else.

**`SumProofs`**: what `SumTo` and `SumOver` give: zero for nothing, natural for natural terms, at
least a part of it, what appending, inserting, removing and changing one term do. Induction over
the index cannot use the library's theorem, which takes an operator; `SetInduction` derives it for
sets from a least counterexample, and `SumIsRun` first shows that the recursive function is a
function that satisfies its equation. Over a set, `SumOver` takes the elements in an order nobody
knows: `SetRunExists` finds, by the cardinality, a function of the subsets that loses `f[x]` with any
`x`, and `SumOverIsRun` shows that `SumOver` is it, so the order does not matter.

**`ContractProofs`**, for any number of users, offers, escrows, any amounts and timeouts. It starts with
what both contracts need of the chain: a guarded transfer keeps balances natural, an allowance
that covers an amount can be reduced by it, and whatever a step of the chain does to a contract's
USDC is a gift and counted as one (`ChainStepGifts`). The board:

| Theorem | States | Argument |
|---|---|---|
| `BoardTypeCorrect` | `BoardTypeOK` | inductive by itself; balances stay natural because every transfer is guarded by the balance |
| `BoardIsSolvent` | `Solvency` | with the types: an acceptance appends a term to the sum and moves as much in; `Settle` drops one and moves as much out; a direct transfer is counted as a gift |
| `BoardCustodyKept` | `BoardKeepsCustody` (refinement of `Custody`) | initial states map to initial states, and every step, under `BoardTypeOK`, to a deposit, a payout, a gift or a stutter |
| `LifecycleCorrect` | `LifecycleRespected` | from `BoardTypeOK`, action by action |
| `PayoutsCorrect` | `EntitledArePaid` | only the three settlements close an escrow; `Moved` on both accounts |
| `WindowCorrect` | `DealerHasTheWholeWindow` | needs the strengthening `Deadlines`: `expiresAt = createdAt + EscrowTimeout` for every escrow, true because nothing is truncated when `EscrowTimeout < U64` and times stay below `MaxTime` |
| `ReputationCorrect` | `ReputationMatchesSettlements` | settling moves one escrow between two sets counted by `Cardinality`; offers keep their agent |

The book: `BookTypeCorrect`; `BookIsBacked` (`StakesBacked`), inductive with the types: a new
offer appends a term to the sum, a withdrawal sets one to zero and pays as much; `DisciplineCorrect`
(`StakesDisciplined`), from the types alone, one offer and one action at a time; and
`BookCustodyKept`, as for the board.

Both contracts on one chain: `BothSolvent`. Neither `BoardSpec` nor `BookSpec` allows the other
contract's transactions, so their theorems alone say nothing of `HydraChain`; `ChainInv`, the types and
both solvency invariants together, survives them because a contract moves USDC between users
and itself only (`BookLeavesBoard`, `BoardLeavesBook`), and its address is not the other's.

The clients, for any number of wallets, each with a call between any two awaits:

| Theorem | States | Argument |
|---|---|---|
| `OkCorrect` | `OkLeavesItsMark` | what an estimate has shown (`Seen`) stays true, and a transaction that reverts although it was seen has been overtaken (`RevertLeavesMark`): the only other reason, that the contract cannot pay, is excluded by its solvency |
| `OwnIdCorrect` | `OwnIdReturned` | the id in the logs is of the entry this transaction appended (`CallCreates`), and its terms stay (`CreatedKept`) |
| `ListingsCorrect` | `ListingsMissNothing` | `Listing`: what has been read and matches has been found, and an entry that exists never comes to match (`MatchingKept`) |
| `ContractsCanPay` | every open escrow and every stake can be paid | a summand is at most its sum (`EscrowCovered`, `StakeCovered`) |

Their invariant, `ClientInv`, joins `ChainInv` with `ClientsConsistent`: each wallet's call agrees with its
transaction and with what `Kept` preserves. `Kept` is what every step on the chain has in
common, whoever takes it: entries are never removed, their makers and terms stay, and they
only move forward. The assumptions are `TwoContracts` and `TextAssumption`: an amount the user types
is one a transaction can name, or refused (the powers of ten in `ParseUsdcAmount` mean nothing to the
provers, so the model's constants state the range of its results).

**`RelayProofs`**. The session, for any number of sockets, targets and frames, with the object
evicted and sockets lost at any time:

* `TypeCorrect` and `BytesCorrect` (`NoByteChargedTwice`) from `Counted`: the types, the bytes, and no
  session of the runtime without its socket. The object may be between the halves of
  `acceptConsumer`, so the bytes are counted for whoever is attached when the report is sent.
* `DepartureCorrect` (`DepartureFreesTheProvider`) and `LossCorrect` (`LossIsNoticed`): inductive on
  `Counted`. Detaching happens in every branch that a departure can meet, and a queue of a socket
  that is gone ends with `gone`, which nothing takes before it is handled.
* `OrderCorrect` (`FramesInOrder`) from `Order`: a frame passes its consumer's queue, the object's
  buffer or not, the runtime's queue, and the target. Each stage is `Rising` and comes `Before` the
  next one back, consumer by consumer, although consumers share the buffer and the runtime's queue;
  and while the provider is ready the buffer is empty, so that nothing overtakes it.

The transport and the quota, for any number of callers, endpoints, permits and connections, and any limit:

* `TransportInv` has the types; `PermitsKept`: permits free and held add up to
  `MAX_CONCURRENT_RELAY`, and none is free while somebody waits; `LineInv`: whoever is in the line
  waits, and is in it once; and `Honest`: a call has failed at exactly the endpoints behind its
  position, never for ECH, and for its URL only where that is invalid. `TransportTypeCorrect`,
  `PermitsCorrect` and `HonestyCorrect` (`ExhaustedHonestly`) follow.
* `QuotaInv`: beside `NeverOvercharged`, a day's record is never empty, and a connection that is
  reporting has read no more than what was reported for the day it reports under, however stale its
  read was. `ChargeCorrect` is about the composition, through
* `ImplementsQuota`: the composition implements the quota's own specification. An upgrade is a
  connection's question, and everything else the transport does is a stutter.

**`ShareRuntimeProofs`**, for any number of profiles, calls, tasks and settings, killed at any time:

* `TypeCorrect`: `TypeOK` says with the types what a program counter says of the mutex (a call
  holds it just when it is joining a task), without which nothing is inductive.
* `OneTaskCorrect`: the invariant `Held` says where a live task can be: in the shared handle, or
  with the call that took it from there and joins it, which holds the mutex; never in both.
  Starting a task needs the mutex and an empty handle.
* `DisabledCorrect` and `ActiveCorrect`: in orderly behaviours at most one call is under way
  (`Alone`), and the file agrees with who will write it next: the profile of a live task is on
  in the file, and in the copy a task is announcing (`TasksOn`); a profile shown as active has a
  live task (`ActiveLives`); and the copy a call has loaded is on when it is to be saved as on,
  and not active when it is to be saved as off (`CallsOn`). `InStep` is `orderly => Tidy`, `Tidy` being
  the four together, so a step that ends the order has nothing to show.

**`CreditLedgerProofs`**, for any finite set of users, any number of calls and sizes, overlapping and
failing at will: `TypeCorrect`, `DebtCorrect` (`DebtCoversUsage`), `TierCorrect` (`TierIsEarned`).
None of the three is inductive: what a call has loaded will be saved later, over whatever the
database then holds. The invariant `IInv` therefore says that *every record anywhere* — in
the database (`DbOK`) and in the hands of a call (`CallsOK`) — is `Good`: typed, at or above
its anchor's limit, covering its usage, with a tier that agrees with its trial. The
operations on records (`Fresh`, `Ensured`, `Charged`, `Accepted`, `Merged`) keep `Good`, by a
lemma each; `Charged` and `Merged` rest on `CostCovers`, the arithmetic of the price rounded
up. Then there is one lemma per action.

`SessionsCounted` (`DebtCountedOnce`) is about calls that do not overlap, and needs a second invariant,
`OneAtATime`: at most one call is under way; the debts it has in memory are still those of the
database (`Current`); and `Owed`, all debts of the database, is what was charged, or more if
something failed. A merge passes through a state in which the installation's debt is in the
database twice, in the account just saved and in the one not yet removed (`Twice`): there `Owed`
counts it once. A merge that fails there leaves it twice, which is why a fault may only raise it.

**`ProxyProofs`**, for any number of tasks, routes and connections, any ranks and sizes. The
invariant has three parts:

* `TasksOK`: every task is `Sound` by itself. While it tries routes, its position lies inside
  its plan; the plan has every configured route that matches (`PlanFacts`); a refused task has
  come to the end of it; only a task whose target and mode ask for it is on the direct path.
  `TypeCorrect`, `ModeCorrect` and `RefusalCorrect` follow.
* `Listed`: served connections have numbers that were given out, differ, and are active in the
  registry. The numbers matter because a new entry must not fall on one being served; the
  cleaning only removes closed entries. `RegistryCorrect` follows.
* `Affordable`: as long as a task may still be charged (`Spends`: it was allowed premium routes,
  or has one ahead in its plan, or uses one), the debt is below `Room`: the limit plus one session
  for each task that may *not*. A task that sees credit finds the debt below the limit itself;
  one that charges leaves the spenders and so makes room for what it charges. The rest make no
  difference or more room (`RoomShrinks`). `OverdraftCorrect` follows.

The metrics extend the proxy's tasks. `ProxyIsKept` shows that they leave the proxy as it was: every
behaviour of `MetricsSpec` is one of `Spec`, so the theorems above hold with them. `RatingsCorrect`
(`SessionsRatedOnce`) rests on `RecordsInv`: while `calm`, at most one access to an agent's record is
under way (`OneAtATime`), and the record is `Balanced`: what is pending are the sessions that ended since
the last report; a report under way has sent exactly those; and the record a task has loaded is the pending one
together with its own session. `RecordTypesCorrect` is the type invariant.

**`MeshNodeProofs`**, for any number of nodes, scripts, announcements, offers and any path, with nodes
that stop, are busy and fail as they like, gossip that is lost or late, and RPCs that fail:

* `AnswersCorrect` (`AnswersMatch`) from `CallMatches`: all that a node has queued, waits for or was
  told belongs to the one command its task issued last. A call that timed out leaves its answer
  channel behind; what arrives for it afterwards finds another id.
* `SilenceCorrect` (`SilenceIsForgotten`) from `Dated`: no announcement, in a store or on the wire, is
  younger than its provider's last sign of life, and none older than the TTL is shown.
* `CacheCorrect` (`CacheIsRecent`) from `Fresh`: a refresh lasts no longer than its timeout, and what it
  found was active when it began or later; a cache as old as the poll interval is not used.
* `RankingCorrect` (`UnstakedRanksBelow`): before scores are cut off at zero, the staked one of two
  routes to the same service is 1200 ahead of the other (`StakeCounts`): bonuses and penalties, with their
  integer divisions, for any prices, ratings and rivals.
* `CircuitGrows` and `CircuitCorrect` (`CircuitIsWhole`). A circuit that is whole says nothing of one
  being built, so the invariant follows it as it grows: until the client gives up, hops before the
  one being extended are connected to their successors, the ones after it have read nothing, and
  of the name, the attempt and the answer of the one in question exactly one is under way
  (`Asked`, `Trying`, `Answered`).

`NodeCorrect` states them together for the composition: the mesh, the discovery and the circuit
share the clock and the nodes' being up, and each invariant has to survive the steps of the others.

**`AppProofs`**, first the mobile runtime, for any number of launches, modes, changes and presses
(`MobileApp`'s `Spec`). The invariant `AppInv` is in parts:

* `AppTypeCorrect`: the types, with the stages of the launches.
* `OffCorrect` (`OffIsOff`). That off is off once nothing is under way says nothing of what is: between
  a press and its effect there are four channels. While `calm`, `VpnInv` follows the words on them:
  stops are ahead of starts everywhere (`StopsAhead`), an interface on its way to the screen is the
  service's own, and whatever tunnel still runs is stopped before it arrives (`InterfaceOnItsWay`);
  the one tunnel is the one the token cancels (`TunnelInv`); and when the last word on the channels
  is that the VPN is off, no start is on any of them (`OffInv`).
* `ScreensCorrect` (`ScreensSeeOneNode`) from `NodeInv`: all names are published by one call, and the
  server of a process in which `main()` ran once works with what that call published last.
* `SavedModeCorrect` (`SavedModeIsInForce`) from `SettingInv`: in order, at most one mode is being set,
  and it is the saved one; a launch sets it only when its node has started, so a change that
  an absent node refused is made up for. The property itself is inductive with these.

Then the feed and everything else that uses the model (`FeedSpec`), for any number of callers,
negotiators, models and events. `FeedTypeCorrect` has the types; the rest of `FeedInv` is:

* `LockInv`: the queue of a mutex has, once each, exactly the calls whose operation and position ask
  for it (`AskedFor`), and who asks for the model has taken its first mutex and still holds it. Deadlock
  freedom (`LocksCorrect`) follows by the order of the mutexes: the head of the queue of a
  negotiator's engine has all it asked for; if there is none, the head of `CONTENT_ENGINE`'s; else
  that of `SHARED_AI`'s. Which mutex the model of `SHARED_AI` or of the engine has can change
  only under the mutex of either, so nobody who waits for the model finds it replaced.
* `TokensCorrect` (`TokensMatchState`) from `TokensInv`: an engine that waits to replace another is
  still disconnected.
* `AttentionCorrect` (`AttentionKept`) from `EventsInv`: what was acknowledged is in the file, in the
  engine, and in every engine that is about to replace it, although that read the file long ago.
  This needs the screens: no recording of the shown screen is under way while one connects. Mutexes
  are fair, so the connect of the shown screen is the last (`ConnectInv`); one chat is loaded at
  a time, and a logout waits behind the recordings and ahead of the next list (`ChatInv`). A recording
  whose screen is gone is answered to nobody.

`ChoiceCorrect` (`ChoiceIsJustified`) is about `DealAgent`, for every listing, amount, reply and list of peers. The
model sorts without recursion: `InOrder` puts each element behind as many as precede it, and
`InOrderFacts` shows, by the pigeonhole principle, that with a strict total order this lists every element once,
the least first. That the score, and trust with debt, order the positions (`RankingOrders`) is the arithmetic of
fractions compared crosswise (`FractionsOrdered`); that a cheaper offer exceeds one that is otherwise no
better is `CheaperExceeds`; and `RerankedFacts` that the model's list neither drops nor invents an offer.
`AgentAssumption`: an offer has its own id and a rate above zero, as the board's `createDealOffer` requires. Scores are
exact fractions; the code's floating-point scores may tie, or swap, where two of these differ by less than a rounding.

The other assumptions, `RuntimeAssumption`, `VpnAssumption`, `AppAssumption` and `AiAssumption`: there is a
launch, the configured mode is a mode, and names are kept apart (launches, changes, and what stands
for nothing).

**Only model-checked**:

* all liveness properties (`EveryEscrowSettles`, `StakeComesFree`, `EveryCallAnswered`,
  `CircuitsUnwind` and the like): they and ENABLED are out of the prover's reach.

What recursive definitions compute for every input would need an induction that no installed prover can
use. Where a theorem needs one, the model avoids it: sums by `SumProofs`, sorting by `InOrder`.

Every invariant and every other safety property of a passing run is a theorem.

## 6. What is not modelled, and why

* Cryptography, TLS, VLESS and onion framing, libp2p, the language model, Telegram, the SOCKS
  address parser: libraries or formats without state of their own. The models take from them
  what the code relies on: an outcome, a delivery, a list of offers.
* Currencies, regions, endpoints of the contracts: stored, nothing on chain depends on them. `Mint`
  is the initial balance. In `ExchangeClient` currencies, payment methods and the views' texts are
  left out, and single reads and the registration of an agent are calls without a second await
  to be interleaved with.
* Graduation of a provider to the route book: it needs settled earnings, which nothing in the
  app ever sets. `record_payment` has no caller, so tiers above credit are not reached. The throttle
  factor is floating-point and only slows a session.
* The registry's byte counters, labels and `force_proxy` are read by screens only. The
  registry cleans by start time, the model by number; both are taken in `register`. Copying is one
  step with its charge: the bytes counted are chosen when both directions have ended.
* Averages, scores, earnings and the sign of a feedback in the metrics are functions of the sessions
  a record holds.
* Kademlia, mDNS and ping telemetry of the peer-to-peer layer fill tables that only screens read.
* The VLESS transport (`vless.rs`) and direct TCP keep no state across calls.
* Dealer profiles of the worker: one signed value per key, last writer wins.
* The configuration: parsing and defaults, read once at the start.
* The progress of a download, message contents, fold levels, the caches of `decide_route` and of
  processed messages: a hit repeats an earlier answer.
* iOS, the remaining screens, deployment scripts, generated bindings (`frb_generated.rs` is a fifth
  of the Rust in the repository) and build tooling: no logic of the system is in them, or it
  repeats what the Android side does.

## 7. Plan

Written so far, in this order: contracts, relay, Share & Earn, credit, proxy; then exchange
clients, transport, mesh with discovery and circuits, metrics, mobile runtime, model and feed. What
is left, in order of importance:

1. **Composition** of `RelaySession` with `RelayQuota`, so that what a session reports is what
   the store records, and of `Proxy` with `RouteDiscovery`, where routes are an input now.
2. **Share & Earn below `ShareRuntime`**: the session of the runtime with its consumer and target
   in one model with the worker's object, evictions and reconnections included.
3. **Dealer profiles** and the remaining reads of the exchange clients, should they get state.
