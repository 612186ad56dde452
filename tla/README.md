# A verification development for Hyperion Mesh

TLA+ models of the `hyperion-mesh-monolith` repository, TLC runs on small
instances and theorems checked by TLAPS. Paths are relative to the repository;
`PROJECT.json` maps every definition to the lines it models.

## 1. The system

| part | source | state | operations | hard behaviour |
|---|---|---|---|---|
| account slot table | `src/bin/hyperion_grpc_server.rs` 377-440, 577-585 | array of atomic slots, claimed and never freed | `ensure_account_slot` | lock-free claim, collisions, exhaustion |
| gRPC gate | same file, 68-310, 443-520, 788-812 | balance, level and count per slot; signature pool cursor | KYC approval, card authorization, deposit | await points between check, debit, count and audit; calls that fail or are dropped |
| Supabase client | `src/db/supabase.rs` | tables `users`, `transactions` (`infra/migrations/001_init.sql`) | upsert, fetch, patch, insert | answers lost after the effect |
| raw ingress | `src/bin/hyperion_raw_ingress.rs` | a session per connection and one for all of UDP; WAL channel, batch, file | frames in both modes, WAL thread | loss and duplication, full channel, process end |
| JIT-DEX ledger | `src/blockchain/ledger.rs` | two arrays of atomic balances; avatar list and cursor | `execute_jit_dex_swap`, `route_via_optimal_avatar` | two compare-exchange loops without a lock, saturation and wrap-around |
| PoPP blocks | `src/blockchain/mod.rs` | none | build, validate, link, key derivation | - |
| anomaly detector | `src/blockchain/raman_anomaly.rs` | a window of latencies | `update` | shared under a mutex |
| secure frames | `src/packet.rs` | the replay window | `accept_frame`, `resync_window` | replay, loss, nonce exhaustion |
| RAMAN artifacts and mirror executor | `src/raman.rs` | the rules; one held decision (stream, snapshot, remaining ticks) | load, validate, `execute` | hold and cooldown shared by all streams, order of rules |
| RAMAN runtime host | `src/runtime.rs` | platform, executor state | `process_signal` | a decision applied in three calls that fail one by one |
| ABI and FFI | `src/raman_abi.rs`, `src/ffi.rs` | handles | C wrappers of the host | - |
| RAMAN core | `raman-core/src/lib.rs` | active action, hold and cooldown ticks | `execute`, `stream_tick` | stale action, ticks at zero |
| morphic kernel | `src/kernel.rs`, `src/radio.rs`, `src/power.rs`, `src/context.rs`, `src/phy.rs` | none: the caller passes the current profile | plan a profile, `apply_profile`, `apply_profile_fast`, `apply_preset` | a plan that fails half way, a caller whose profile is stale |
| SX1262 driver, bus, board | `src/drivers/sx1262.rs`, `src/hal/sx1262_bus.rs`, `src/boards/esp32c3.rs` | chip registers, select line, write log | burst, frame, reset, bring-up | failing pins, busy line, a log of eight |
| SX1276 driver | `src/drivers/sx1276.rs` | registers, FIFO, ring of samples | listen, poll, carrier test, retune | a packet in the middle of a poll, a transfer that fails half way |
| telemetry frames | `src/telemetry.rs` | a frame in place | encode, checksum, overwrite a field | changes that cancel out |
| channel ensemble | `src/channel_ensemble.rs` | a plan and a cursor per band | hop, fuse, score | plans of different lengths |
| portability | `src/portability.rs` | none across calls | derive, negotiate, compile to registers | ranges that do not meet |
| simulator | `src/sim.rs` | an anomalizer with bus, captured frames and isolated nodes | drills, metric generators | a drill that replays an earlier one |
| assurance | `src/assurance.rs` | none that lasts | isolate a fault; vote, govern, certify | - |
| webhooks | `src/bin/hyperion_card_webhook.rs` | none between requests | KYC events, forwarding to gate, issuer and bank | redelivery, answers lost after the effect |
| GPL tools | `src/bin/gplc_rt.rs`, `radnet_tools.rs`, `raman_portable.rs` | files | compile, mutate, run | files of different age |
| COOPER tools | `src/bin/radnet_tools.rs` | logs, lessons, cards, bank image | distil, build cards, build and inspect a bank | writes that stop half way |
| trading simulations | `src/bin/hft_web3_e2e_sim.rs` | live session with book, trades, balance; card accounts with rate feed | paper trading, card simulation | tasks and locks, clocks and timeouts |
| spin solver | `src/bin/bio_quantum_record.rs` | spins with running sums | anneal, polish | sums that are never computed anew |
| benches, hybrid runners, smoke tests | other files of `src/bin/` | none across calls | - | - |
| front end, deployment | `frontend/`, `deploy/`, `infra/`, `tools/` | none | - | - |

How they interact. A client speaks gRPC to the gate, whose handlers run
concurrently on tokio, share the slot table through atomics only, and call
Supabase over HTTP at their await points; a handler whose client goes away is
dropped at the await it stands on. The webhook process forwards card events to
the gate over gRPC, and its KYC callbacks end in the gate's `process_kyc_approval`, which
writes the level to its slot and to Supabase. The raw ingress is a
process of its own: operating-system threads share one `RamanLedger`, and all
of them send into the channel of the WAL thread. The radio side (`packet`,
`raman`, `kernel`, `drivers`) is a library without threads; what is hard there
is the order in which its caller, and the radio, invoke it, and what remains
when the hardware fails between two steps. The kernel calls a `RadioDriver`
(SX1262), which calls a `RegisterBus`, which drives pins and SPI; the RAMAN host
asks the planner for a base profile and applies its decision to a platform.
The portable pipeline loads an artifact that travelled as a file, asks the
executor for a decision and writes it to the registers of a chip pack. The
command line tools share files and nothing else; they are run by hand, in any
order. The anomaly detector scores every swap of the raw ingress.

### What makes each part correct

* slot table: one slot per account, whatever handlers collide; a returned slot
  is the caller's; exhaustion is reported only when it is true.
* gate: no unit of money appears or disappears, but for balances that wrap; a
  balance is not negative while amounts and deposits fit an i64; a request is told
  it is approved only after it was recorded; the limit on unverified users is
  passed by what is in flight at most, and twice when the account is new.
* raw ingress: a session executes one chain; what is answered OK reaches the
  log in order or is lost within a known bound; a full log stalls nobody for good.
* ledger: no lost or doubled debit or credit; the pair of loops is a debit and
  then a credit; every swap ends.
* frames: none accepted again unless a resync moved the window back over it; a
  sender within the skew is heard.
* kernel and driver: after any morphs and failures the chip holds what its
  caller believes, except where a failed call wrote; no call hangs.
* webhook: nothing is acknowledged that the gate did not take; an error may hide
  an effect, a success may not invent one.
* live session: what a report lists has been paid, and the session ends whatever
  the stream brings, unless the peer never accepts the connection or a write.
* tools: a decision of a rule follows the text it was compiled from, and is left to
  another artifact only where no rule fires or the file cannot be read; what loads
  is what was written.
* RAMAN executors: the first matching rule of each kind decides; a held decision
  lasts exactly its ticks, for its stream; success is reported only for a
  platform that was told the whole decision.

## 2. Modules

    AccountTable            the slot table at the grain of its atomic accesses
    HyperionGate            the handlers, slots as claimed once per account, database
    AuthorizationLedger     what the gate promises about money
    Int64                   balances that wrap around, for both
      HyperionGateProofs    invariants of the gate, and that it keeps the promise
    RawIngress              threads, sessions, UDP, WAL, process end
      RawIngressProofs
    RamanLedger             execute_jit_dex_swap
    SwapLedger              what the ledger promises
    RamanArtifact           artifacts as binaries: encode, lose a part, read back
      RamanProofs           of RamanLedger and RamanArtifact
    ReplayWindow            the nonce window of a radio session
    MorphicRadio            the kernel over the SX1262 driver, its bus and board
      MorphicRadioProofs
    RamanRuntime            RAMAN mirror executor, runtime host, C interface
    RamanCore               the executor of raman-core
      RamanRuntimeProofs    of both
    ChipPortability         the portable pipeline down to register values
    Anomalizer              the drills of the simulator, over ReplayWindow's window
    Sx1276                  the laboratory radio, register by register
    TelemetryFrame          overwrites of a frame and its checksum
    PeripheralLab           the laboratory: Sx1276 and TelemetryFrame
    ChannelEnsemble         hop plans, fusion and score
    AnomalyWindow           the detector of the hot path
    SpinSolver              one start of the spin solver
    GplToolchain            GPL policies, bytecode and the tools between them
    CooperLearning          logs, lessons, cards and the learning bank
    PolicyTools             the tools of an author: GplToolchain and CooperLearning
      PartsProofs           of AccountTable, ReplayWindow, ChipPortability, Anomalizer,
                            PeripheralLab, ChannelEnsemble, AnomalyWindow, SpinSolver
                            and PolicyTools
    KycWebhook              KYC events between provider, webhook and gate
    ProviderForwarding      the forwarding handlers of the webhook process
    PaperTrading            the live paper-trading session
    CardSimulation          the internal card simulation
      ServicesProofs        of KycWebhook, ProviderForwarding, PaperTrading and
                            CardSimulation
    SumLemmas               induction over finite sets, and sums, for the proofs

    MCHyperionGate, MCRawIngress, MCRamanLedger, MCMorphicRadio
    MCServices              the four programs around the gate
    MCParts                 AccountTable, RamanRuntime, RamanCore, ReplayWindow,
                            RamanArtifact, and those from ChipPortability to PolicyTools

MCServices and MCParts compose modules that share no state: the variable
`running` says which of them a behaviour runs, the others stay where they start,
so that their states add up instead of multiplying. The conjuncts of their
properties are those of the modules.

Each `MC...` module with its `.cfg` files is a small instance for TLC. An
operator named `Bug...` is a mutated form of the definition that follows it; no
action uses it, and the mutants of `PROJECT.json` put it in that definition's
place to see that a property rejects it.

### AccountTable

One action per atomic access of `ensure_account_slot`: `CallTable` computes the home
slot (the hash is the constant `Home`, any placement), `LoadTag` reads the tag
at `Here(h)`, `ClaimSlot` is the successful exchange, `ShareClaimed` and
`LoseClaim` the two outcomes of a failed one (the winner's tag is this
account's, or not), `NextSlot` the probe to the next slot and the end of the
loop after `SlotCount` probes. `Free` is the tag 0.

### HyperionGate

A request is a handler in progress; `pc[r]` names the await or the atomic step
it stands before. A slot is identified with its account, which is what
AccountTable establishes, but claiming and initialising it remain separate
steps (`ClaimSlot`, `InitLevel`, `InitCount`, `InitBalance`), since other
handlers may use a claimed slot before it is initialised. Every call to
Supabase ends in one of `Outcomes`: done, failed before it took effect, failed
after it took effect (the answer was lost), or dropped together with the request
(`GiveUp`), and `Applied` says whether the row changed. `UseDb` is whether
Supabase is configured. `AuthorizationLedger` is the abstract specification:
an account opens once; a debit is reserved, and each reservation is spent,
released or abandoned, once. The refinement mapping reads reservations off the
requests that stand between debit and verdict.

Amounts and balances are i64. The handlers cast u64 amounts unchecked, so an amount
may be negative; sums wrap as they do in a release build, which is what the
repository deploys (a debug build would panic on the unchecked subtraction of
`debit_account`). `Half` stands for 2^63, `StoreBalance` wraps and counts the laps.
`basicCharged` counts what was let through at level BASIC and is never set back;
`forgotten` is what of it the first store of an account's count wiped.

### RawIngress

Threads are the TCP workers and the UDP thread, `pc[t]` says where in
`handle_client`/`run_udp` and `process_frame`/`process_bank_frame` each stands.
A block is the pair of the chain it belongs to and its place in it: the seal is
a Boolean of the frame, and a link holds when the block before it is the one
the session expects (SHA-256 taken as injective). Clients are modelled on
`hyperion_unified_bench`: a chain built in advance, one frame at a time, going
on whatever the status. A TCP request is delivered once, a datagram any number
of times. Whether the ledger refuses a swap is left open. The WAL thread opens
the file or fails, receives, and writes line by line; `Stop` models the end of
the process (`MainReturns`, `Crash`) and `Restart` the service manager.

### RamanLedger, SwapLedger

One action per atomic access of both loops: load, exchange, and the failed
exchange, which a weak exchange may also do for no reason (`RetryDebit`,
`RetryCredit`). Arithmetic is modulo `Word` and the product saturates at
`Word - 1`. `sold` and `bought` are history. `SwapLedger` is the abstract
specification: an atomic debit that leaves a debt to the destination, and an
atomic credit that pays it.

### ReplayWindow

`Verdict` is the order of checks of `accept_frame`, `Arrive` the whole call,
`Resync` the call of `resync_window` on any two frames ever sent, old ones included:
it compares them with each other and never with the window, which an old pair moves
back. `sent` is the set of frames ever sent: all of them may arrive again at any
time. Nonces are words; `expected + Skew` wraps around. `rewound` is history: how
often the window was moved back from behind each nonce.

### MorphicRadio

The first half is pure: profiles are records of the fields of `PhyProfile`
(enumerations as their discriminants), `GeneratePhy` the planner, `Encode` the
value of each register, `CompilePlan` the writes of a morph, by `PresetPlan`
when both profiles are presets (registers as constants) and by `SlowPlan`
otherwise. A plan is a function from the registers it writes to their values;
`FirstOf` gives the order. The second half sends it: `Morph` plans and starts
the standby frame; each frame goes through `before` (wait while busy), `select`,
`spi`, `release` and `settle` (wait again), and at each of them the pin or the
transfer may fail; a failed transfer may have reached the chip or not. Then the
driver logs the writes (`LogWrites`, or `LogFull`) and `commit` waits once more.
`BringUp` is the board's reset and standby. The caller is modelled on
`tests/integration_test.rs`: it takes the target for its current profile when a
morph returned Ok, and keeps the old one otherwise. `suspect` is history: the
registers a failed call attempted and no later success has rewritten. The reset
values of the chip are taken to be `lora_default`, which is what every caller
starts from. Which radio mode the chip is in is not state: nothing in the
repository takes the SX1262 out of standby.

### RamanRuntime, RamanCore

`Reuse` and `BeginScan` are the two outcomes of the temporal branch of
`execute`; `ScanRule` is one turn of its loop, with the `?` of an action that
does not parse as the third disjunct; `Decide` is what follows the loop.
`ApplyPhy`, `ApplyTransport` and `ApplyRis` are the three calls of
`process_signal`, which a platform of the integrator (`host = "device"`) may
refuse and `NoopRamanPlatform` (`"ffi"`) never does. `NewRuntime` is a freed and
recreated runtime; `raman_process_signal_binary` is a call between two of them,
so that no window outlives it. A situation stands for a whole
`RamanRuntimeContext`, a rule lists the situations it matches, and an action
that does not parse has the value `None`. The mode of a window follows from its
snapshot and is left out.

Three things the code does that a reader may not expect, all kept: a hold of
zero ticks suppresses a cooldown; a profile rule that asks for what the planner
derived leaves its slot to a later one; and the platform gets the priority of
the transport rule, not the decided one, which a verify may have replaced by its
fallback.

`RamanCore` differs: the window is not per stream, a hold is followed by the
cooldown instead of replacing it, and one rule decides everything. A frame is
the set of rules it satisfies (`matching`); `Selects` is what the loop over the
rules finds, and a state with ticks but no action is never reached.

### RamanArtifact

A file is a sequence of words and strings; `torn` says that its last bytes are a
piece of the next one, or that other bytes follow. `WriteFirst` and `WriteDevice`
say in which order `encode_raman_artifact_binary` writes, `FirstAt` and `DeviceAt`
in which `parse_raman_artifact_binary` reads: they are separate definitions, as they
are two functions. A reader is a function from the places of a file to what is
read from there on, so that a list of what an item's reader reads is a reader again,
without recursion. `ArriveBinary` brings a file whole, cut off at any place,
or in front of what a longer slot held.

### ChipPortability, AnomalyWindow, ChannelEnsemble, TelemetryFrame, SpinSolver

Computations with little or no concurrency, each a chain of the code's steps over
every input of a small set. ChipPortability derives, negotiates, executes (any
decision) and writes register after register. AnomalyWindow keeps the ring as an
array with its position, as the code does, and beside it all samples seen, from
which the property is told; halves are avoided by doubling. ChannelEnsemble lets
the shuffle pick any element, so that the seed is any. TelemetryFrame has bytes
as sets of bits, in which exclusive-or and rotation are exact. SpinSolver draws
every graph on three spins, also those in which one edge is drawn twice with
different weights.

### Anomalizer

One action per drill; `captured`, `depth` and `isolated` are what an anomalizer
keeps from one to the next. The nonce window of a drill is that of ReplayWindow
(its `Verdict`, by INSTANCE), near the last nonce too.

### Sx1276

A call of the driver is the list `todo` of its register accesses; `Access`
performs the next one and `SpiFault` lets it fail, before or after it reached the
chip, which ends the call. `Receive` puts a packet into the FIFO between any two
accesses. `torn` is history: a sample into which a second packet came. The chip's
side (`Effect`) is external: it is that of a real SX1276, which clears the flags
that are written as ones and reads its FIFO at a pointer. The mock bus of the same
file does neither; on it a second poll would take a packet again.

### GplToolchain, CooperLearning

One action per command; a command that writes two files one after the other is
two actions, and the second may be missing. GplToolchain has both tools that
compile and rewrite (`gplc_rt` and `radnet_tools`, whose relaxing floors differ)
and both that run (`raman_portable` on either bytecode, `gplc_rt run` on the file
the bytecode names). A write of bytecode may stop half way and leave a file its
loaders refuse. Where no rule fires or the file is refused, `raman_portable` lets an
RPL artifact decide (`"fallback"`), unless it is told not to; that decision is the
portable pipeline's, and here only a name. `gplc_rt run` prints the power of the rule,
`raman_portable` the register the mapping makes of it (`Printed`). Metrics are any
integers; `tightened` is history: the files rewritten from metrics whose drift is so
negative that thresholds rise. Policy files are rewritten whole: a torn policy text
would have to be parsed. Metrics that are not numbers or not finite are left out.
In CooperLearning a write leaves the file, a short one, or
one of full length with a part missing, and `Sound` is the list of checks of
`parse_bank_image`; the checksum and the ids of cards are taken as injective.

### KycWebhook

The provider posts its events in any order, until one is acknowledged. A handler
(`Refuse`, `Ignore`, `CallGate`, `CallFails`) checks signature and outcome, then
calls the gate, which may fail before or after it decided; an acknowledgement may
be lost. The gate itself is HyperionGate's; here it is the last decision taken.

### ProviderForwarding

A handler forwards the one to three calls of its request (`Plan`); each may be
accepted, declined, or performed without an answer, and the issuer's answer may
have a body that cannot be read. A client may ask again.

### PaperTrading, CardSimulation

PaperTrading's session connects and subscribes, and then stands at a read with a
timeout, at a message, at a ping to be answered, or at a
report that copies trades and balance one after the other (`SnapshotOrder`).
`PeerStep` is what only the peer can bring about: the handshake, the subscription,
a pong and the heartbeat's write, which share the writer's mutex (`beating`);
trades are tasks of their own that wait, look again, settle and push. CardSimulation
has a task per request (`ReadRate`, `Load`, `Exchange`, which may fail for no
reason, `TakeSignature`), the two feed threads, and `main` that joins and sums up.

## 3. Runs

Every passing run explores its instance completely; the bounds are the
constants named here.

| run | shows | bounds |
|---|---|---|
| `gate_local` | with N requests in flight at most 2 * Limit + 2 * N - 3 charges at level BASIC get through, first use races included: 5 | 3 requests at once, 1 account, limit 1, 5 calls: the five charges, first use race included, fit |
| `gate_db` | money conserved, approvals recorded, refinement of AuthorizationLedger, with every failure of every call | 2 accounts, 2 requests at once, 3 calls; amounts 1 and the smallest i64, with `Half` at 2: two deposits wrap a balance |
| `gate_upgrade` | **violated**: an upgrade in Supabase does not last | 1 request at once |
| `ingress` | one chain per session, acknowledged swaps logged, loss bounded, log order, OKs match swaps | a connection and a UDP peer with the same chain of 2, channel 1, batch 2, 2 sessions: the second one a connection's or that of a restart |
| `ingress_bank` | a waiting sender is released | bank mode, channel 1, batch 1, 2 swaps a session |
| `ingress_stays` | **violated**: main returns | - |
| `ledger` | no lost or doubled credit, refinement of SwapLedger, every swap ends | 2 threads, 3 swaps, 3-bit words: the product saturates and credits wrap around |
| `ledger_rate` | **violated**: a capped product credits too little | - |
| `morphic_radio` | registers match the caller's profile, chip deselected, every call returns | 3 calls over 5 presets, 2 planned profiles and 2 custom ones (one of them differing in every register), log of 8, 2 polls; `Word` is 2^16 for 2^32, which TLC cannot hold and no value needs |
| `services` | see below | see below |
| `parts` | see below | see below |
| `anomaly_degenerate` | **violated**: an extreme outlier without a majority | window of 5, 7 samples |

`services` runs one of four programs:

| module | property | bounds |
|---|---|---|
| PaperTrading | `PaperTradingIsSound`: a report is a cut of the session and no asset is traded within its cooldown; `PaperSessionEnds` | 3 assets, 2 message batches that fire 2 trades, a session of 2 ticks, cooldown and report interval of 2: a report is taken while trades settle; any number of pings and heartbeats |
| CardSimulation | `SimulationIsExact`: books at every moment, summary and percentiles at the end | 3 requests of which two compete for one account, a deposit, 2 rates, 2 latencies |
| KycWebhook | `AcknowledgedIsDecided`; `KycOutcomeReachesGate` | 6 events of 2 users (one malformed, one unsigned), 2 handlers, 2 faults: a fault can hit the repetition as well |
| ProviderForwarding | `AnswersMatchEffects` | 3 clients (payment by QR code, card, authorization), one of them without a token, 2 attempts |

`parts` runs one of fourteen:

| module | property | bounds |
|---|---|---|
| AccountTable | `OneSlotPerAccount`, `SearchIsRight` (`ReturnedSlotIsOwn`, `ExhaustedOnlyWhenFull`), `EveryCallReturns` | 4 accounts of which homes collide, 3 slots, 3 handlers: a table can fill, and three can race for one slot |
| RamanRuntime | `SnapshotFollowsTheRules`, `WindowIsServedExactly`, `ReportedMeansApplied`, `WindowsEndServed` | 2 streams, 2 situations, 5 calls, 3 programs of 5 or 6 rules (sorted and as they stand, rules repeated, values missing), windows of 1 and 2 ticks |
| RamanCore | `CoreWindowsAreExact` | 4 rules, 8 frames |
| ReplayWindow | `ReplayNeedsRewind`, `SenderIsHeard` | 6 nonces, skew 2, 2 rewinds of each nonce: the end of the nonces is reached, and a nonce accepted three times |
| RamanArtifact, ChipPortability | `ArtifactIsWhole`, `PipelineIsHonest` | 5 artifacts, three of which do not validate, cut at every place; 3 rule sets, 5 chips, 27 decisions, 2 mappings: ranges that meet, touch and miss |
| Anomalizer | `DrillVerdictsAreSound` | 5-bit nonces, skew 4, 3 drills, bases at 0, 5 and near the end |
| Sx1276, TelemetryFrame | `PeripheralLabIsExact` (`LabRadioIsExact`, `OneByteShows`) | 3 packets, ring of 2, 4 calls, 1 fault; bytes of 3 bits, 3 overwrites |
| ChannelEnsemble | `EnsembleIsFair` | bands of 4, 3 and 2, 6 hops, 3 measurements: each plan wraps |
| AnomalyWindow | `AnomaliesAreRare` | window of 5, 7 samples of 4 values: half full, full, and overwritten |
| GplToolchain, CooperLearning | `ToolsKeepTheirWord` (`PolicyIsKept`, `LearningIsHonest`) | 2 files, 2 policies (one with a threshold below the tools' floor and a power above 20 dBm), 3 metrics (one of them of a drift that raises thresholds), 4 commands, any write cut short; 2 logs, 4 queries, a deck of 2, 4 commands: a learned card can push out one of the profile |
| SpinSolver | `SolverIsConsistent` | all graphs of 3 spins with weights -1 and 2, 3 steps, both solvers |

Deadlock is not checked where the instance stops by its bound (`MaxCalls`,
`MaxSwaps`, `MaxSessions`) or where the system may really stop.

### Fairness

The slot table in `parts` (`TableFairness`) and `ledger` assume weak fairness of a
thread's next step: a runnable thread of the scheduler runs. `ledger` adds strong
fairness of the two exchanges: an exchange that would succeed again and again does
not fail spuriously for ever. Other swaps may starve a thread; there are finitely
many (`MaxSwaps`). `morphic_radio` assumes weak fairness of the call in progress,
which is straight-line code; nothing is assumed of the busy line. `ingress_bank`
assumes weak fairness of the WAL thread and strong fairness of a sender that waits in
`send`: the channel wakes its senders.

`services` assumes weak fairness of the live session, of its trades and of the clock
(`PTFairness`): tokio polls what is ready and time passes, while messages need not
come. Nothing is assumed of the peer (`PeerStep`): `connect_async`, the subscription,
a pong and the heartbeat's write have no timeout, so `PaperSessionEnds` says that the
session ends or waits on the peer for ever (`WaitsOnPeer`). Market discovery has a
timeout of twenty seconds (hft_web3_e2e_sim.rs 344). There is also weak fairness of
the webhook's handlers, and strong fairness of the provider's posting a final outcome
it has not seen acknowledged (`KWFairness`), which is what a provider that retries
does. No other fairness is assumed of clients, of the network or of writes that
succeed.

### Disagreements found

* `gate_upgrade`: README 190-191 says a Codego approval upgrades `kyc_level` in
  Supabase. `ensure_user_record` upserts `{tx_count: 0, kyc_level: BASIC}` with
  merge-duplicates at the start of every authorization, so the upgrade lasts
  until the user's next charge, and the count starts over with it.
* `ingress_stays`: `main` of the raw ingress joins none of its threads and
  returns, which ends the gateway.
* `ledger_rate`: `saturating_mul` before the division caps what a large swap
  credits, while the debit is whole.
* `anomaly_degenerate`: raman_anomaly.rs 72 says that the branch for `mad_std < 1`
  is the case of more than half the window being identical. A median deviation of
  one half gets there too: in 10, 10, 11, 11 no value has a majority, and the newest
  11, one of the two values the window consists of, gets an infinite z and is flagged
  as an extreme outlier.

Met in the proof of `PolicyIsKept`, and stated there as its exception: what
radnet_tools.rs 660 calls relaxing a threshold raises one that is below its floor of
0.50 (679-681; gplc_rt has a floor of 0.01), and any threshold where the drift is so
negative that the relaxation is; and a power above 20 dBm is lowered to 20 by what
boosts it (650).

## 4. Proofs

Every theorem holds for any values of the constants that satisfy the assumptions
named in the modules: any number of handlers, accounts, threads, requests, rules,
spins or samples. Unless the text says otherwise, the argument is an inductive
invariant: a strengthening of the property that the initial states satisfy and
every step keeps, one lemma or step of the proof per action.

### HyperionGateProofs

* `TypeCorrect`; `SolventHolds`: if no amount is negative, the balance of an account
  whose deposits fit an i64 is not negative and never wrapped. It follows from
  conservation, with every other place of money not negative.
* `LimitOvershootIsBounded` (without Supabase): the requests between check and count
  are counted, beside the charges already let through. Before the first store of the
  count one request, the one that is to store, is not among them; what it forgets is
  kept apart.
* `MoneyConservedHolds`: what is in flight is a sum over the
  set of requests; a step changes the sum by what it changes of one request
  (`SumChange`), and a wrap of the balance by a lap, so each step keeps the balance
  of the ledger.
* `ApprovalIsRecordedHolds`: a request past its insert has its row, and rows stay.
* `OpenedOnceHolds`, `GateImplementsLedger`: a slot is opened once, and every step
  of the gate is a step or a stutter of AuthorizationLedger.

### RawIngressProofs

* `TypeCorrect`, `SessionIsOneChainHolds`. The chain is not inductive by itself:
  `CInv` adds that no two threads serve one session and unopened sessions are
  empty (`Exclusive`), that what a thread expects is the tip of what its
  session executed, except between swap and advance, where the tip is the block
  in hand (`Linked`), and that a bank session's blocks bear its number
  (`BankOwned`).
* `AcknowledgedIsLoggedHolds`, `AcknowledgedLossBoundedHolds`: an acknowledged swap
  is in the channel, in the batch, in the file, or was in the first two when the
  process ended, and these hold only so many.
* `WalKeepsSessionOrderHolds`: file, batch and channel, one after the other, list
  each session's swaps in the order of its chain; the hand of a thread comes last.
* `TcpOksMatchSwapsHolds`: a connection's OKs are its swaps less the one in hand.

### RamanProofs

`TypeCorrect`, `UsdtIsSoldHolds`, `EurcIsBoughtHolds` and the refinement
`LedgerImplementsPromise` of SwapLedger. The exchange succeeds only over the value
loaded, which the load compared with the amount.

`ArtifactIsWholeHolds`, for artifacts and files of any length, from `EncodablesAssumption`
(the lists of an artifact are lists, its records have their fields) alone. `Inverts`
relates a reader to what was written: where the file has all of it, the reader
returns the value and the place behind it; where the file ends within it, the reader
refuses. A word's reader does, and `FieldsInvert` and `ListInverts` carry it from the
parts to a record and to a counted list, so that the lemmas after them follow the
layout, section by section. `ReadInTurn` is the induction over the parts. Then a file
has all of an artifact or ends within it (`WholeOrCut`), and the device program, which
takes at least a word, is absent only from a file that ends just before it.

### MorphicRadioProofs

`TypeCorrect`, `CleanRegistersMatchHolds`, `ChipIsDeselectedHolds`,
`WorseLinkNoLessPower`. Two lemmas say that each planning path is right: a register
left out has one value in both profiles, a register written gets the target's. The
invariant (`Progress`) is then that during a morph attempted registers hold the
target's values, unless the transfer in hand failed, and the others still the old
ones. `Word > 20` is needed so that a power in dBm is its own register value.
`WorseLinkNoLessPower` is about the planner's two ladders alone.

### RamanRuntimeProofs

Every property of both executors, for programs of any length. `ScanStep` is the
induction step of the loop: an arm that is not taken found its slot set, which the
invariant says an earlier rule did; an arm that is taken found it unset, so no
earlier rule spoke. `ApplyingInv` strengthens `ReportedMeansApplied` by what the
platform was told at each step of the call. `WindowIsServedExactly` is inductive on
top of the types because it ties the window to the decision that opened it;
`WindowsEndServedHolds` and `CoreWindowsAreExactHolds` follow from the same idea.

### ServicesProofs

* `AcknowledgedIsDecidedHolds`: a handler that will acknowledge an event has seen
  the gate decide it.
* `AnswersMatchEffectsHolds`: the answers a handler has collected are those of the
  calls of its plan, in their order, up to the one in hand.
* `PaperTradingIsSoundHolds`: trades and balance move together by sums over the
  tasks, and a report's copy of one is a prefix of what the other knows; an asset's
  next trade starts after its cooldown because the last start is kept.
* `SimulationIsExactHolds`: balances, volume and fees are sums over the requests
  that took effect; the cursor of the signature pool counts the finished tasks, so
  that slots differ while the pool is larger than the requests. That a sequence of
  latencies has an ascending order, and that each percentile has as many values on
  its sides as it should, is shown by counting for each latency those before it.

### PartsProofs

* AccountTable: `TableTypeCorrect`; `OneSlotPerAccountHolds` by the invariant that
  a handler past some slots has seen foreign tags on all of them (tags never change
  once set), so a second claim for the account would need a slot before an earlier
  one; `SearchIsRightHolds`, because the probe sequence visits every slot.
* ReplayWindow: `WindowTypeCorrect`, `ReplayNeedsRewindHolds`: a nonce accepted once more
  than it was rewound is behind the window, also when a sum wraps around, and each
  resync that brings it in front of the window again counts as one;
  `SenderIsHeardHolds`.
* ChannelEnsemble: `EnsembleIsFairHolds`. A shuffled plan stays a permutation, so
  that each channel comes once in as many hops as the plan is long.
* AnomalyWindow: `AnomaliesAreRareHolds`. An array has exactly one median and one
  median deviation (ranks, by counting), whatever the order of its places, and a
  sample scored as an anomaly is farther out than at least half of the window. Of a
  sample the degenerate branch flags nothing of the kind is shown, nor true.
* Telemetry frames: `OneByteShowsHolds`. A checksum is a fold of invertible steps,
  so two frames that differ in one byte differ in every later step.
* Laboratory radio: `LabRadioIsExactHolds`, by an invariant that ties the registers
  still to be accessed to the call in progress, and the FIFO to the packets heard;
  `PeripheralLabIsExactHolds` is this and the frames, together.
* Anomalizer: `DrillVerdictsAreSoundHolds`. What a drill plays is followed frame by
  frame through the window of ReplayWindow.
* SpinSolver: `SolverIsConsistentHolds`. A flip changes one term of each neighbour's
  field and, edge by edge, the terms of the energy at that spin; their sum is the
  field of the spin, except for the reference's coupling of the spin with itself,
  hence `4 * Alpha` per flip.
* ChipPortability: `PipelineIsHonestHolds`. An offer is within the chip and, where no
  downgrade is reported, what was asked; a fitted value is within the offer.
* GplToolchain: `PolicyIsKeptHolds`. Lowering sorts by counting: a rule's place is one
  more than the rules that go before it, so that each rule has one place and the first
  rule that fires in the bytecode is the one the text means. `Kept` says what a
  bytecode file that is whole, torn or missing has to do with the text it was built
  from. A rewritten rule keeps name and priority; its thresholds only fall, unless they
  began below the floor or the file is in `tightened`.
* CooperLearning: `LearningIsHonestHolds`. Lessons and cards are put in order by
  counting as well, so that each is kept once and what is left out of a full deck goes
  before nothing that is in it. Cards that may still become an image are in the
  history of their file; an image of which a part is missing has no sound checksum.
* PolicyTools: `ToolsKeepTheirWordHolds`, both.

### SumLemmas

What a sum over a finite set is, and how it changes with one term, by induction over
the subsets. The library's induction theorems take a predicate as a parameter, which
the provers cannot instantiate; `SubsetInduction` takes a *set* of subsets instead.
`LeastExists` and `CountingUp` do the same for numbers. Then orders:
`PositionsInOrder` says that counting the elements before each one numbers a finite
set in its order. Sorts are modelled that way where something is proved of them.

Types of every proved module, `SolventHolds`, `OpenedOnceHolds` and `UsdtIsSold` are
theorems that no run repeats (the refinements the runs check have opening once and
`UsdtIsSold` as parts). The other proved properties are those the runs check on small
instances, or parts of them.

Only model-checked are the liveness properties, fairness being outside the prover's
reach.

## 5. What is not modelled

See `components` in `PROJECT.json`. What is left out, and why:

* text to records and back: JSON, HTTP, gRPC, the syntax of RPL, GPL, RHML and of
  market messages, the byte layout of blocks and frames; signatures' content (the
  pool's cursor is modelled);
* numerics without state: key derivation, Toeplitz hashing, jitter statistics, the
  metric generators of the simulator, tuning and reports of the spin solver, the
  hybrid runner; latencies and the anomaly score, which only decorate log records;
* pure functions nothing else calls: the health governor, redundant votes, upset
  counter and certification of the assurance engine (the governor looks at one
  sample at a time); the avatar list of the ledger, which only its own unit test
  uses; `candidate_rule_count`; the slot header of the ABI;
* handlers that only answer: the bank notification and the voucher mint of the
  webhook process, its mock mode, request tokens; commands that only print;
* the price poller; a debug build, in which an unchecked sum panics;
* metrics of the GPL tools that are not finite numbers, and policy texts cut short;
* `hft_web3_bench` and the other benches, which measure loops; smoke tests;
* the front end, deployment files and scripts; the embedded-hal adapters, which are
  one-line wrappers.

## 6. Plan

Done: the core (slot table, gate, raw ingress, ledger, replay window, morphic
kernel over the SX1262), the RAMAN executors with host and C handles, the programs
around the gate, the smaller radio parts, the tool chains, artifacts, simulations.

So are the proofs of every safety property the passing runs check.

Runs are kept few, one per question: small parts that share no state share an
instance.
