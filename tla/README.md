# Verification of the Mycelium Network

TLA+ models of the Mycelium Network: of its node daemon (`src/crates/`, Rust) and of the
protocols of its TypeScript messenger and payment server (`src/ET-COSMIC-OLD`). They are
model-checked with TLC and, for the safety properties that matter most, proved with TLAPS for
every value of the constants. Names of actions and variables follow the names of the code;
source lines are in `PROJECT.json` (`map`).

Contents: [the system](#1-the-system), [the modules](#2-modules),
[Ion replication](#3-ion-replication-and-its-economy), [DTN](#4-dtn-store-and-forward),
[Isotope](#5-isotope), [paired deposits](#6-paired-deposits),
[Double Ratchet](#7-double-ratchet), [watchtower](#8-watchtower), [the Field](#9-the-field),
[runs](#10-runs), [proofs](#11-proofs), [divergences](#12-where-code-and-documents-disagree),
[plan](#13-not-modelled-and-plan).

## 1. The system

The repository holds two systems.

**The daemon.** A peer-to-peer cloud: nodes store content ("plots"), run services ("ions") in
local processes ("chambers"), route HTTP requests to any node that serves an ion, and pay
each other for it in a nutrient ("ATP"). It is the Cargo workspace `src/crates/` (26 crates,
about 27,700 lines of Rust) and `src/cli/mycelium-cli`.

**ET-COSMIC.** A browser messenger and wallet (`ET-COSMIC-OLD/src`) and its Node.js server
(`ET-COSMIC-OLD/server`): direct messages over an orchestrator of transports, Lightning payments, and an
economy in a token called SOV. It is the larger tree, most of it interface and generated
catalogues; its protocols are few, and three of them are modelled.

Generated graphs, deployment scripts, seeds, platform wrappers and vendored code are outside
this project.

A node is one tokio task: `Organism::run` (`crates/mycelium-node/src/organism.rs`) owns all
state and selects between the swarm (`Hyphae::pulse`), control requests and eleven timers. A
handler or a tick runs to its end before the next one starts, so it is one atomic step of
the models. Everything hard happens *between* nodes, between a step and a crash, and
between a step and the disk.

| Component (crate) | State | Operations | Interacts with | What is hard | What makes it correct | Status |
|---|---|---|---|---|---|---|
| Ion replication (`mycelium-node`, `plasma`, `singularity`) | chambers, records on disk, replica and heartbeat tables, `peer_ions` catalogue, idle windows, offer cooldowns, pending acceptances, Event Horizon orbits | offer, accept, migrate, ready, heartbeat, announce, scaling tick, zone tick, materialise, deploy, awaken | gossip and DTN; ledger; chambers; bank | decisions from stale tables, lost and reordered envelopes, crashes inside the handshake | an ion is never recombined away; routes match chambers and replicas; dead orbits collapse; services come back | `IonReplicas` |
| Hosting economy (`mycelium-nutrients`, `mycelium-node`) | balance in memory and on disk, redeemed voucher ids | issue voucher, redeem, persist | rides on ion replication | debit, send and write are three steps; replays | nothing minted, each voucher credited once, no credit lost by a crash | `IonEconomy`, `Payments` |
| DTN unicast (`mycelium-hyphae`) | store with quota, bindings, seen cache, links | send, receive, relay, flush, expire, secrete | carries `Envelope::Direct` and `IonMigrate` | no acknowledgements, links between connect and subscribe, restarts | a copy is never dropped silently, handled once, quota, delivery | `DtnRelay`, `Courier` |
| Relay mesh, membrane, seed catalogue (`mycelium-hyphae`) | relay and seed entries, membrane rules | refresh, dial, accept | swarm | stale entries | some live relay or seed stays known | planned |
| The Field and pipelines (`thefield`, `inertia`, `mycelium-node`) | signals, resonances, processed set, flywheel | broadcast, resonate, fire | gossip, deploy | resonance before signal; failure in the middle of a pipeline | a signal fires with a quorum of real users, deploys what it proposed, and is not marked done before | `TheField` |
| Isotope (`isotope`, pending decays in `mycelium-node`) | a shard of atoms with clocks, `nucleus.json`, pending queries | put, get, sync, decay query and reply, save | gossip | equal clocks, lost replies, a crash in the middle of a write | owners keep the newest atom, reads go forward, a get is answered | `Isotope` |
| Giggs (`giggs`) | plots of a mesh, signed references on disk | sow, absorb, compare-and-swap | control socket, spore bank | read-check-rename without a lock | no lost update | planned |
| Spore bank (`mycelium-sporebank`) | plot files and an index | deposit, absorb, recall | everything with content | plot and index are two files, several handles | the index names what exists | planned |
| Entropy (`entropy`) | shades and their custodians, in memory; a secret with a half-life | shatter, hold, gather, materialise, evaporate | none yet (collection over hyphae is not written) | a threshold of custodians | nothing below the threshold | not modelled: Shamir arithmetic and a local map |
| Veil (`mycelium-veil`) | one session, live circuits, mix queue, kill switch, anti-replay chronicle | start, route, decode, stop | swarm, Nostr | circuits closing under traffic, replays | a cell is accepted once, nothing is sent after the kill switch | planned, late |
| Nostr (`mycelium-nostr*`) | relay pool, candidate relays, a libp2p transport on top | publish, collect, dial | hyphae, DTN fallback | relays fail and repeat | events handled once | planned, late |
| Singularity proxy, Vacuum, control socket, stores | sockets, processes, files | | | I/O | | not modelled: I/O; what they do to the state above is in the actions of the models |
| Store (`mycelium-store`) | a catalogue and emulator processes | HTTP routes | | | | not modelled: a launcher next to the daemon |
| Cryptography and numerics (`mycelium-core`, `-pqc`, `-zkp`, `-ghostid`, `-pheromones`, `-tropical`, `-qel`, `-distancebridge`) | none | pure functions on bytes or matrices | | | | not modelled: out of a model checker's reach |
| `mycelium-ipfs`, command lines | a local block store; none | put, get | | | | not modelled |
| SOV deposits and invoices (`server.js`, `economy/pairedDeposit.js`, `economyPersistence.js`, `sovLedger.js`) | invoices in memory; deposits and ledger in memory and in a file each; API keys | create, refill, status, webhook, simulate, settle, persist, terminate | LND, payment processors, clients | handlers that await LND; two files written on their own; restarts | a deposit and a refill are credited once; what is confirmed is credited | `SovDeposits` |
| Direct messages (`doubleRatchet.ts`, `SocialFabric.ts`) | a ratchet state per peer, in memory | initialise, send, receive, register a bundle, reload | orchestrator (transports) | out-of-order, repeated and lost messages; a send that awaits; reloads | one key per message, forgotten after use; messages open, once | `DoubleRatchet` |
| Watchtower (`watchtower.ts`) | registrations, listeners, an interval | register, start, stop, check, alert | mempool.space | checks overlap and delete from the Map they visit; failing requests | no registration lost untold; a breach is told, and not without bound | `Watchtower` |
| SOV market (`server/mesh`, the rest of `server/economy`) | persisted maps: contracts, subscriptions, datasets, pools | create, evaluate, charge, settle | ledger | restarts between two files; repeated calls | nothing is paid twice | planned |
| Other ET-COSMIC server back ends | caches, static catalogues, proxies | HTTP routes | remote services | | | not modelled: I/O and pure computation |
| Browser crypto, mesh, CRDT and orchestrator | relay pool, peers, wallet, CRDT documents | publish, collect, merge, route | transports | reordering, repeated events | merges commute, events are handled once | CRDT and orchestrator planned; the rest wraps browser APIs |
| Interface and generated catalogues | React state | | | | | not modelled: display |

## 2. Modules

| Module | What it is |
|---|---|
| `IonReplicas` | the daemon's handlers and ticks for ions: state, one action per handler, `SteadySpec` (no crash), `Spec`, `LiveSpec`, properties |
| `Payments` | abstract specification of the economy: funds and vouchers owed, whatever carries them |
| `IonEconomy` | `IonReplicas` shown to implement `Payments` (`Promise == INSTANCE Payments WITH ...`), and a property about the disk |
| `Courier` | abstract specification of the DTN: parcels posted, carried, delivered, lost |
| `DtnRelay` | DTN forwarding, and `Courier` shown to be implemented by it (`Promise == INSTANCE Courier WITH ...`): the channel `IonReplicas` sends its unicasts on |
| `Isotope` | the key-value store: `Nucleus` and the daemon's handlers around it |
| `SovDeposits` | deposits, invoices, refills, their files and restarts |
| `DoubleRatchet` | the ratchet with symbolic cryptography, and the sessions of `SocialFabric` |
| `Watchtower` | registrations and overlapping checks |
| `TheField` | the Field's signals and quorums, the flywheel, and the pipelines they fire |
| `*MC` | instances for TLC: sets, roles, topology, bounds |
| `*_proofs` | theorems and their proofs, one module per component; `IonReplicas_proofs` also holds the theorems about `IonEconomy` and its refinement of `Payments`, `DtnRelay_proofs` those about the refinement of `Courier`, and `SetSums_proofs` the lemmas on sums over finite sets that both use |

The definitions between an operator and its variant (for example `CoveredByFresh`,
`CoveredByAny` before `CoveredBySmaller`) are plausible wrong versions of it. They are not
part of the specification: each property of a passing run is shown to fail when the
operator is replaced by one of them (`mutants` in `PROJECT.json`).

## 3. Ion replication and its economy

### State and actions

| Model | Code (`organism.rs` unless named) |
|---|---|
| `up` | is the daemon running |
| `chambers[n]` | `self.chambers`, with the process |
| `records[n]` | `state.ions`, on disk |
| `replicas[n][i]`, `beat` | `ion_replica_peers`, age of `ion_replica_heartbeat` |
| `catalog[n][p]`, `heard` | `peer_ions`, age of its timestamp (restored from disk by `awaken`) |
| `windows`, `offered`, `pending` | `zero_load_windows`, `last_scaling_offer`, `pending_accepted_migrations` |
| `routes[n][i]` | Event Horizon orbits (`singularity/src/lib.rs`) |
| `atp`, `saved`, `redeemed`, `stamp` | ledger in memory, ledger on disk, redeemed vouchers, the second of the last voucher |
| `seen` | `seen_bundles` of `hyphae`, for unicasts |
| `net` | envelopes in flight, one per receiver |
| `Deploy` | `birth_ion` and `fruit_ion` |
| `Atrophy` | `HyphaEvent::Atrophy`: `check_auto_materialize_orphaned_services` |
| `OfferTo` | `initiate_ion_migration` (`mycelium ion-migrate`) |
| `RecvOffer`, `RecvAccept`, `RejectMigrate`, `RecvMigrate`, `RecvReady`, `RecvHeartbeat`, `RecvAnnounce`, `RecvVoucher` | the arms of `handle_envelope`, each with the `persist()` it ends with or, where the arm returns early, without it |
| `DropSeen` | the deduplication of `pulse` |
| `ZoneTick` | `zone_tick` of `run`: announce every ion, prune the catalogue |
| `ScaleTick` / `Rescale` | `plasma_scale_tick`: windows, offers, recombination, heartbeats, tips, expiry, orphans, in that order |
| `PersistTick` | `persist_tick` |
| `Crash`, `Restart` | the process stops; `awaken` re-fruits `state.ions` |
| `Tick`, `Lose` | time, the network |

Abstractions. Timestamps become ages in coarse units, saturated at the longest TTL the code
compares. Load is a number per ion: 0 idle, 1 traffic, k at least 2 a charge that asks for k
replicas (`Ion::sense`). A voucher is its signed fields, since its id is their hash. The
bundle id of a migration does not name the sender, since the hashed content does not.
The catalogue counts as persisted at once. The health check of `seed_tick` (which restarts
a dead chamber), the in-memory `Plasma` cloud, ergot seeds, layer requests, and other
sources of ATP are left out. `RecvMigrate` merges the several ways a migration fails after
its acceptance was consumed (layers, plot or process) into "no process comes up", after
which the ledger may or may not have been written. With `MayFail = FALSE` they do not
happen; the crash run sets it to `TRUE`.

### Properties

* `Covered`: a replica that someone believes in is alive or gave way to a live one with a
  smaller NodeId. It is the reason recombining on stale tables is safe without crashes.
* `AnchorNeverRecombines`, `IonSurvives`: what `organism.rs:2418-2423` claims: the smallest
  live replica never recombines, so an ion never disappears.
* `RoutesBacked`: the Event Horizon has a local orbit exactly for the local chambers, and
  no remote orbit without a registered replica. It holds through crashes.
* `DeadOrbitCollapses`, `ServiceSurvivesPublisher`: liveness of expiry and materialisation.
* `NothingMinted`: refinement of `Payments`. `DiskNeverBehind`: the disk never shows less
  than memory, so a crash never takes away a credit.

Fairness (`TimerFairness`): time passes and the scaling tick of every running daemon keeps
firing: it is an interval timer of the `select!` loop whose handler awaits no peer and takes
only the Event Horizon's short lock. The `select!` is biased: the branches before this one are other intervals and control
requests, which are assumed not to be ready without end. Nothing is assumed of deliveries, of the operator, or of restarts.

## 4. DTN store-and-forward

| Model | Code (`mycelium-hyphae/src/lib.rs` or `store_forward.rs`) |
|---|---|
| `link[n][p]` | `down`; `up`: connected (`connected_peer_ids`); `open`: also subscribed, publishing succeeds |
| `known[n]` | receivers whose NodeId-PeerId binding is in `peer_bindings` |
| `secreted[n]` | the local variable `secreted` of `Organism::run` |
| `held`, `counted` | `DtnBundleStore` on disk, `current_bytes` |
| `seen` | `seen_bundles` |
| `wire` | published and not yet received |
| `sent`, `handled`, `arrived`, `lost` | history, read only by the properties |
| `Send` | `send_direct`, any number of times with equal content |
| `ForwardOrStore`, `NextHop`, `Closest` | `forward_or_store_dtn(_internal)` |
| `RecvSeen`, `RecvLocal`, `RecvRelay` | `pulse` and `HyphaEvent::DtnBundleReceived` |
| `Flush`, `Expire` | `flush_dtn_bundles`, `prune_expired`, one bundle per step |
| `Secrete` | first `Anastomosis` or `NeighborSniffed` with a subscribed neighbour |
| `Connect`, `Subscribe`, `Disconnect` | the swarm events |
| `Reboot` | `DtnBundleStore::with_dir` after a stop; everything else is in memory |

Abstractions. `Rank[d][n]` stands for the XOR distance between the hash of n's PeerId and d's
NodeId; distances differ between nodes, and the receiver's own rank is arbitrary, since its
PeerId hash and its NodeId are unrelated. Only addresses of receivers are recorded, the others decide
nothing. A pheromone reaches the subscribed neighbours and any other nodes. A copy stored again
by a failed flush keeps its old `dst_peer`. A connection that breaks loses what it carries. A TTL may
end at any time. The Nostr fallback and the DHT mailbox of the crate are not modelled.

Properties: `Custody` (a sent bundle has been handled, is on the wire or in a store, or a
copy of it was dropped for a reason the code states or a link broke), `HandledOnce` (a receiver
handles a bundle twice only if in between it forgot all ids: it restarted, or `mark_seen` found
the cache full and emptied it; `Since` starts the count again exactly then), `QuotaHolds` (although `current_bytes` counts a replaced bundle twice and `with_dir` counts
the bytes of the JSON files), `HolderDelivers` (a holder that stays connected to a receiver it
knows does not keep the bundle), and `ActsAsCourier`.

`ActsAsCourier` is the refinement of `Courier`, what a sender and a receiver see of the DTN. A
parcel there is *posted*, *carried*, *given* to its receiver or *lost*, without nodes, copies, links or
stores in between. A receiver is given a parcel again only after a restart, or once so many parcels were
posted (`Crowded`, the cache's limit) that it may have forgotten which it got. The mapping: posted is `sent`, given is `handled`, done is `arrived`, and carried
(`Carried`) are the bundles that have a copy in a store or on the wire. The steps:

| Step of `DtnRelay` | Step of `Courier` |
|---|---|
| `Send` | `Post`, whether the bundle is published, kept or refused |
| `RecvLocal` | `Deliver`, the first since the receiver last forgot; its cache may be emptied in the step |
| `RecvSeen` | none; or `Discard`, if it took the last copy of a bundle that was delivered or lost before |
| `RecvRelay` | `Lose`, of nothing or, if the copy has no hops left or finds a full store, of the copy |
| `Flush` | none |
| `Expire`, `Disconnect` | `Lose` |
| `Reboot(n)` | `Restart(n)`: what was on the links of n is lost, and n may be given its bundles again |
| `Secrete`, `Connect`, `Subscribe` | none |

What is hard is that `RecvSeen` never discards the last copy of a bundle that nobody has accounted for
(`Custody`), and that a second `RecvLocal` never comes before the receiver has forgotten (`HandledOnce`).

Fairness: weak fairness of `Flush` for each node and bundle: `pulse` starts with a flush of
every stored bundle. This assumes that the loop keeps coming to `pulse`, the last branch of a biased
`select!` (see section 5): requests and timers that are always ready would keep it from flushing.

## 5. Isotope

| Model | Code (`mycelium-node/src/organism.rs` unless named) |
|---|---|
| `nucleus[n][k]` | the atom of key k in `self.nucleus` |
| `disk`, `saving` | `nucleus.json`; a handler that has yet to write it |
| `swarm[n]` | the biased `select!` of `run` has found no request and no timer ready and takes the next envelope |
| `pending` | `pending_decays` |
| `net` | envelopes in flight, one per receiver |
| `written`, `missed`, `faults` | history, read only by the properties and the bounds |
| `Put`, `Get` | `isotope_put`; `isotope_get` with `begin_decay` |
| `RecvSync`, `RecvQuery`, `RecvReply` | the arms `AtomSync`, `DecayQuery` (`reply_decay`), `DecayReply` of `handle_envelope` |
| `Absorb` | `Nucleus::absorb` (`isotope/src/lib.rs`) |
| `Save` | `persist`, the end of a handler |
| `Pass`, `Recall` | the `select!` comes to its last branch, `hyphae.pulse()`; the envelope it was to take is lost |
| `Crash`, `Readable`, `Restart` | the daemon stops, perhaps while it writes the file; `load_nucleus` in `awaken` |

Abstractions. The hash ring is the constant `Owner`: which nodes own a key. Every value put is
different. Gossip reaches each node that is up, or the envelope is lost. The migration of a
nucleus from an older ring, `fuse` and the DHT mailbox that uses the same crate are left out.

Properties. `OwnerCurrent`: an owner of a key is behind a put only while the put's envelope
is on the way, or if it was down, lost the envelope or crashed in the middle of a write.
`ReadsForward`: what a node answers changes only for a newer clock. `DecayAnswered`: a get
that waits for a key somebody holds is answered, although the query is sent once, if every
node's loop keeps coming to the swarm (`Heard`) and nothing was lost.
`NewestRead`: violated, section 12.

Fairness: weak fairness of `Save` (a handler ends) and of taking some envelope once the
`select!` has come to the swarm. The `select!` is `biased` (`organism.rs:4352`) with
`hyphae.pulse()` as its last branch (4674), so nothing in the code makes it come there: a node whose
requests and timers are always ready hears no envelope. `Pass` therefore has no fairness, and
that this does not happen is the premise `Heard` of `DecayAnswered`; TLC finds the property
violated without it.

## 6. Paired deposits

| Model | Code (`server.js` unless named) |
|---|---|
| `deposits`, `ledger` | the maps of `pairedDeposit.js` and `sovLedger.js`; a ledger is the number of credits of the deposit |
| `depositsFile`, `ledgerFile` | `paired-deposits.json`, `sov-ledger.json` |
| `armed`, `unwritten` | stores with a timer of `createPersistedStore` set; stores whose last write failed (history) |
| `invoices` | the Map of invoices, in memory only |
| `asked`, `polled` | handlers that await LND: create or refill, status |
| `issued`, `paid`, `late` | LND's invoices, what was paid, what is past `expiresAt` |
| `refilled` | credits of the API key for an invoice (saved at once by `saveApiKeys`) |
| `closing`, `restarts`, `opened`, `forgotten` | SIGTERM received; history and bounds |
| `Intent`, `ConfirmSim`, `Link` | `createPairedDepositIntent`, `simulateSettleDeposit`, `linkInvoiceToDeposit` |
| `AskInvoice`, then `LndIssues` or `LndFails` | POST create and POST refill, before and after the request to LND |
| `Webhook`, `SimulateSettle` | POST webhook, POST simulate-settle |
| `StatusBegin`, `StatusEnd` | GET status, before and after the request to LND |
| `Confirmed`, `SettleFromInvoice`, `SettleDeposit`, `CreditKey` | what a confirmation does |
| `Write` | `persistSync` as `schedule` and `flushAllEconomyStores` call it: the timer is gone first, and an error is swallowed, with the file as it was or truncated |
| `Persist`, `Terminate`, `Exit`, `Kill`, `Restart` | a store's timer; SIGTERM and the end of the last request; a crash, perhaps in the middle of a write; `load` |

Abstractions. Amounts are left out: a deposit has one amount, so its credits are counted. A
deposit id belongs to one account. LND and payment processors are external: LND issues or fails,
says that an invoice is settled when it was paid, or does not answer; a webhook says what is true, as
often and as late as it likes. A wrong webhook is not modelled: nothing in the code checks one. Neither are
refills without LND (`server.js:612-624`), which are credited at once. LND's `r_hash` is base64 (`server.js:303`) and decoded as
hex by the poll (371), so that in the code a poll may never see a payment; in the model the hash is the invoice, and
the alternative in which LND tells a poll nothing covers it. What a poll can confirm in the model holds once the
decoding is right.
`Demo` is `SOV_DEPOSIT_DEMO`, `Fallback` is `canFallbackToSimulation`. `MaxRestarts` bounds restarts.

Properties. `CreditedOnce` and `CreditsSettled`: credits and settlements agree unless a
restart kept a credit and lost its settlement (`forgotten`; the ledger is flushed on SIGTERM and
the deposits are not). `ConfirmedCredited`: what is reported confirmed has been credited.
`RefilledOnce`: a refill is credited once, and only if paid. `FilesCurrent`: a file is behind its map only
while a write is to come, or after one that failed, which `economyPersistence.js:61-67` neither repeats nor
reports to anybody but the log; the next change of the store sets a new timer.

The run sets `CHECK_DEADLOCK FALSE`: when all ids are used and the server is idle nothing is left to do.

## 7. Double Ratchet

| Model | Code (`doubleRatchet.ts` unless named) |
|---|---|
| `session[p]` | `RatchetState`: `dh` (`dhKeyPair`), `remote`, `root`, `cks`, `ckr`, `ns`, `nr`, `pn`, `skipped` |
| `bundle`, `waiting` | `knownBundles` of `SocialFabric.ts`; sends that await `import()` |
| `sent`, `handled`, `opened` | messages; deliveries and decryptions |
| `AsAlice`, `AsBob`, `DhStep`, `SkipTo` | `initializeRatchetAsAlice`, `initializeRatchetAsBob`, `dhRatchetStep`, `skipMessageKeys` |
| `ReadyToSend`, `AfterSend`, `Encrypted` | `ratchetEncrypt` |
| `StoredKeys`, `CaughtUp`, `AfterReceive`, `Opens` | `ratchetDecrypt`, which changes the state it was given whether or not the ciphertext opens |
| `Send`; `SendBegin`, `SendEnd` | `sendDirectMessage` with a session or bundle; without either, before and after the `await` |
| `Receive`, `RegisterBundle`, `Reload` | `processIncomingData`, `registerBundle`, a page reload |

Both peers do everything: either may write first, both may at once, and either becomes the responder of
a message it has no session for. A reload takes sessions, bundles and waiting sends of one page.

Abstractions. Cryptography is symbolic: a chain is named by what was hashed into its root, and a
ciphertext opens with its key only. Signatures, serialisation and public posts are left out.

What the responder hashes is the delicate point (`AsBob`).

* `SamePreKeys = TRUE` is `initializeRatchetAsBob` with the key pairs of the bundle, as `doubleRatchet.test.ts` calls it.
  Even then the roots agree only for message 0 of a session, the one message that carries `senderIdentityKey` (`doubleRatchet.ts:291`): if
  a later message comes first, the fallback of `SocialFabric.ts:224-225` gives another key, and nothing
  of that session opens, message 0 included.
* `SamePreKeys = FALSE` is what `SocialFabric.ts:227-232` does: it passes the peer's identity pair and no one-time key,
  for every message, and the fallback of `sendDirectMessage` derives a static chain that no responder
  derives. The roots never agree, hence in `SocialFabric` as it is no direct message opens.

A reply opens in neither: `dhRatchetStep` takes the receiving chain from the first of its two root KDFs and the
sending chain from the second, so the chain a step lets one peer send with is not the one a step lets the other
read with. What an initiator sends after it has read a reply does not open either. The passing run takes `TRUE`, so that messages of a first chain do open and what happens to them can go wrong.

Properties. `FreshKeyPerMessage`: no key encrypts two messages, except in the static first chains of
sessions without a bundle. `KeysForgotten`: neither a state after use can derive the key
again. `OpenedOnce`: a repeated message does not open twice. `StreamOpens` is about order and losses alone and does not
say that the chains agree: a message that has not come yet is read with the step that its sender took, whatever came before it and
whatever is missing, and opens if the receiver's chain is the sender's; a message delivered
twice shifts the chain, and the property speaks of streams in which none was. `KeyPerMessage`: violated, section 12.

The runs set `CHECK_DEADLOCK FALSE`: when all messages are sent and delivered nothing is left to do.

## 8. Watchtower

| Model | Code (`watchtower.ts`) |
|---|---|
| `registrations`, `chan`, `expected`, `late` | the Map; `channelId`, `commitmentTxid`, past `expiresAt` |
| `version`, `spent` | the channel's newest commitment; the commitment that spent its funding output |
| `running` | is `monitorInterval` set |
| `at[k]`, `step[k]`, `expired[k]` | a `checkForBreaches` under way: its registration, its `await`, the ids its `now` makes expired |
| `Register`, `Start`, `Stop` | `register`, `start`, `stop` |
| `Check` | the interval fires and `checkForBreaches` runs to its first `await` |
| `Outspend`, `OutspendFails` | `fetchLatestCommitmentTxid` answers; throws or gives `null` |
| `Broadcast`, `Alert` | `broadcastJusticeTx`, accepted or refused; `fetchTxHeight`, the listeners, the deletion |

Abstractions. Ids grow, as insertion order of the Map does. Expiry is a fact about an id that a check
reads once, when it begins, since `now` is read before the loop. Decryption of the state has no effect
on the control and is left out. `Poll` bounds how many checks overlap.

Properties. `KeptUntilTold`: a registration leaves the Map only told or expired.
`ToldOncePerCheck`: a breach is told at most once by each of the checks that overlap.
`BreachTold` (liveness): a breach of a standing registration is told, unless it expires or
the watchtower stops.

Fairness (`LiveSpec`): the interval fires and every request ends (weak fairness of the steps of
each check); the request for one registration does not fail for ever (strong fairness of `Outspend`), without which no code
could tell a breach.

## 9. The Field

A signal proposes a pipeline (a plot and the ion it becomes) with a quorum. Nodes resonate with it; at the
quorum it fires. Its origin puts Build, Test and Deploy into the flywheel and spins them; the others are offered
Build and Test.

| Model | Code (`mycelium-node/src/organism.rs` unless named) |
|---|---|
| `signals`, `next_nonce` | the Field of `thefield/src/lib.rs` |
| `processed` | `processed_signals`; `todo` is the list that `try_fire_pipelines` collected |
| `ions` | ions the node registered (`state.ions`) |
| `disk` | `state.json`: the four above |
| `flywheel`, `remote_done` | the queue of `inertia/src/lib.rs` and the vectors run for others, both in memory only |
| `call`, `spinning` | is a handler under way; the signal whose pipeline it runs |
| `net` | envelopes in flight, one per receiver |
| `resonated`, `aborted`, `crashes`, `failures`, `emits` | history and bounds |
| `EmitSignal`, `Resonate` | `emit_signal`, `resonate` with `thefield`'s `emit` and `resonate` |
| `RecvSignal`, `RecvResonance` | the arms `SignalBroadcast` and `Resonance` of `handle_envelope` (`absorb`, `absorb_resonance`) |
| `RunOffer` | `accept_remote_vector` |
| `TryFire`, then `PassOver`; `Inject` or `WorkbenchFails`; `Spin`, `RecipeFails`, `SpinFails`; `Finish` | `try_fire_pipelines`, step by step |
| `Return`, `ReturnFails` | the `persist()` that ends every handler (2211 for envelopes), or its error |
| `Birth` | `birth_ion`, which saves when the ion is new |
| `Persist` | any other handler that ends with `persist()`; it also saves what a failed handler left in memory |
| `Crash` | the daemon stops between two steps; `awaken` reads `state.json` |

`try_fire_pipelines` is the one handler of the models that is cut into steps: no other handler runs
between them, but a crash may, and what it saves on the way (`Birth`) is not what it saves at its end. Every
handler, also of a remote signal, resonance or offer, ends with `persist()`, unless an error leaves it before.

Abstractions. An id is its origin, proposal and nonce, which is what the code hashes. A refused
offer is one that was never delivered, and a lost envelope is one that stays in flight. A node that
cannot crash never reads its `state.json`, so `Persist` is for `Mortal` nodes. Errors of
`handle_envelope` are only logged, so a failed handler ends idle. What a recipe does, the attestations
of momentum reports and their rewards, `Release` proposals and `run_inertia_validation` are left out. Ions
taken away by recombination belong to `IonReplicas`.

Properties. `QuorumReal`: where a signal has fired, a quorum of users emitted it or resonated with it,
whatever was lost, repeated, reordered or restarted. `DeployedByQuorum`: a node registers an ion only for a signal
of its own with a quorum, although its queue mixes leftovers of failed pipelines and vectors of others.
`ProcessedSettled`: no error and no crash leaves a signal marked processed, in memory or on disk, whose ion
its origin has not registered, unless a recipe failed. `FieldGrows`: between crashes no node forgets a resonance or a
firing, so no signal takes the id of a known one. `QuorumHeard`: until a crash, a quorum has fired at the
origin or a resonance is on the way there, although other nodes may miss a resonance that overtakes its
signal.

## 10. Runs

Every run uses the smallest instance in which its question is interesting. `NetBound` is a state
constraint of at most two envelopes in flight (`economy_steady`, `replicas_crash`); it cuts behaviours with more envelopes at once. The runs with liveness
properties have no constraint.

| Run | Question and result | Instance | States |
|---|---|---|---|
| `economy_steady` | `Covered`, `AnchorNeverRecombines`, `IonSurvives`, `NothingMinted`, `DiskNeverBehind` hold without crashes | 2 nodes, 1 ion, node 2 hosts, 2 ATP, reward 1, tip 1, every TTL 1 unit, no cooldown | 701,212 |
| `replicas_crash` | `TypeOK`, `RoutesBacked` hold with crashes at any point and failing processes | 2 nodes, catalogue TTL 2, cooldown 1, community service | 387,532 |
| `replicas_live` | `DeadOrbitCollapses`, `ServiceSurvivesPublisher` under the timers alone | idle load, node 1 crashes, node 2 holds the plot | 77,262 |
| `dtn_relay` | `TypeOK`, `Custody`, and `ActsAsCourier` (every step is a courier's or none) | 4 nodes in a field of 4 links, two relays, 1 bundle sent at will, 2 hops | 558,954 |
| `dtn_live` | `QuotaHolds`, `HolderDelivers`, `HandledOnce` | 2 nodes, 3 bundles of 1, 2 and 3 bytes, quota of 2 bytes, cache of 2 ids, restarts | 81,232 |
| `isotope` | `TypeOK`, `OwnerCurrent`, `ReadsForward`, `DecayAnswered` | 3 nodes (an owner, a writer, a reader), 1 key, 2 puts with clocks 0 and 1, 1 fault | 612,447 |
| `isotope_reads` | `NewestRead` is violated without any fault | 2 writers | |
| `sov_deposits` | `TypeOK`, `CreditedOnce`, `CreditsSettled`, `ConfirmedCredited`, `RefilledOnce`, `FilesCurrent` | 1 deposit, 2 invoices, 2 restarts, writes may fail, invoices interchangeable | 613,736 |
| `ratchet` | `TypeOK`, `FreshKeyPerMessage`, `OpenedOnce`, `KeysForgotten`, `StreamOpens` | 3 messages of either peer, each delivered up to twice, 2 reloads, peers interchangeable | 1,573,006 |
| `ratchet_fallback` | `KeyPerMessage` is violated by two sends without a bundle | 2 messages, the responder as `SocialFabric` has it | |
| `watchtower` | `TypeOK`, `ToldOncePerCheck`, `KeptUntilTold`, `BreachTold` | 1 channel, 3 registrations in a Map of 2, 2 overlapping checks, 1 stop | 89,037 |
| `the_field` | `TypeOK`, `QuorumReal`, `DeployedByQuorum`, `ProcessedSettled`, `QuorumHeard`, `FieldGrows` | 2 nodes, 2 pipelines with quorums 2 and 0 (raised to 1), 2 signals, 1 fault: a crash of node 1, an error, a failed save or a failing recipe | 1,021,838 |

Why the bounds are enough. *Ions:* every decision of a node about an ion reads its own tables and
one peer's entry in them, so two nodes meet every case; a third puts the state space out of reach.
The TTLs of 120 s, 180 s and 300 s become one or two units, with the catalogue TTL longer than the anchor TTL
in the crash runs, because the code compares them in that order; three idle windows become
one (zero in the liveness run, where an idle ion may be recombined in its first tick). *DTN:*
`MaxHops = 2` replaces 16, so that a bundle runs out of hops in the field; `MaxSeen = 2` replaces
5000: in `dtn_live` three bundles fill the receiver's cache, which is emptied while copies of the first are still on their way.
*Isotope:* two puts may be equal, older or newer; an owner, a writer that is none and a reader are the three
roles of a node. *Deposits:* two invoices are what a race for one deposit needs, or a deposit's and a
refill's invoice side by side; two restarts allow a loss and a second credit. *Ratchet:* three messages are what a gap and a
late message need, or a message, a reply and the answer to it with a DH step per direction; two reloads give each peer one, or one peer three sessions. *Watchtower:* two registrations fill the
Map while a third is made; two checks overlap. *Field:*
two nodes are an origin and a peer; two signals let what one pipeline left in the queue meet another's vectors, and two
nonces let a restart choose an id again. The theorems of section 11 have none of these bounds.

## 11. Proofs

All theorems are for arbitrary sets of nodes, ions, bundles, keys, deposits, invoices, channels
and checks, and for every role assignment, topology, distance and time-out, under the named
assumptions on the constants (sets that are counted are finite).

| Module | Theorem | Statement |
|---|---|---|
| `IonReplicas_proofs` | `TypeCorrect` | `Spec => []TypeOK` |
| | `ClaimsCovered` | `SteadySpec => []Covered` |
| | `AnchorHolds` | `SteadySpec => AnchorNeverRecombines` |
| | `IonsSurvive` | `SteadySpec => IonSurvives` |
| | `RoutesAlwaysBacked` | `Spec => []RoutesBacked` |
| | `CreditsSurviveCrashes` | `Spec => []DiskNeverBehind` |
| | `PaymentsImplemented` | `SteadySpec => NothingMinted`: `IonReplicas` implements `Payments` |
| | `SupplyBounded` | `SteadySpec => [](Wealth <= InitialATP * Cardinality(Node))`: funds and vouchers owed together |
| `DtnRelay_proofs` | `TypeCorrect`, `QuotasHold` | `Spec => []TypeOK`, `Spec => []QuotaHolds` |
| | `HandledAtMostOnce` | `Spec => []HandledOnce` |
| | `NothingDroppedSilently` | `Spec => []Custody` |
| | `RelaysActAsCourier` | `Spec => ActsAsCourier`: `DtnRelay` implements `Courier` |
| `Isotope_proofs` | `TypeCorrect`, `OwnersCurrent`, `ReadsMoveForward` | `TypeOK`, `OwnerCurrent`, `ReadsForward` |
| `SovDeposits_proofs` | `TypeCorrect`, `DepositsCreditedOnce`, `CreditsAreSettled`, `ConfirmedIsCredited`, `KeysRefilledOnce`, `FilesStayCurrent` | `TypeOK`, `CreditedOnce`, `CreditsSettled`, `ConfirmedCredited`, `RefilledOnce`, `FilesCurrent` |
| `DoubleRatchet_proofs` | `TypeCorrect`, `KeysNeverShared` | `TypeOK`, `FreshKeyPerMessage` |
| | `DecryptedOnce`, `ForwardSecrecy` | `OpenedOnce`, `KeysForgotten` |
| | `StreamReadable` | `Spec => []StreamOpens` |
| `Watchtower_proofs` | `TypeCorrect`, `ToldNoMoreThanChecks`, `RegistrationsKept` | `TypeOK`, `ToldOncePerCheck`, `KeptUntilTold` |
| `TheField_proofs` | `TypeCorrect`, `QuorumsAreReal`, `DeploysNeedQuorum`, `ProcessedIsSettled`, `OriginHearsQuorum`, `FieldOnlyGrows` | `TypeOK`, `QuorumReal`, `DeployedByQuorum`, `ProcessedSettled`, `QuorumHeard`, `FieldGrows` |

The arguments.

* *Anchor.* `Covered` is inductive together with `TypeOK`. A claim on p arises when p has the
  chamber (`RecvMigrate`) or from an older claim (`RecvReady`). A chamber goes only when a
  registered, hence claimed, p < n covers it; by `Covered` some h <= p < n is alive, and it serves
  every claim n served. The least holder is therefore never the one that recombines,
  and `AnchorNeverRecombines` and `IonSurvives` follow from `Covered` alone. The freshness of the
  announcement plays no part, which explains why a stale catalogue is harmless, and why
  one crash, which makes a claim false with nobody to cover it, is enough to break it.
* *Routes.* `RoutesBacked` is inductive with `TypeOK`; the delicate step is `Rescale`, where
  recombination empties the routes of an ion, expiry removes orbits and replicas, and a
  birth adds the local orbit again, possibly for the same ion.
* *Disk.* The inductive form also speaks of stopped nodes (`Afloat`): a crash sets memory to disk.
  Recombination writes the ledger before the tips are paid, so it may write too
  much and never too little.
* *Payments.* Each `Step` is `Issue`, `Credit`, `Vanish` or nothing of `Payments` (`Mapped`). A scaling tick
  with traffic is the hard case: it sends a tip to each of several peers and then pays the migrations it starts, so the vouchers it
  adds are the image of a finite set (`ImageBound`) and cost no more than what was debited. A redelivered voucher is a stutter, since `redeemed`
  has it.
* *Supply.* `Wealth` is the sum of all funds and of the amounts owed. Each of the three steps of `Payments`
  keeps it or lets it fall (two equal payments of one second make one voucher; a lost voucher is gone), so it never exceeds what
  the nodes began with. With crashes this is false, since a tip is broadcast before the ledger is written.
* *Quota.* `Metered`: `counted` is at least the bytes of the bundles in the store and these are within the quota. A
  replaced bundle leaves `counted` too high, a removal subtracts no more than the bundle's own bytes, and a start counts the JSON files, which are no
  smaller than the payloads (`SumMono`). `counted` itself may exceed `MaxBytes`, after a restart; then the store only refuses.
* *Sums.* `SumFunctionOnSet` is a fold defined by recursion over subsets, so `SetSums_proofs` first shows that the recursion has a
  solution on every finite set (`SumByPick`) and that the order of the elements does not matter (`SumSplit`). Where a proof would be by
  induction it takes a least set for which the claim fails (`WFMin`) and refutes it; this needs no operator as a parameter.
* *Handled once.* `Remembered`: a bundle that counts as handled is in the receiver's seen
  cache. `mark_seen` empties a full cache even for an id it already has; the deliveries of all its ids count
  from the beginning then, as they do at a restart, and the bundle just handled is the first id of the new cache.
* *Custody.* `Passing` and `Ahead`: as long as a bundle was neither handled nor dropped, every node that
  has seen it, other than its receiver, has a copy "ahead" of it: held by itself, or at or on the way to a node strictly
  closer to the receiver, or to the receiver itself. A deduplicating node therefore never holds the last
  copy, since the rule "only to a strictly closer node" makes every copy move down the rank.
* *Couriers.* `Places`, `Remembered`, `Passing`, `Custody` and `Carried` within `sent` are inductive together, and under them each
  action is the step of `Courier` that section 4 lists (`StepCouriered`). `ForwardCarries` does it for `ForwardOrStore`: the bundle it is called
  for is carried afterwards, or added to `lost`; of the others nothing changes.
* *Isotope.* `OwnerCurrent` is inductive with `TypeOK` and `FileCurrent` (between handlers the
  file equals the memory, and a stopped node has no handler). `AbsorbNewer` carries it: an absorbed atom
  never lowers a clock, and a cell changes for a newer clock only, which is also `ReadsForward`.
* *Deposits.* The invariant `BooksInv` joins `CreditedOnce`, `CreditsSettled` and `FilesCurrent`
  with two facts: only opened ids have a record or a credit (`OnlyOpened`), and the ledger's file never shows more than one credit
  of a deposit that was not forgotten (`FileOnce`), since a restart may read either file. `InvoiceTrue` says what the flags of an invoice
  mean (a confirmed or done invoice of a deposit has a settled record; a done refill was credited), `AskedNew` that an awaited invoice is
  new, `PolledLive` that a poll awaits an invoice that exists: together they make every race of confirmations harmless.
* *Watchtower.* `AlertsDue`: the alerts of a registration and the checks that visit it together are no more
  than all checks. It is kept because an id in the Map has no alert yet (`UntoldYet`), so a check that
  turns to it may be counted anew, and an alert takes away the visit that gave it. `TakenLate` (what a check took
  for expired has expired) gives `KeptUntilTold`.
* *Keys of messages.* `IInv` of `DoubleRatchet_proofs`: no session or message has a key pair that is
  still to be generated (`KnownPairs`), a sending chain is past the keys of its messages
  (`StepsAhead`), and has one sender (`ChainsApart`). A chain is named by its root, whose last
  entry holds a pair that was fresh when it was derived, so a new chain has no messages; the first
  chain of two identity keys holds no such pair, hence the exception.
* *Forward secrecy.* `SInv` adds `Held`, which says of a session s: keys put aside and what is left of the
  receiving chain do not overlap (`ReadSound`); nothing in s was derived for receiving with its present key
  pair; it receives with no chain that its owner has sent with, and reads no key of a message decrypted. The lemma
  behind it (`AfterReceiveReads`) says that one `ratchetDecrypt` either keeps what the session can read or less
  (`Kept`), or adds the one chain that the present pair gives, and replaces that pair (`Stepped`). A reload
  forgets what was decrypted (`Forgotten`), and the session that follows has a new pair, which no message
  was sent or received with. `OpenedOnce` follows, since the key of a decrypted message is gone.
* *Streams.* Chains that agree are told by the length of their root. `Stepwise` and `Sending`: a sending chain has a root of
  odd length and its step is the number of its next message. `Receiving`: the step of a receiving chain is `nr`, a key put aside has the
  step of its number, and only the chain a responder started with has a root of odd length; it is then the chain of the pair
  `remote`, from which everything put aside came. `PutAside`: what the receiver has passed over of its chain is put aside, as long as no
  message was delivered twice. `OneHeader` and `KeysNeverShared` tell messages with equal numbers apart.
* *Field.* `Counts`: every copy of a signal, in memory, on disk or in flight, counts only users who
  resonated, and is fired only with a quorum of them: this is `QuorumReal`. `Deploys`: each Deploy in a queue, and each ion, is
  backed by a fired signal of the same node, so leftovers do no harm. `AllTidy`: a processed signal is settled in
  memory and on disk; while a signal is spun its Deploy is done or still queued; an idle node has nothing to do.
  `Fresh`: the nonces of all signals known, in memory or on disk, are below `next_nonce` there, hence a new id is unknown and
  `FieldGrows`. `Heard` and `AllRipe`: the origin counts each resonance or it is on its way, and a
  copy with a quorum has fired.

Assumptions on the constants of `DoubleRatchet`: the peers differ, and `None` is neither a chain nor a session.

Only model-checked: the liveness properties `DeadOrbitCollapses`, `ServiceSurvivesPublisher`, `HolderDelivers`,
`DecayAnswered` and `BreachTold`, because fairness and `ENABLED` are out of the prover's reach. Every
other property of a passing run is a theorem, without a hypothesis beyond the named assumptions.

## 12. Where code and documents disagree

Shown by a run (`findings` in `PROJECT.json`):

1. `ratchet_fallback`: two sends without a bundle each start the same static chain, so one
   message key encrypts two messages, where `doubleRatchet.ts:8` promises one key per message.
2. `isotope_reads`: a node that wrote a key of another's shard keeps answering its own value after
   a newer one has reached everyone, where `docs/testes-realidade.md:324` expects the greatest clock to prevail.

Seen in the models or read in the code, without a run of their own:

* The last replica of an ion may die: `organism.rs:2418-2423` ("o menor NodeId vivo é o âncora determinístico e nunca recombina
  (invariante: o ion sobrevive)") and `docs/prometheus.md:99-101` ("A última réplica viva nunca morre.") hold without
  crashes (`economy_steady`). But `organism.rs:2438` takes an announcement of the last 180 s for a live replica: when the
  smaller node announces and crashes, the only live idle replica recombines, and the ion is gone until someone deploys it.
* A Build or Test that fails leaves the rest of its pipeline in the flywheel, although the log says the pipeline is
  aborted ("inertia falhou — abortando pipeline"); the next signal's loop spins it, in its own workbench, and deploys the aborted ion.
* `accept_remote_vector` runs the front of the queue, which may be such a leftover, and records that one in `remote_done`.
* After a crash between the broadcast of a signal and the write of `state.json`, the same proposal takes the same id
  again; peers where it has fired refuse to resonate with it (`AlreadyFired`).
* After a migration that failed or that nobody had accepted, a later accepted one of the
  unchanged ion to the same node has the same bundle id and is dropped as a duplicate.
* Tips are broadcast before the ledger is written; a crash refunds them.
* Two equal payments in one second have one voucher id; the second is debited and never credited.
* A holder that missed the receiver's only pheromone, or restarted after it, keeps the bundle
  although it is connected to the receiver.
* `docs/status.md:222-226` says a remote `IonReady` exposes a route only without a local
  chamber; `organism.rs:2085-2116` always exposes it.
* `docs/status.md:215`: the first holder of an ion never broadcasts `IonReady`, so a migrated replica
  learns of its source only if that source is itself migrated or configured.
* A migrated replica has no record in `state.ions`, so a restart forgets it.
* Recombining calls `remove_ion`, which also removes the orbit of the replica that covers the
  ion; heartbeats do not expose it again, so the node cannot route the ion until the next `IonReady`.
* Every holder that hears an `IonAccept` migrates and pays, so replicas may exceed the charge.
* `plasma`'s `SurvivalPolicy.min_replicas` is not consulted by recombination.
* `store_forward.rs` says a full store drops "expired or oldest" bundles; it drops only expired
  ones. `lib.rs:743-744` says `false` means stored; it also means dropped.
* Wallet transfers are signed over one hash and verified over another (`organism.rs:847-925`),
  and `transfer_nonce` is not persisted; planned with the Ledger module.
* `pairedDeposit.js` registers no flusher, so SIGTERM may keep a credit and lose its settlement
  (`forgotten` in `SovDeposits`).
* A deposit is checked before LND is asked and not after: a second invoice of a credited deposit may still be
  issued and paid, and then credits nothing. `specs/007-cliente-deposit-pareado/spec.md:45` (FR-003) has it rejected.
* A status poll makes a confirmed invoice past its time `expired` (`server.js:364`); the credit stays.
* `SocialFabric` answers with its identity pair and no one-time key (`SocialFabric.ts:227-232`), and in the fallback the initial
  chains differ too, so that no direct message opens; "Bob's receiving chain matches Alice's sending chain"
  (`doubleRatchet.ts:239`) needs the bundle's pairs. Nothing calls `initPreKeyBundle`.
* `senderIdentityKey` comes with message 0 only (`doubleRatchet.ts:291`): when a later message of a session is the first
  to arrive, the responder derives another root, and nothing of that session opens.
* Replies do not open (section 7); the test "suporta múltiplos round-trips (bidirecional)" (`doubleRatchet.test.ts:210`)
  serialises the reply and does not decrypt it.
* A failed write of an economy store is logged and not repeated: its file stays behind until the store changes again
  (`economyPersistence.js:61-67`).
* `ratchetDecrypt` advances the receiving chain for a repeated message, which shifts the messages after it; the state
  it was given is changed even when decryption throws.
* An older registration of a channel stays when a newer commitment is registered; when the newest
  commitment is confirmed, the old one sees a breach and broadcasts (`watchtower.ts:201`).
* A justice transaction that was refused is not tried again: the registration is deleted (`watchtower.ts:204`).

## 13. Not modelled, and plan

Done: `IonReplicas`, `IonEconomy`, `Payments`, `DtnRelay`, `Courier`, `Isotope`, `SovDeposits`,
`DoubleRatchet`, `Watchtower`, `TheField`, and their proofs.

Next, in this order:

1. `Ledger`: wallet transfers, nonces, `BalanceSync` and its tie, persistence; abstract
   specification: conservation. Theorems: a transfer applies once; balances stay natural.
2. `SovMarket`: contracts, subscriptions and settlements over the ledger; evaluation repeated,
   restarts between the files.
3. `RefStore` (Giggs compare-and-swap against an atomic register), `SporeBank` (plots and
   index under crashes and several handles), EventHorizon indices.
4. `RelayMesh` and seeds, the Nostr relay pools, the browser's CRDTs and orchestrator, Veil planes and
   bridge; then `IonReplicas` over `Courier`, which `DtnRelay` implements, instead of its own unicast channel.

Not modelled for good: cryptographic and numerical functions (pure, on bytes and matrices), processes,
sockets and proxies (I/O), React components and generated catalogues (no protocol).
