# A TLA+ verification of the EDR

This directory models the endpoint agent, its watchdog and its management server as TLA+ state
machines, checks them with TLC on small instances, and proves some of what is checked for every
instance with TLAPS. Paths below are relative to the repository.

## The system

The repository is an endpoint detection and response system.

* **Endpoint agent** (`agent/`, `crates/`). Sensors (eBPF, netlink, audit, journal, ETW, event log,
  Endpoint Security) produce normalized events (`crates/schema`). A `DetectionSink` runs every event
  through stateless and stateful rules, Sigma, YARA, machine-learned scores and the correlator, fuses
  the evidence per process (`crates/verdict`) and responds (`crates/response`). Events and alerts go
  to sinks, one of which is a durable spool (`crates/store`) that an upload thread
  (`crates/transport`) drains towards the server.
* **Watchdog** (`watchdog/`). Starts the agent, watches its exit and a heartbeat file, restarts it
  with backoff, and keeps a freshly installed release on probation until it has proved itself.
* **Updates** (`crates/updater`, `agent/src/release.rs`, `agent/src/content.rs`). Signed releases of
  the binaries, and signed content (rules) distributed by canary rings.
* **Management server** (`server/`). Next.js routes over one SQL database: ingest of detections and
  events, heartbeats, content releases, cron jobs that group detections into cases, watch ring health
  and find silent agents, and an analyst's console.
* **Offline parts**: model training (`ml/`), the release tool, the lab, packaging.

`PROJECT.json` lists every part under `components` with what is modelled of it.

How the parts that are modelled interact:

```
 sensors --pulse--> SensorSilence --beacon--> AgentLiveness (heartbeat route, silent-agent cron)
    |
 events --> EventSpool <--drain/ack/skip-- EventUploader --batches--> FleetIngest (prevalence)
                \___________ implements TelemetryQueue ___/              |
                                                                   CaseGrouping (cases, narratives)
 RingRollout (content releases) --manifest--> ContentApply (agent disk, rule engines)
      ^ halt
 RingHealth (cron)
 ReleaseUpdate (apply-release | watchdog's probation and rollback)      Watchdog (supervision loop)
```

## Modules

| Module | Models | State and steps |
| --- | --- | --- |
| `EventSpool` | `crates/store/src/spool.rs` | The directory of segments (lines whole, torn, or cut inside a character), the head counters, the segment in flight. `push` with rotation, cap and every way it can stop half way, `drain_oldest`, `ack`, `skip`, `open`, crash. |
| `TelemetryQueue` | (abstract) | What spool and uploader promise together: at least once, a record leaves the disk only delivered or given up (shed by the cap or by `skip`). |
| `EventUploader` | `crates/transport/src/upload.rs`, `agent/src/upload.rs` | The upload thread on an instance of `EventSpool`: batches, the two failure budgets, stop and final drain, restart. |
| `ReleaseUpdate` | `agent/src/release.rs`, `crates/updater`, `watchdog/src/probation.rs` | Two processes on one directory layout, one step per file operation: staging, verification, promotion; probation, proof, rollback, ban list, pruning; host crash. |
| `Watchdog` | `watchdog/src/supervise.rs`, `agent/src/heartbeat.rs` | The supervision loop in polls of half a second, the heartbeat monitor, backoff, probation, the agent and its heartbeat thread. |
| `RingRollout` | `server/app/api/content/*` | The releases of each ring and the request handlers that change them, interleaved at every `await`. |
| `ContentApply` | `agent/src/content.rs`, `crates/updater/src/content.rs`, `DetectionSink::reload_content` | Extends `RingRollout` with one agent: manifest, plan, artifacts, state file, notification, the two engines that run, moves between rings. |
| `RingHealth` | `server/app/api/cron/check-ring-health` | Extends `RingRollout` with a fleet and the cron, query by query, that halts a regressing canary release. |
| `CaseGrouping` | `server/app/api/cron/group-detections`, `server/lib/case-grouping.ts`, narratives | Detections, cases, cron transactions under the advisory lock, narrative generation. |
| `FleetIngest` | `server/app/api/ingest/{detection,events}`, `server/lib/prevalence.ts` | Request handlers statement by statement, stored detections, sightings, pruning. |
| `SensorSilence` | `crates/tamper/src/heartbeat.rs`, `agent/src/silence.rs`, `agent/src/health.rs`, `storeBeacon` of the heartbeat route | Pulses with and without a canary, polls, verdicts, the wall clock; beacons collected, posted, lost, and stored in any order. |
| `AgentLiveness` | heartbeat route, `server/app/api/cron/detect-silent-agents` | Beacons and their requests, `lastSeen`, overlapping invocations of the cron query by query, the cases of grouped detections that its lookup also finds. |
| `EventSpool_proofs` | | Theorems about `EventSpool`. |

`MC*` modules instantiate these for TLC. `MCServer` and `MCLiveness` put components side by side: a
behaviour is one of exactly one component (`part`), so their state spaces add up instead of
multiplying. Where components share a table (agents, detections, cases), each module has what the
others write there as actions of its own. `MCContentApply` does the same with three corners of one module.

Data is abstracted to what the properties tell apart: a record is the number of its push, a file its
lines and size, a release its version and hashes, a detection its agent, technique, severity and
time. Control is kept: every guard, early return and error path that changes state, in its order.

## What the runs check

Bounds are named in the modules (`Max...`) and set in the `.cfg` files or in the `MC` modules.

**`spool`** (4 pushes of 2 or 3 bytes, 1 crash, segments of 2 records or 5 bytes, a cap of 7 bytes,
failing file operations).
`SegmentNames`: a sequence number names one file; `NoSilentLoss`: while no file operation has failed,
a record whose `push` returned `Ok` is on disk, acknowledged or shed; `LossIsCounted`: the counter is
at least what this process shed. This run has no fragment cut inside a character (`MultiByte = FALSE`):
with one, `LossIsCounted` is false, see below. Four pushes
rotate twice and evict; one crash at every step, inside an append included, with a restart and
further pushes.

**`uploader`** (3 pushes of 3 bytes, a cap of 8 bytes, 1 crash or stop, batches of 1, both budgets 2,
failing file operations, of which at most one is a push, and fragments cut inside a character). Three
records exceed the cap, a fragment can be torn or cut, and failures of the two kinds alternate.
`DeletedOnlyIfDelivered`, `BudgetPerSegment`, `ImplementsQueue` (refinement of `TelemetryQueue` with
`stored <- OnDisk, delivered <- received, lost <- shed, broken <- failed`) and `ForwardProgress`, which
promises nothing once a file operation failed or a segment on disk is `Poisoned`. The refinement is
about which records are shed, not about the value of the counter.

**`release`** (3 releases, the second bad, 2 files, 1 host crash, 1 failed file operation):
`ActiveComplete`, `LastProvenStays`, `RollbackToKnownGood`, `BadReleaseLeaves`. These hold under an
assumption the code does not enforce, that apply-release does not overlap a rollback
(`Overlap = FALSE`); `release_bricked` shows what happens when it does. `BadReleaseLeaves` has two
exceptions, which the code has: the heartbeat file of an earlier agent makes the bad agent's first 0
count as progress, and a rollback that fails leaves the release running until a watchdog is started
again.

**`watchdog`** (restart delays 0, 1 and 4 with a cap of 3, stall after 2 misses, deadline 6 polls, one
restart of the watchdog, spawn errors, one `try_wait` error): `NoSecondAgent`, `BackoffGrows`,
`ProvenByBeat`, `HungIsKilled`, `ProbationEnds`. The agents a failed `try_wait` dropped are counted
(`lost`): they are the only ones that run beside the watched one, and `ProvenByBeat` and
`HungIsKilled` except them because they write the same heartbeat file. `BackoffGrows` states the
series of delays for each floor: a floor of 0 stays 0 after a healthy exit, and one above the cap
falls to the cap. Three fast crashes in a row reach the cap from a delay of 1.

**`content`** (2 rings, 2 artifacts with 2 hashes, one of which no engine loads, 2 releases per ring,
1 fault, 2 moves, 2 requests): `RollbackLeavesServing`, `RecordedReleaseOnDisk`, `RolloutReaches`,
`EnginesFollow`. Two releases suffice for a rollback onto an older one and for contents that come
back; two moves take the agent to the other ring and back. The corners are: one ring with faults,
where the contents differ in one artifact and share the other; an agent moved between two rings,
without faults, where a release gives both artifacts the same hash and prod has one release; and two
requests racing without an agent, which says something about `RollbackLeavesServing` only.

* `RollbackLeavesServing`: a ring with releases serves none only by a halt, or by a rollback that
  stands, or died, between its two writes.
* `RolloutReaches` and `EnginesFollow` have a premise, `RunAgain`: apply-content is run again and
  again. Nothing in the repository does that (ADR-0016 says so at line 127), so it is no fairness of
  the model. `RolloutReaches` excepts an agent that came back to a ring whose release it had recorded
  (`CameBack`), and an apply that died between an artifact and its record (`cut`, also excepted by
  `RecordedReleaseOnDisk`). `EnginesFollow` excepts a reload notification that was lost (`missed`).
  Without any one of these exceptions TLC finds a counterexample.

**`server`**: `SilentRingHalted` (a canary ring that stays silent ends with nothing offered; 2 agents
that change twice, 2 releases); `GroupedOnce`, `CaseIsOneStory`, `EverythingGrouped` (3 detections of
2 agents and 2 techniques arriving in any order of time, 2 overlapping invocations, batches of 2, one
timeout); `AcceptedIsStored`, `CountedOnce`, `RecentIsRemembered` (2 requests, possibly overlapping,
dying anywhere; two payloads under one idempotency key or none, event batches stamped in the past,
not at all, or too far ahead; retention and cap of 1). `CaseIsOneStory` bounds a case to a window
after the detection it was opened for; backwards late arrivals move its start, each by at most a
window and together without bound. `CountedOnce` counts posted batches of events one by one: an event
batch has no idempotency key, and one that is repeated is counted again.

**`liveness`**: `OneVerdictPerEpisode`, `VerdictIsTrue`, `SilenceShown` for a sensor with one source
and no canary (as eBPF) and for one with two sources and a canary (as netlink), 2 heartbeat requests
in progress; `OneSilentCase`, `DeadAgentGetsCase` for one agent with two overlapping invocations of
the cron, and for two agents with one.

* `VerdictIsTrue` says nothing once the wall clock was set (see below). A verdict says that a sensor
  was quiet, not that it is broken: one without a canary is quiet on an idle host.
* `SilenceShown` has a premise, `BeaconsArrive`: some beacon is stored, again and again. Delivery is
  best effort and a beacon is never repeated, so it is no fairness of the model. Under it, a sensor
  that stays dead ends up shown silent for good, and one with a canary that stays working ends up not
  shown silent; of a working sensor without a canary nothing of the kind is true.
* `OneSilentCase` allows one case more for each invocation that had looked for a case before another
  one created it (`raced`): nothing locks the check against the create, and invocations may overlap.
* `DeadAgentGetsCase` has an exception: an agent without a hostname whose detections were grouped into
  an open case gets no silent-agent case, because that case's title contains its id.

No agent has a hostname here; `liveness_named` is the same model with one that has.

**Fairness.** Weak fairness of a thread or process stands for the scheduler running it: the upload
thread, the supervision loop, the heartbeat thread, the monitor thread, an apply-release or
apply-content that was started (their requests time out), the crons (a scheduler outside the
repository), time passing, the service manager that restarts what stopped. `ReleaseUpdate` has strong
fairness of `RollBack`. That is a consequence of `Overlap = FALSE`, which disables the rollback while
an apply-release works; in the code nothing disables it, and it happens at the first poll after the
deadline. A working sensor with a canary pulses, and does so within the deadline. No fairness is
assumed of operators, of the network or of the server's answers: where a property needs some, it has
a premise of its own (`RunAgain`, `BeaconsArrive`).

### Disagreements that runs show

* `release_bricked`: `rollback` removes the failed release's directory "so nothing can select it
  again"; an apply-release that already found it staged promotes it afterwards, and `current` names
  nothing.
* `content_rollback`: a rolled-back ring offers a lower version, which `check_release_version`
  refuses on every agent that applied the newer one; ADR-0016 has agents fetch the rolled-back
  manifest.
* `grouping_narrative`: a detection attached while the language model answers is missing from the
  narrative, which is not shown as stale.
* `liveness_named`: the silent-agent cron looks for an open case by the agent's id in a title that
  carries the hostname, so it opens a new case on every run.
* `watchdog_stale`: the heartbeat file of the previous agent is read first, and the new agent's first
  0 differs from it, so a release is proven whose agent has processed nothing; `probation.rs` says
  that the proof is a heartbeat backed by progress.

### Others met while modelling

No run of this state of the project shows these; they were seen while the models were built, and are
recorded for a reader of the code. Where a model contains the behaviour, the property above names its
exception.

* Spool: after an append that failed half way the next record joins the torn line and is lost without
  being counted (`NoSilentLoss` says `~failed`). A segment that is not UTF-8 is evicted without being
  counted, and as the oldest segment it is retried for ever because `drain_oldest` fails before any
  attempt is counted; so is one with no whole record (`Poisoned` in `ForwardProgress`).
* Releases: the ban list is read before staging and not again before promotion; it is rewritten in
  place, and a crash in the middle leaves a file that every later apply-release and rollback refuses
  to read; a proof prunes what is older than its rollback target and leaves a failed release between
  the two as a third tree.
* Watchdog: the heartbeat file is not removed at spawn, so stale values also count as misses during
  start-up. After a failed `try_wait` the old agent keeps running beside the new one.
* Content: two appliers overwrite each other's state; the version is recorded per ring and the hashes
  for all rings, so an agent back in its first ring is told it is up to date with the other ring's
  content on disk; the reload notification is not repeated; a reload that finds broken YARA content
  keeps the old engine, where a restart leaves it off, and Sigma skips what does not load and may end
  with no rule at all. A rollback without a target may activate a halted release, and of two racing
  rollbacks the later may activate a release the other took back. A rollback to a lower target leaves
  other newer active releases in place, which are then served. Two manifests signed for the same next
  version leave a row the manifest route refuses.
* Ring health: rings are compared by absolute counts, so a canary ring smaller than prod regresses by
  its size; the release to halt is looked up after the measurement.
* Ingest: a detection's timestamp enters prevalence unchecked, and an event's only when it is ahead.
  A detection sent without an idempotency key is stored again when it is repeated.
* Liveness: the silence monitor is fed the wall clock; a late beacon replaces a newer one;
  `docs/architecture/control-plane.md:77-79` says that the heartbeat route does not store the beacon
  and that a silent sensor does not reach the console, while the route does store it (`storeBeacon`)
  and the operations page shows it, which is what `SilenceShown` is about; the fleet
  page takes the agents seen last before it sorts by status.

## What is proved

`EventSpool_proofs` proves, for every segment size, cap, record size and number of pushes and
crashes (assumption: `SpoolAssumption`: natural numbers, segments of at least one record and one byte,
records of at least 2 bytes, one and the newline):

* `SegmentNamesHold`: `Spec => []SegmentNames`;
* `NothingLostSilently`: `Spec => []NoSilentLoss`.

`NoSilentLoss` says nothing after a failed file operation, and "shed" in it is the set of records
deleted by the cap or by `skip`, not the counter. Neither is inductive. The invariant `IInv` adds the types of the directory, that no segment is
numbered beyond the head's successor (`Bounded`), which is what makes the number `open` resumes with
fresh, and that while nothing has failed a running spool appends to a file whose last line is
terminated (`HeadClosed`), without which an append would glue two records. The proof has one lemma
per action; the lemmas about files say what `Extend` does to the records of a file and that adding
or removing a segment keeps the records of the others.

Only model-checked: `LossIsCounted` (not attempted), everything in the other
modules, all liveness (out of the prover's reach), and the refinement of `TelemetryQueue`.

## Not modelled, and the plan

The plan, in order:

1. (this state) delivery, updates, supervision, content rollout, cases, ingest, liveness; the spool's
   theorems.
2. The detection path: bounded per-process state, verdict fusion and suppression, stateful rules and
   the correlator, the enrich and YARA queues and shutdown.
3. The response path: kill, escalation, quarantine and restore with crashes between their file
   operations.
4. IPC, configuration and policy reload; sensors' own state (ring-buffer loss, cursors of log tails,
   socket snapshots).
5. Theorems: the refinement `EventUploader => TelemetryQueue`, the release layout's inductive
   invariant, bounded maps for every capacity, ingest idempotency.

Left out for good: parsing and normalization of each platform's event formats (pure functions over
data the models abstract), service installation, rendering of the console, the training pipeline and
the lab, cryptography and TLS (a signature is valid or the manifest is refused).
