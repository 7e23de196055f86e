# AI-Shield: TLA+ models

AI-Shield is a security platform for Windows: three kernel drivers (minifilter, process guard, network
filter), a telemetry broker service that analyses downloads and writes an audit trail, a portable
"Shared Core" library, and PowerShell scripts that sign, apply and recover policies and updates.
This directory models the parts of it whose correctness depends on order, concurrency, failure or
limits, checks them with TLC and proves the most important properties with TLAPS.

Run a check with `tlc -config <cfg> <module>`, a proof with `tlapm <module>.tla`. Line numbers below
and in `PROJECT.json` ("map") refer to the repository.

## 1. The system

| Part | State | Operations | Interacts with | Correct when |
|---|---|---|---|---|
| Minifilter driver (`platform/windows/minifilter/driver`) | table of 4096 file identities with a verdict, policy, broker process id, port, event queue | callbacks for create, write, rename, section, cleanup; IOCTLs for policy, verdict, events; load and unload | the file system, user programs, the broker (port and IOCTL) | unverified content cannot be opened in enforce mode, a closing thread is always released |
| Broker, analysis (`tools/ai_shield_broker`) | request queue, `processed_` stamps, quarantine and its journals | receiver thread, worker thread, periodic scan, quarantine restore command | driver, Defender process, users' files | every pending file is judged, the version judged is the one released |
| Broker, telemetry | last sequence per sensor, audit chain, segment files | poll loop, flush, service start and stop | event queues of three drivers | no event lost silently, none recorded twice, segments verify |
| Audit chain (`src/audit.cpp`) | records linked by digests | append, checkpoint, verify | broker, replay tool | damage of a segment is detected |
| Signed policy (`platform/windows/policy`, `tools/ai_shield_kernelctl`) | pin, state file, three slots, the policy of each driver | initialize, apply, recover | drivers, broker's `runtime-sync` | an interrupted activation is found and repaired |
| Runtime state (`platform/windows/security/secure_runtime_state.cpp`) | primary and recovery file | load, create, update versions, rotate key | policy script, broker | one fault does not lose it |
| Binary update (`platform/windows/installer/binary_update.ps1`) | slots, service paths, state and transaction file | update, recovery at start | services | the recorded slot is the one that runs, or can be returned to |
| Core service (`tools/ai_shield_service`) | failures and retry time per component, Safe Mode, `health.json` | a pass every five seconds, reset by control code | service manager, drivers | a dead component ends in Safe Mode, a repaired one runs again |
| Ransomware recovery (`platform/windows/ransomware`) | objects by hash, snapshots, incidents, conflicts | snapshot, scan, restore, containment, backup | users' files | a snapshot can be restored, nothing is lost by a restore |
| WFP driver (`platform/windows/wfp/driver`) | policy, registered broker, the isolated scanner process | policy and registrations by IOCTL, redirect and authorisation of connections, process exit | broker, scanner, gateway | a scanner never reaches the network |
| Isolated scanner and launcher (`platform/windows/sandbox`, `tools/ai_shield_file_scanner`) | a suspended, then running process in a job | launch in an AppContainer or with a restricted token, register, resume, wait, terminate | broker, WFP driver | it connects to nothing while it runs; a launch that fails or hangs gives no verdict |
| Process guard driver (`platform/windows/process_guard/driver`) | policy, exempt process | process creation, handle creation and duplication, policy by IOCTL | the processes of the machine | control of the protected process does not spread, denied programs do not start |
| Driver services (`tools/ai_shield_driverctl`) | three entries of the service manager, what each driver registers | install, start, stop, uninstall; entry and unload routines | service manager, drivers | exit code 0 means what the command says |
| Flow decisions (`src/pending_decision.cpp`, `src/flow_control.cpp`, `src/worker_supervisor.cpp`) | pending flows with deadlines, token buckets, worker circuits | pend, complete, expire; consume; completed, failed | gateway prototype | deadlines, rates and circuits hold in any order of calls |
| Packages (`src/package_manifest.cpp`, `src/policy_store.cpp`, `src/update_manager.cpp`, `src/model_registry.cpp`) | active, previous and staged policy; two slots with a trial boot; active model | verify, stage, activate, roll back, boot, commit | administrators, start of the machine | versions go forward, a failed trial goes back |
| Replay engine (`src/replay.cpp`) | the events of a recorded flow | parse, execute | the parsers, the scoring and the recorder | evidence reaches the decision |
| Enterprise control plane (`src/enterprise_*.cpp`, `src/fleet_telemetry.cpp`) | devices, certificates, replay memory, store-and-forward queue | enroll, rotate, revoke, validate, push, acknowledge | server side outside the repository | identities are unique, commands run once, telemetry loss is visible |
| Detection (`provenance`, `ransomware`, `causal_graph`, `campaign`, …) | a list of file versions, windows and graphs over events | observe, propagate, approve | broker, replay | an old verdict does not answer for new content, a bounded memory does not hide an attack |
| Content preflight (`zip_preflight`, `dns`, `http1`, …) | none, but for the budget of nested archives | one function per format | broker, scanner, replay | limits hold for an archive and all in it, what was not looked into shows |

The hard behaviours: the driver's callbacks run in the threads of user programs and race the broker's
three threads; a verdict travels twice (a reply on the port, an IOCTL) in no fixed order; requests time
out after 250 ms; tables and queues have fixed sizes; broker, scripts, machine and driver may stop
between any two steps; and several components keep the same fact in two places (table and `processed_`,
state file and slots, state file and runtime state).

`PROJECT.json` lists every component with its status, and the hazards at their lines.

## 2. The modules

| Module | Models | Run |
|---|---|---|
| `VerdictMap` | what the pending table promises: a bounded map from files to verdicts | via refinement |
| `PendingTable` | the slot array behind it | via `Host` |
| `FileGate` | minifilter, broker analysis, users and the restore tool around one table | `gate`, `gate_two`, `whole`, `reply`, `pending`, `reload` |
| `SensorFifo` | what an event queue promises: a bounded FIFO that numbers what it accepts | via refinement |
| `EventQueue` | the ring of `ai_shield_event_queue.h` | via `EventStream` |
| `AuditChain` | records, digests, verification, checkpoint | via `EventStream` |
| `EventStream` | drivers, their queues, the poll loop, the audit writer and its files | `event_stream` |
| `RuntimeStore` | the DPAPI protected runtime state | via `PolicyLifecycle` |
| `PolicyLifecycle` | policy script, kernelctl, slots, drivers, runtime-sync | via `Machine`, `policy_recover` |
| `LeaseClock`, `DeviceRegistry` | enrolment, rotation, revocation and authorisation of devices | via `ControlPlane` |
| `DualControl`, `RemoteCommand` | roles, the four-eyes rule, leases and the replay guard | via `ControlPlane` |
| `FleetTelemetry` | store-and-forward queue, an unreliable network, the collector's validation | via `ControlPlane` |
| `ControlPlane` | the three above, side by side on one clock | `control_plane` |
| `CoreService` | the service that supervises drivers and broker, its back-off and Safe Mode | via `Host` |
| `BinaryUpdate` | slots, service paths, transaction and state file of an update, and its recovery | via `Host` |
| `RecoveryVault` | snapshot, detection and restore of the ransomware recovery script | via `Host` |
| `Host` | the table and these three, parts of one machine | `host`, `safe_mode` |
| `Quarantine` | the quarantine manager: content policy, passes, judgement, vault and journals, the restore tool | via `Machine` |
| `NetworkGuard` | WFP driver, broker registrations, launch and end of the isolated scanner | via `Machine` |
| `ProcessGuard` | process guard driver: handle and launch callbacks under a changing policy | via `Machine` |
| `DriverServices` | driverctl, the service manager, entry and unload routines of three drivers | via `Machine` |
| `FlowControl` | pending decisions, token bucket, worker circuit | via `Machine` |
| `SignedPackages` | manifests, policy store, update slots with trial boots, model registry | via `Machine` |
| `Replay` | the replay engine: events, evidence, merge, score, decision | via `Machine` |
| `ArchiveInspection` | the walk over nested ZIP archives under one budget | via `Machine` |
| `Provenance` | the provenance store | via `Machine` |
| `Machine` | these nine and the policy lifecycle, the parts of a machine that decide | `machine` |
| `FileGate_proofs`, `EventStream_proofs`, `ControlPlane_proofs`, `Host_proofs`, `Policy_proofs`, `Quarantine_proofs`, `Decisions_proofs`, `Machine_proofs` | theorems (section 5) | |

The `MC*` modules only add what TLC needs: symmetry, or sets given as constants.

### PendingTable and VerdictMap

`slots` is `g_PendingFiles`, a slot the pair of identity and verdict. `StoreVerdict` and `RefuseVerdict`
are `AiShieldSetPendingVerdict` with and without a place; `AccessBlocked` is the lookup. One call is one
step because the driver holds `g_PendingLock` throughout. A clean verdict for a file zeroes its slot. A
clean verdict for a file that is not in the table takes a free slot and zeroes it at once, so it needs
one: that is why a full table refuses it, and `VerdictMap` says so.

### FileGate

Files have a version (`content`; the model's stand-in for size and time) and a place: watched, reached
under a transient name, or in the vault. Users open, write, rename and close; the driver's pre-callbacks
mark the file *before* the file system's own step, which is a separate action. A cleanup allocates a
context (`request`), which goes to the port, waits for at most 250 ms (`Timeout` may come at any moment
or when the broker disconnects) and applies the reply in a later step, so that it races the verdict of
the worker. The broker is three threads: `Receive`/`Reply`, which may lose a reply and whose first failing
wait for a message ends it for good while the broker runs on (`ReceiverEnds`), the worker that takes
requests, and the scan (`ScanPick`); `classify_mutex_` makes analysis itself single (`work`). A judgement locks the file (the
broker opens with `FILE_SHARE_READ` only), compares the stamp, decides, submits a verdict or moves the
file to the vault. `RestoreMove`, `RestoreCommit` and `RestoreRollback` are the separate process that
restores from quarantine. `BrokerStart` reproduces the baseline: every file it finds counts as processed.

Abstractions: the two-pass stability check only delays the scan, its limits, journals and copies are
the subject of `Quarantine`, `processed_` is keyed by path and the model keeps it for
the watched path, the policy is read in one step with the handler's decision, files outside the watched
folders and failed name queries are left out, unload and load are one step. History variables
(`cleared`, `released`, `unmarked`) record which version was judged clean, which a restore let through,
and which changed without a place in the table in audit mode.

### EventStream

An event is its sequence number. `Report` is any driver callback that pushes; `Push` drops on overflow
without taking a number. The broker drains sensor 0, then sensor 1, and so on; `InSequence` accepts the
first event of a sensor whatever its number and then insists on the successor. Records form a chain of
free terms, which makes digests injective; a full segment is written with a temporary file and a rename.
`Crash`, `RecordFails` and `FlushFails` end the broker with what it holds in memory; `Start` numbers
files by counting those it finds. The flush deadline has no clock: it may have passed after any pass.

### PolicyLifecycle and RuntimeStore

A policy is its security version and whether its mode is audit. A script is the sequence of calls it
still has to make (`todo`), built by the operator named for the action. `CallFails` makes any call throw
and `Crash` ends the script inside any call: a copy may leave its destination torn, kernelctl may have
reached any subset of the drivers and put some back to audit. Only the primary runtime file is replaced
atomically (`MoveFileExW`). `Copy-Item` and `copy_file` tear their destination, and `Move-Item -Force`
deletes what it replaces before it moves: an interrupted call in `Write-AtomicText` (line 31) may leave no
`state.json`, which reads as version 0 with nothing to recover (lines 121-122), and one in the activation
(line 240) no current slot. `slotLost` remembers the latter. `Damage` ruins a file from outside, once per
file. One script runs at a time.

What the promises come to then: a lost state file names no version, so `SettledIsActive` speaks of one that
is there. `recover` applies the current slot all the same and writes no new state, so that `OutcomeIsTrue`
looks at the slot in that case. `FaultsKeepPolicy`: one interrupted move of the new policy leaves the policy
in the previous slot, from where the next recovery brings it back; a further failing call before that may
cost both slots, and the property names this (`slotLost = "again"`). It speaks of the policy and not of the
state file, which a single interruption can cost; what a lost state file does to the refusal of older
policies is told in section 6.

### ControlPlane and its parts

The enterprise classes are libraries: the repository has their code and tests, the agent and the server
that call them are elsewhere. What calls them is therefore free: any device may enrol, rotate or present
any certificate; any command that was signed may be delivered at any time and again; `Send`, `Collect`
and the network between them may lose, repeat and reorder. The three share a clock and no other state,
so a behaviour exercises one of them (`engaged`) instead of their product. `Deliver` is `validate`
followed by `ReplayGuard::accept`. `approvals` is one list for all commands because an `Approval` names
no command. Sequence number and previous hash of a batch stand or fall together, since the hash covers
the number; the collector that meets a gap waits for ever, which is the worst case for the queue.

### Host and its parts

`Host` puts side by side four parts that share no variable; a behaviour exercises one of them
(`engaged`), so that TLC explores their sum and not their product, and `PartsBehave` proves that each
behaves in it by its own specification.

`CoreService`: `Wake`, one `Look` per component in the order of `g_components`, `Finish`; services stop,
break and are repaired in between. `retry_after` becomes the number of passes to wait, since passes start
at least five seconds apart. `Slow` is the service that starts after the 250 ms the code waits. Storage
(policy file and audit probe) is one choice per pass; opening a device fails where its path is not that of
the device, and `set_kernel_audit` changes nothing then.

`BinaryUpdate`: one action per call that changes something lasting. A call that can throw may do so: the
script ends, or from the `try` on its `finally` runs (`Undo`). `Cut` ends any script between two calls;
a file in the writing is then old, new or unreadable, because `Set-Content` is not atomic. Paths of
services are the slots they lie in. An update may begin while the transaction of another is pending, as
in the script; `slipped` remembers that. `sc.exe config` reports a failure by an exit code that no script
looks at: a path is set (`SetPath`) or stays as it was (`PathStays`), and the script goes on either way; the
health check then says nothing of the package. Hash and signature checks are the choice between going on and
throwing. Drivers already installed by `pnputil` are left out. `UpdateIsSafe` has three exceptions, the
members of `slipped`: "late" (cut off between the record and the removal of the transaction), "unrecovered"
(begun although an earlier one was pending) and "unpointed" (a path that stayed in an activation or in a
recovery). A path that stays in an undo is no exception, for the transaction is still there.

`RecoveryVault`: a content is its own hash, the files of a folder come in a fixed order, and the user (or
what encrypts his files) writes between any two steps. `Save`, `Verify` and `RecordFile` are the three
times the script looks at the file; `CheckObject`, `CopyObject`, `CheckCopy`, `LookAtPath`, `MoveAway`,
`Place` the steps of the restore of one file. A write always changes size or time, so that the script
looks at the hash. `Find-Changes` is one step, an object counts 1 towards the quota, and objects lost
during a snapshot no longer count. `late` remembers what was written to after the restore had looked,
`touched` that the checked copy was, `damaged` the objects damaged from outside.

### Machine and its parts

`Machine` puts side by side ten parts that meet only at services and files each models for itself. A
behaviour exercises one (`engaged`: policy, quarantine, network, process, services, pending, bucket,
worker, store, boot, replay, archive, provenance), the rest stays as it began, and `Machine_proofs` shows
that each behaves in it by its own specification. Deadlock is not checked: several parts simply stop when
their bound is reached.

`Quarantine`: an object is the identity of a file and its content; 0 is no file and no content (a
fragment of a copy). `ScanPass` is one pass over the folders with its two-pass stability and its limit,
cut short anywhere; `ClassifyPending` the driver's request; then `classify` step by step:
`OpenLocked`, `Judge`, `WriteIntent`, and `Move` on the vault's volume or `BeginCopy`, `CopyContent`,
`DeleteSource` across volumes, `Commit`. Every step may fail (`Retry`, which also stands for a hash that
cannot be made and a verdict the driver does not take, and alternatives) and the
broker may die at each. `RestoreMove` to `RestoreVerdict` are the restore, a process of its own that may
be killed at each. `UserWrites` is external: whoever saves, replaces or removes a file that is not locked.
`records` are the three journals as one set. `discarded` remembers the contents users gave up, fragments,
and what a restore going back puts aside in its object's stead. `FileGate` models the same classification
as the driver sees it; the two are not yet connected by a refinement.

`NetworkGuard`: `BeginClassify` copies the policy and `AuthorizeClassify` decides by it later, unless another
filter took the right to decide (`NoRightToDecide`). The process the connection belongs to (`who`) and the
one the callback runs in (`context`) are two: the pointers are compared with the second, the image path is
that of the first. Meanwhile brokers register one over the other (`RegisterBroker`), launch a scanner
suspended in an AppContainer
(`LaunchShadow`) and once more with a restricted token when its DLLs fail to start (`LaunchRestricted`),
put it in a job, register it (`RegisterIsolated`) and only then resume it. A scanner that is terminated
(`CloseScanner`) is "ending" until Windows has removed it (`ScannerGone`); nobody waits for that, so the next
one may be registered before. The exceptions `ScannersAreCutOff` names all concern a scanner outside the
installed path, which only the pointer cuts off. Addresses are left out: only the target of a redirect
depends on them, which is a port here.

`ProcessGuard`: `BeginHandle` and `BeginLaunch` copy the policy, `HandleGranted` and `Launched` return.
`controls` is who has a handle on whom with rights that control it; handles of the system process, which
needs none, those inherited by a child and identifiers that are used again are left out. A launch is abstracted to what the
rules tell apart: the program's list, where its image lies, what its command line does, its parent.

`DriverServices`: install takes three flags with a path each in the order they come, the same one twice or
three times too (`Turn`; which flags they are is chosen as the command comes to them); the other commands
visit the services in the order of `service_specs`. `ExitIsTrue` speaks of the services a command went
through (`served`). Entry routines register
`Stages` in order and may fail after any (`AfterFailure` is what is left then); an entry that is deleted
while its driver runs is only marked; a command may be interrupted and the machine restarted (`Boot`).

`FlowControl`: three objects on one clock, which their callers hand over. `Word` makes the product of
elapsed time and rate wrap. Times reported to the worker circuit may be late; the history `failures` keeps
each failure since one completed as its time and its number among those of that time.

`SignedPackages`: a manifest is its kind, its versions and whether one of its checks fails (`flaw`).
Several administrators share one store: each compares with what it read earlier, before or after staging.
Nothing is assumed of the versions: a policy version may stand for two packages and may be 1. The activation
compares policy versions and not security versions, so it can go back in three ways, which
`OwnActivationGoesForward` names: the package is another's, the administrator looked again after staging, or
the policy version stood for two policies (`Ambiguous`). The anchor of an update is the version that runs.
Commits of a trial boot may find it unhealthy at any time.

`Replay`: what the text of a payload, an HTTP head or frames are found to be (`Markers`, summaries) is a
choice, and so are the events and their order; the scoring, the merge and the decision are the code's.
Of flow numbers only that a process has the flow's own is told apart; the edge of the largest number is
left out. A process, service or file event replaces an earlier one of its kind, as in the code
(`replay.cpp:283`, 319-325, 336): `LastEvidenceDecides` says that the last one, and everything the payload
shows, reaches the decision, and nothing of what was replaced.

`ArchiveInspection`: what a directory says of its entries is a choice; the walk, the shared budget, the
flags and their way up are the code's. Decoding is a yes or no; the refusal of empty archives and of
those over 256 MiB, and running out of memory (`out_of_budget`), end the inspection as a whole and are left
out.

`Provenance`: the list of entries in order, searched from the front, for files with a content. The destination
of a copy or a rename is what the caller says, its content included (`provenance.cpp:31-50` compares nothing);
`passedOn` remembers the contents an allowed file was said to have become, which `AllowedWasApproved` excepts.

## 3. The runs

| Run | Instance | Shows |
|---|---|---|
| `gate` | 1 file, 2 versions, 2 requests, queue of 1, enforce | the judged version is the locked one (`AnalysisIsExclusive`); read handles go to allowed content (`ReadersOpenVerified`); a changed and closed file is judged in the end, also when the receiver thread is gone (`ScanReaches`) |
| `gate_two` | 2 files, table of 1, both modes | unverified content is in the table, also when it is full: the refusal keeps the gate closed, audit mode's unmarked changes are the only exception (`GateCoversUnverified`) |
| `whole` | 1 file, both modes, restore and reload | a restore opens only by its committed verdict (`RestoreOpensByCommit`); every closing thread is released with nothing assumed of the broker (`EveryCleanupEnds`) |
| `event_stream` | 2 sensors, queues of 2, 3 events each, segments of 3 | every accepted event is recorded once, in order, or was lost with a broker, a segment at most (`TrailIsWhole`); damage shows, all of it with a checkpoint (`DamageIsDetected`); the ring is a FIFO, segments are kept, records reach the disk |
| `control_plane` | 2 devices, 3 serials; 3 commands against a memory of 2; 4 batches against a queue of 2; 3 instants | credentials have one owner, refusals stand; commands fresh and not again while remembered, approved by two people (`FourEyes`); critical batches kept, losses counted once (`LossIsHonest`) |
| `host` | table of 3 for 4 files; 2 components, threshold 3; 3 packages, one bad; 2 files, 2 contents, 2 snapshots | the slots answer as `VerdictMap` does; sick components counted, dead ones end in Safe Mode, repaired ones run; the recorded version runs and what an undo returns to is intact, but after the three exceptions (`UpdateIsSafe`); snapshots are stored and bring back what was recorded (`VaultIsTrue`), restores lose nothing (`ReplacedIsKept`) |
| `machine` | see below | the 17 properties of the table below |
| `reply`, `pending`, `reload`, `policy_recover`, `safe_mode` | | disagreements with the documentation, section 6 |

| Part in `machine` | Properties |
|---|---|
| policy | a state file that is there tells the truth (`SettledIsActive`), outcomes do (`OutcomeIsTrue`), faults alone leave the policy in a slot (`FaultsKeepPolicy`), one kind of fault leaves the runtime state readable (`StoreSurvivesOneFault`) |
| quarantine | no content is lost by moves, failed copies, crashes or restores (`ContentIsKept`); what is in the vault was seen and intended, what is committed is whole (`JournalIsTrue`) |
| network | no connection of a scanner in the installed path is permitted, nor of another while its broker is the registered one, it was not terminated and the callback runs in it (`ScannersAreCutOff`) |
| process | control of the protected process does not spread, denied programs do not begin (`PolicyIsEnforced`) |
| services | a command that ends with 0 did what it says to each service it went through (`ExitIsTrue`) |
| pending, bucket, worker | no timed answer counts at its deadline or later (`AnswersAreInTime`; an answer without a time is not looked at); the rate holds over any stretch of time (`RateIsBounded`); an open circuit had its failures in one window (`CircuitIsEarned`) |
| store, boot | who activates what it staged, over what it staged it against, goes forward (`OwnActivationGoesForward`); a failed trial goes back to what ran before (`FailedBootGoesBack`) |
| replay, archive, provenance | the last record of each kind and all of the payload decide (`LastEvidenceDecides`); one budget for all nested archives, what was skipped shows (`ArchiveIsBounded`); only a content that was approved, or reported for the copy of an allowed file, may be executed (`AllowedWasApproved`) |

Two requests are the smallest number in which one times out while another is in the queue, a queue of
one overflows with the second, and two versions let content change under an analysis. A segment of
three with three events per sensor gives full, partial and empty segments across restarts. Two policy
versions give a current and a previous one, each applied again when state.json is lost; more of them are
left to the theorems. Two drivers give a policy that reached one and not the other. In `control_plane` three instants with a longest lease of two make a lease that is
too long and a command at each end of its lease; a memory of two with four executions lets a command
come back after a flood; four batches of all five priorities meet every case of a full queue of two.

In `host` one more file than slots makes every refusal happen; a driver and the broker are a component
with and one without a device; a threshold of 3 with an exponent limit of 3 keeps the order of the code's
5 and 6, in which back-off passes lie between the failures; two stops, a reset and a restart of the
service interleave with them; services break and recover without bound. Three packages, of which the
second does not come up, give a success, a failure and a success in either slot. Two files, one of them a
canary, two contents, two writes, two snapshots and one damaged object are enough for every property to
fail when the step it is about is changed; two contents never exceed the quota of two objects, whose only
effect is that a file is skipped like one that vanished.

`host` reaches 0.6 million states, `machine` 1.5 million, of which a fourth are the policy's with every
call failing or cut off. In `machine`, part by part: two versions, two drivers, the current slot and the primary
runtime file damaged from outside; a damaged previous slot is in `policy_recover`. Two paths, of which one lies
on the vault's volume, make a rename and a copy; a pass limit of one leaves a candidate for the next pass;
two files (a copy is one) give a file and its copy, or a file and its successor at the path. Two brokers
give a registration that replaces another while the first one's scanner runs, and two scanners one that is
terminated and still there when the next is registered; ports 443 and 445 are a
redirected and a worm port. Three processes give the protected one, its holder and one that duplicates
from the holder; two policies let a callback decide by the old one. One restart of the machine meets every
mark and start type. Three flows exceed two places; a bucket of 3 with 2 tokens in 3 ticks and a word of 8
truncates and wraps; a crash limit of 2 in a window of 2 over 6 instants gives failures in one window, in
two, and before it. Eleven packages are of every kind, in order and out of order, two of one policy version
and one with a broken signature; two administrators interfere. Archives of at most two entries, one level of nesting, 2 bytes an
entry and 3 in all reach each limit from both sides, the last one only together. Two files, two contents
and three entries let a version be recorded, approved, copied and overtaken.

Fairness. `KernelFairness` covers what the kernel itself drives: a context that was allocated is sent,
a wait ends by reply or time-out, a received reply is applied. `BrokerFairness` adds that the broker is
started by the service manager and that its threads run (weak fairness; strong fairness for picking and
locking a file, which users may interrupt again and again). The receiver is the exception: it may end at
any time, so nothing that must happen may rest on its answers. `ScanReaches` still has a disjunct for files
nobody closes. In `EventStream` threads are weakly fair and the deadline, which must be past sometimes,
strongly fair. In `Host` the passes of the service are weakly fair (`ServicePass`): its loop has no exit
while the process lives, and the service manager starts it again. `Machine` has no fairness: nothing in
the repository schedules `recover` or restarts a failed command, and the core's objects do only what they
are called for; nor has `ControlPlane`, whose callers are not in the repository.

## 4. Model-checked only

Every invariant and every action property of the passing runs is also a theorem of section 5. Left to TLC:

* Liveness (`ScanReaches`, `EveryCleanupEnds`, `RecordsReachDisk`, `DeadEndsInSafeMode`,
  `RepairedRunsAgain`): what depends on an enabled action or on fairness is out of the prover's reach.
* The five disagreements of section 6, each of which is a counterexample.

## 5. Theorems

All of them hold for every value of the constants that satisfies the assumptions stated beside the
constants: limits are natural numbers, positive where the code's are, and values that stand for "nothing" or
"unreadable" are no ordinary ones. Induction over data is out of the prover's reach as a rule that takes an
operator; where a proof needs one (the fold of the four-eyes loop, the walk over nested archives, the first
slot of a file), it is made with the least counterexample, whose existence (`WFMin`) is a first-order fact.

### The table, the update, the recovery script and the supervising service: `Host_proofs`

*Pending table.* `TableTypeCorrect`, `OneSlotPerFile`, `CleanLeavesNoTrace` and the refinement
`TableImplementsMap`. The first three speak of the type, `UniqueIdentities` and `NoStoredClean` and need no
run of their own: `host` checks the refinement, which fails without them. The inductive invariant is the
conjunction of type, unique identities and zeroed free slots: uniqueness alone is not inductive, because a
store into the first free slot is right only if the file is nowhere else, which is what `IsTarget` tests.

*Binary update.* `UpdateStaysSafe` (with `RecordIsWhatRuns` and `FallbackIsKept`) from `UpdateInv`, whose
part `Ordered` says for every step of an update which slot each service is configured for and what the slots
hold; neither half is inductive, because both hold in the middle of an update only through what the
transaction still remembers. A path that stays where it was is carried through as far as it is harmless, in an
undo; anywhere else it is the third exception.

*Recovery script.* `VaultStaysTrue` (`SnapshotsAreStored`, `BaselineIsRestored`, `RestoredWhole`) and
`NothingIsLost` from `VaultInv`: each object holds what its name says or was damaged, each record taken so
far has its object, each incident names files its snapshot recorded, and what a restore has replaced,
reported missing and not yet come to is always the whole incident.

*Supervising service.* `HealthStaysHonest` from `HealthInv`: during a pass, the count so far covers the sick
components among those the pass has been at. The property alone says nothing of the middle of a pass.

`PartsBehave` carries all of it over to `Host`.

### The download gate: `FileGate_proofs`

`GateTypeCorrect` (in place of a run) needs to know that a request on its way belongs to a context
(`InFlight`). `UnverifiedIsGated` and `ReadersSeeVerified` rest on `GateInv`: a file with a mutation under
way is marked (or in `unmarked`), the file of a locked judgement has no writer and still is the version
listed. With the restore tool and reloads of the driver, `AnalysisExclusive` and `ReleaseOpensRestored` rest
on `HeldInv`. There the gate's own invariant fails: an object may be taken back into the vault after its
content was allowed, and then it is in no table. What holds instead of an object nobody released is that
there it either is in the table or would be allowed under the watched name it goes back to, and that nobody
has it open for writing while it is in the vault.

### Event queues, poll loop and audit trail: `EventStream_proofs`

`QueuesImplementFifo`: the ring of every capacity is the bounded FIFO `SensorFifo`; what
waits in it are the last accepted numbers, in order, from the read index on (`RingsOK`). `WrittenSegmentsStay`, `TrailStaysWhole`
and `DamageShowsAlways` rest on `StreamInv`: the rings, the poll loop's position in them, files numbered
without a gap, every chain (those of the files and the one in memory) well formed, and per sensor the
records of all files and of the chain in ascending order and complete but for what a broker took with it, up
to the number due next. A hash at the end of a chain pins all of it (`RootPinsChain`, by the last
record that differs), which is why a checkpoint lets nothing else pass.

### Signed policy: `Policy_proofs`

`PolicyInvariant` is the inductive invariant: types; `StateIsTrue` (while a state
file is there and records no activation, the current slot holds the version it names or is damaged, and the
drivers enforce that version or audit); `Undamaged` (without damage the current slot holds what the state file
names or something newer, or an interrupted move has removed it and the previous slot holds that until
something fails again); `StoreOK` of the runtime state's two files; and `Progress`, which says for every rest of a
script (`todo`) what slots, drivers and state hold when that rest is still to run. `Progress` is what makes
the rest inductive: between two calls of a script none of the promises holds for itself. From it
`SettledPolicyIsActive`, `OutcomesAreTrue`, `FaultsCostNoPolicy` and `StoreStaysLoadable`, for every number
of versions and drivers.

### The enterprise control plane: `ControlPlane_proofs`

`CredentialsStayUnique` and `RefusalStands` from the registry's type and uniqueness, which is inductive
because `rotate` looks at every device but its own. `CommandsStayFresh` from `CommandInv`, whose part
`GuardRemembers` says that the two memories hold the ids and nonces of the last commands run, in order: the
fact that makes forgetting the oldest harmless for all younger ones. `FourEyesHold`: after any of the
approvals the loop of `require_dual_control` has found the person of the first that counts and of the first
that counts of somebody else (`LoopFinds`); so it ends with a second person exactly if there is one,
and a command of high impact was approved by two. An approval that names nobody does not count. `LossStaysHonest` from `FleetInv`: the queue
is in ascending order, each number belongs to one batch, and the collector has every batch below the number
it expects, so that a confirmation, however late or repeated, drops a front of the queue that the collector
has; and everything else that is gone was counted.

### Quarantine: `Quarantine_proofs`

For every set of paths on either side of the volume and any number of files.
`JournalStaysTrue` rests on `JournalInv`, the conjunction of what is known of the disk, the vault, the
listed candidates, the classification and the restore under way, and commits: a file at a path of
another volume is nowhere else, an object placed or committed is no fragment, neither in the vault nor on
its way back. `ContentStaysKept` rests on `ContentInv`: while a copy is compared and not yet trusted the
source still holds the content, and whatever the vault or a restore has of a file still at its path is that
content, nothing, or something discarded, which is why removing either loses nothing.

### Flows, packages, events, archives and files: `Decisions_proofs`

`AnswersStayInTime` (`PendingInv`); `RateStaysBounded` (`BucketInv`: what was let through and what is left
stay within what the bucket held and gained up to the last refill, and a product that wraps is worth less
than the time, not more); `CircuitStaysEarned` (`CircuitInv`: the supervisor counts no more failures than
happened within the window it has open, reports that come late included); `OwnActivationIsForward`
(`StoreInv`: what is staged is above what its author read when it staged, and every policy read was active
once, so that without an ambiguous version the policy expected is the policy compared with);
`FailedBootFallsBack` (`BootInv`); `LastEvidenceStays`: a merge keeps a part that is
full and the left operand's integrity, so that each kind of evidence is still there at the decision and
enough for it alone; `AllowedIsApproved`
(`EntriesInv`: the content of every allowed entry was approved, or passed on by a caller); `ArchiveStaysBounded` (`ArchiveInv`: what
was not looked into at some level shows in the flags of an archive still open, or the verdict).

### Guards, services and the machine: `Machine_proofs`

`ScannersStayCutOff` from `ScannersInv` (the running scanner of the registered broker is the isolated one from
its registration on, each scanner that was not terminated is its broker's own, and one a callback is about is
there until it has decided), for every set of brokers, scanners, programs, ports and policies, with the exceptions the
property names; `PolicyStaysEnforced` from `GuardInv`: a callback decides by the policy in
force, or is about a handle or program that was on its way before it. `ExitStaysTrue` from `ServicesInv`: as
long as a command has seen no failure, what it promises holds of the drivers it has been at, in whatever order
and however often, entries marked for deletion and drivers that still run included. `PolicyKeepsPromises`,
`VaultKeepsPromises`, `DriversKeepPromises` and `DecisionsKeepPromises` carry these and the last three modules
over to `Machine`.

## 6. Disagreements with the documentation

* `reply`: the driver stores the PENDING of the port reply even when the worker's clean verdict came
  first; the verdict documented as final is undone and nobody is left to judge the file.
* `pending`: a restarted broker takes files that are still pending as processed, so the periodic scan,
  documented as the recovery path, never looks at them.
* `reload`: unloading and loading the driver opens what was pending or quarantined.
* `policy_recover`: with no activation pending, `recover` gives up on an unreadable current slot although
  the previous one verifies.
* `safe_mode`: the device names in the service's table lack two backslashes, so that its attempt to put
  the drivers into audit mode fails unseen, and the Safe Mode it reports leaves them enforcing.

Observed, without a run: after a failed `runtime-sync` at the end of an activation the new policy stays
active while `start_ai_shield.ps1` reports the previous one as restored; a crash between the state file
and the removal of the transaction in `binary_update.ps1` makes the recovery run the previous slot while
the state names the new one, and the next update stages into the slot that runs; the device registry
accepts serials and keys that were used before a rotation, which its documentation lists as detected. A
package staged during a trial boot overwrites the version the system would fall back to, so that a failure
then runs a version that never booted (`FailedBootGoesBack` names this as its exception); in the policy store an
administrator may activate another's staged package without having seen it, or its own over a newer policy it
looked up after staging (exceptions of `OwnActivationGoesForward`). A scanner outside the installed path loses
its isolation when another process has taken its broker's place, or the next scanner its own (exceptions of
`ScannersAreCutOff`). When `sc.exe` fails in an update, the old binaries pass the health check and the new slot
is recorded; when it fails in the recovery, the transaction is removed and a rollback reported that did not
happen, where `docs/PROTOTYP_HANDBUCH_DE.md:136` has the next start roll back (the third exception of
`UpdateIsSafe`). An interrupted write of `state.json` can lose the file; `apply` then compares with version 0
and takes a repeated or older policy to the kernel, where `docs/PROTOTYP_HANDBUCH_DE.md:582-583` has it
refused, and only the runtime state, asked after the kernel, still knows the version. `ai_shield_driverctl install --wfp a --wfp b --wfp c`
ends with 0 and leaves two drivers out. A verdict of the provenance store goes to whatever content its caller
names for a copy. When `FltStartFiltering` fails, the
minifilter's entry routine unregisters the filter with its communication port still open (`AfterFailure`
in `DriverServices`).

## 7. Plan

Done: the pending table and its refinement, the file gate with broker and restore; event queues, audit
chain, poll loop; policy lifecycle and runtime state; the enterprise control plane; core service, binary
update and recovery script in `Host`; quarantine, drivers, services, decisions, packages, replay, archives
and provenance in `Machine`; the theorems of section 5. Left, in order:

1. A refinement from `Quarantine` to the classification of `FileGate` (its stamps are `processed`, its
   vault the place "vault"), so that the gate's theorems cover the journal's crash points.
2. Proofs of what that refinement and the parts below add; every safety property checked now is proved.
3. Containment and its release, and the external backup, in `RecoveryVault`; key rotation in
   `RuntimeStore`.
4. The windows of the ransomware and campaign detectors, with events out of order at a window's edge.
5. The session limiter, the egress gate and the fail policy, as operators against a table; enterprise policy
   envelopes.

## 8. Not modelled

Whole components: enterprise policy envelopes, ABI validation and translation, retention, incident and
support packages (functions of their input, without state); the gateway prototype (forwarding between
sockets); installation and hardening scripts (one-shot configuration whose state lies in Windows); the
private desktop edition, tray and user interface; integrations with other systems; cryptography (digests are
injective terms, a signature is a yes or no).

Of the parts that are modelled: counters of `GET_STATUS`, path matching and failing name queries of the
minifilter; the wording of journals and status files; key rotation and legacy keys of the runtime state;
drivers `pnputil` installed in an update; handles a child inherits and process identifiers used again in the
process guard; containment, external backup,
dry run and access lists of the recovery script; the rights a launched scanner gets and the parser pool; the
session limiter, egress gate, fail policy and flow states; protection modes other than the one a replay
uses; the ransomware and campaign windows, the sequence model and the causal graph beyond its refusals; the
parsers of single formats. `PROJECT.json` gives the reasons component by component.
