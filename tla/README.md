# Verification of thinkpad-hpd

TLA+ models of the human-presence daemon, the desktop agent, its input monitor,
the sample decoder and the settings path of this repository, the TLC
configurations that check them on small instances, and TLAPS proofs of the
safety properties of daemon, agent, input monitor and settings, and of the
decoder's bounds, for every value of the constants.

    tlc -config AgentSafety.cfg MCAgentCycle # model-check a run
    tlc -config Settings.cfg Settings        # a module without an MC module
    tlapm AgentProofs.tla                    # check the proofs

`PROJECT.json` lists the runs with their configurations, the source lines every
definition models, the slips (mutants) that each property detects, the hazards
of the code, the disagreements between code and documentation that the runs
show, and the theorems.

## 1. Inventory

| Part | Source | State | Operations |
|---|---|---|---|
| system daemon | `src/service.rs` `run_daemon` | published `PresenceState` behind a lock, the flag `running`, the sample channel (32), the bus name | startup, select on sample or SIGTERM, four signals per change, shutdown with a 2 s limit |
| IIO reader | `src/iio.rs`, the thread of `service.rs:149` | `buffer0/enable`, the scan element, the device file | `open` in five steps with partial undo, poll with 250 ms, decode, `Drop` |
| desktop agent | `src/agent.rs` `run_agent` | 12 locals: presence, two deadlines, four request/ownership flags, OSD memory | startup, select on signal, owner change, tick of 250 ms or SIGTERM |
| policy | `agent.rs:306-466`, `config.rs` | none (pure) | `should_lock`, `should_wake`, `should_arm_wake`, `should_monitor_input`, `should_show_osd`, `presence_deadlines`; reported by `effective_policy`, `simulate_policy` |
| lock marker | `agent.rs:20-73` | the file `locked-by-agent` in `$XDG_RUNTIME_DIR` | mark, clear, is_marked |
| desktop services | `src/screensaver.rs` | none; the locker and the panel are external | GetActive, Lock, SimulateUserActivity, Turn Off Screen, OSD |
| input monitor | `src/activity.rs` | map from device to task, a watch channel with the time of the last input | hotplug and 30 s audit reconcile the map; device tasks forward events |
| configuration | `src/config.rs` | `/etc` and user TOML files | load, merge, validate, atomic save |
| command line | `src/main.rs` | none | `settings` get, set, defaults, reset; one-shot printing commands |
| KDE module | `kcm/` | form fields, "needs save", an error text | load, save (settings, then systemctl), defaults |
| units | `packaging/` | systemd's | start by udev, bounded restarts, runtime directory kept across restarts |

**Interaction.** The reader thread sends samples to the daemon's main task over
a bounded channel; the main task writes the state and emits D-Bus signals. The
agent calls `GetState`, and receives `PresenceChanged` and owner changes on two
streams. Input devices reach the agent through a watch channel. The agent calls
the session's ScreenSaver, and records its own locks in the marker file, the
only thing that survives a restart of it. The KDE module and a terminal write the
policy file by `thinkpad-hpd settings`; the KDE module then has systemd restart
or disable the agent, which reads the file when it starts.

**What is hard.** `tokio::select!` takes ready branches in random order, so the
two streams have no order between them; the tick reads clocks and flags and
then awaits the OSD, the lock state, `Lock`, a delay or `SimulateUserActivity`;
processes crash or are stopped at every await; calls fail, with or without
having been executed; the daemon comes and goes; the reader thread may be
blocked when the main task stops reading; `open` can fail half way; SIGTERM is
heard only at some points. Device nodes appear before they are readable and
their paths are used again; a save of the settings is four commands, each of
which can fail or outlive its time-out, while others write the same file.

**What makes each part correct.**
- Agent: no interval of another presence counts (deadlines); a lock by HPD is
  recorded for as long as it is owed a wake; a wake needs a recorded lock or the
  armed opt-in; a completed return is not woken again; flapping does not re-arm;
  locks need real idleness; nothing happens that the policy forbids; a confirmed
  absence is acted on, a return is seen and woken, and nothing left over keeps an
  owed wake back; the view of the daemon converges.
- Daemon: clients know the state at every wait; only mapped values count as
  available; sysfs is clean after every exit, unless a kill, the buffer length or
  a failing clean-up write excuses it; the two flows never wait for each other;
  the newest sample is not lost, and the state follows the sensor.
- Decoder: a sample decodes to the number that its field means, or to an error;
  no accepted layout reads out of bounds or shifts by too much.
- Input monitor: devices that stay get watched, tasks are neither lost nor
  doubled, and nothing that keeps the map cuts off a task that works.
- Settings: the file is always whole and replaced atomically; a policy that was applied is the one that
  runs; a form without an error shows what is saved; the window does not freeze.

## 2. Modules

| Module | Contents |
|---|---|
| `HpdPolicy` | The pure decisions. An `Instant` is its age, capped where it passed every threshold it is compared with; `None` is the absent `Instant`. The policy record carries the validated ranges of `config.rs`. `EffectivePolicy` and `SimulatePolicy` are what the command line reports of the decisions. |
| `PresenceService` | Abstract: what the daemon promises its clients. The name comes with a state, a state is told before the next one is made, and is told unless the daemon ends. |
| `LockOwnership` | Abstract: who owns the lock. A claim is made before a lock is asked for, for an unlocked screen only, and ends only when nothing is owed. |
| `PolicyStore` | Abstract: what the `settings` commands promise about the saved policy. A command replaces it in one step or changes nothing, and a power failure brings back a value it had before. |
| `Agent` | `run_agent` with the desktop and the daemon; `Presence` is an instance of `PresenceService`, `LockOwner` maps it to `LockOwnership`. |
| `AgentCycle` | `Agent` and an observer of return cycles (`completed`, `rested`). `completed` survives restarts, as the user's memory does; `rested` is reset with the process, because a restarted agent must see an absence of its own before a manual lock may be woken. |
| `Daemon` | `run_daemon`, the reader thread, the channel, sysfs and the kernel buffer; `Published` maps it to `PresenceService`. |
| `ScanLayout` | `ScanType` and the checks of `ScanType::parse` over parameterised widths, apart from `IioDecode` so that it can be proved about. |
| `IioDecode` | `ScanType::decode` and the reader that uses it, over `ScanLayout`. |
| `InputMonitor` | The hotplug loop, the map of tasks and the tasks of `activity.rs`, with the kernel and udev. |
| `Settings` | The policy file, the `settings` commands, the KDE module, the agent's unit and the disk; `Store` maps it to `PolicyStore`. |
| `MCAgent`, `MCAgentCycle`, `MCDaemon`, `MCInputMonitor` | Small policies, raw values, devices and initial states for TLC. |
| `AgentProofs`, `CycleProofs`, `DaemonProofs`, `InputProofs`, `SettingsProofs`, `LayoutProofs` | Theorems and proofs about the invariants, the action properties and the operators. |
| `OwnershipProofs`, `StoreProofs` and the last section of `DaemonProofs` | The proofs of the three refinements. |

**How they are joined.** The product of `Daemon` and `Agent` is too large to
check as one. Instead the run `Daemon` shows that the daemon implements
`PresenceService` with its fairness (`ImplementsPresence`; a service exists while
the bus name is owned, and `Told` is "the clients heard last what `GetState`
answers"), and `Agent` takes its daemon from an instance of the same module.
`FollowsOwnership` is the second refinement: `claim` is the marker file, `asking`
the request a tick is parked at, which a crash forgets, and `armed` the opt-in,
an input of the protocol. `ReplacesAtomically` is the third: the value is what
the name of the file leads to, durable is what it leads to after a power failure,
and the steps of a `settings` process before its rename or removal are one
`asked`. `InputMonitor` justifies two things that `Agent`
assumes: input of a watched device reaches `last_activity` (`InputIsForwarded`),
and only a failure of the hotplug loop can end the monitoring (`MonitorStops`).

### Agent: state and actions

`pc` is the await at which the one task is parked: the startup awaits
(`connect`, `initLock`, `subscribe`, `subOwner`), the select, and the awaits
inside a branch (`getState`, `osd`, `queryAway`, `lockCall`, `lockDone`,
`offDelay`, `queryPresent`, `wakeCall`, `wakeDone`). The locals of `run_agent`
keep their names. What the code does between two awaits is one action. Calls
that change the desktop are two steps, executed by the server and answered;
calls that only read are one step, the moment the server answers.

| Code | Actions |
|---|---|
| startup, `agent.rs:75-111` | `Start`, `Connect`, `ReadInitialLock`, `SubscribeSignals`, `SubscribeOwner` |
| signal branch, 115-141 | `HandleSignal` (unavailable, transition, unchanged) |
| owner branch, 142-173 | `HandleOwnerLost`, `HandleOwnerGained`, `GetStateReply`, `GetStateFails` |
| tick, 174-214 | `TickQuiet`, `TickWithOsd`, `OsdReply` |
| away, 214-245 | `QueryFails`, `QueryAwayLocked`, `QueryAwayDryRun`, `QueryAwayMark`, `LockExecutes`, `LockFails`, `LockReply`, `TurnOffScreen` |
| return, 246-278 | `QueryFails`, `QueryPresentUnlocked`, `QueryPresentWait`, `QueryPresentDryRun`, `QueryPresentWake`, `WakeExecutes`, `WakeReply` |
| ends, 280-287 and every `?` | `Shutdown`, `CallFails`, `LockFails`, `Crash` |
| `activity.rs` | `UserInput`, `MonitorStops` |
| daemon, user, time | `ServiceStarts`, `ServiceWrites`, `ServiceAnnounces`, `ServiceStops`, `UserLocks`, `UserUnlocks`, `Elapse` |

`owed` (HPD locked this screen and has not woken it) and `input_age` (age of the
last real input) are what the user knows; the agent never reads them. A lock
that was executed but reported as failed (`replyLost`) is not owed a wake: the
agent has been told that there is none and has rolled its marker back.

### Daemon: state and actions

`main` is the await of the main task, `reader` the place of the reader thread.
The channel `chan`, the flag `running`, the sysfs switches `buffer` and `scan`
and the kernel's queue `kbuf` lie between them.

| Code | Actions |
|---|---|
| startup, `service.rs:98-149` | `Start`, `ReadCurrent`, `Publish`, `Announce`, `StartupFails` |
| select, 173-219 | `ReceiveError`, `ReceiveUnmapped`, `ReceiveMapped`, `Emit`, `EmitFails`, `ShutdownRequested` |
| end, 221-234 and the drop of the runtime | `ReaderAwaited`, `RuntimeEnds` |
| reader, 149-171 with `iio.rs` | `OpenBuffer`, `OpenFails`, `CheckRunning`, `PollTimesOut`, `ReadSample`, `ReadFails`, `Send`, `CloseBuffer` |
| systemd, sensor | `Sigterm`, `Kill`, `Measure` |

The undo of a failed `open` and the `Drop` of the buffer write "0" and ignore
whether that worked: `SwitchOff` does the two writes, and with the fault `cleanup`
any of them may fail and leave what it should have switched off enabled.
`excused` remembers that the process was killed, could not write the buffer
length, or failed a write of its clean-up, for as long as nobody has opened or
closed the buffer in full since: the only exits after which sysfs need not be
clean. So `CleanExit` says that the clean-up is made on every other way out, and
nothing of one whose writes fail. `ReaderIsLate` names what the two seconds of
`time_out_reader` can run out on: a full channel, and a device that is slow to
open or close.

### IioDecode: state and actions

`ScanLayout` has the texts, the checks and the result of `parse`. A layout text
is parsed once (`Parse`, `ParseFails`), then the driver writes any
word of the storage width (`Measure`), in the byte order of the layout, and the
reader decodes its bytes (`Decode`, `Send`, `DecodeFails`, `ReadFails`). The byte,
the `u64` and the `i32` have widths that are constants, and shifts take their
amount modulo the word as a release build does. `Meaning`, the reference, is the
weighted sum of the bits of the field. `parse` does not compare
`real_bits + shift` with the storage; such a field has zeros for the bits that
the storage lacks, in the code and in `Meaning`.

### InputMonitor: state and actions

A device is one life of a piece of hardware. `place` and `readable` are what the
kernel and udev did, `events` the inotify stream, `monitors` the map of
`reconcile_devices`, `task` the tokio task of a device, in the map or not.

| Code | Actions |
|---|---|
| `run_input_monitor`, `activity.rs:20-51` | `StartLoop`, `HandleEvent`, `Audit`, `LoopFails` |
| `reconcile_devices`, 54-79 | `Reconcile` (retain, and the directory as it is read), then `Enumerate` once per path, between which devices come and go |
| `monitor_device`, 99-121 | `OpenStream`, `Forward`, `DeviceGone`, `StreamFails` |
| kernel, udev | `Plug`, `Permit`, `Unplug`, `Input` |

### Settings: state and actions

`file` is what the name of the policy file leads to and `stored` what it would
lead to after a power failure; an entry knows whether its text was synced. `cli`
are the two `settings` processes, of the KDE module and of a terminal. `kcm`,
`agent`, `job` and `enabled` are the KDE module, the agent's process and systemd.
`foreign` and `confirmed` are history: whether the terminal wrote since the KDE
module read or wrote, and the policy of its last save that was carried through.

| Code | Actions |
|---|---|
| `save_user_policy`, `config.rs:123-150` | `Parse`, `Write`, `Sync`, `Persist`, `SaveFails` |
| `settings reset`, `main.rs:195-200` | `CheckExists`, `Remove`, `SaveFails` |
| `load_for_agent`, `config.rs:100-112` | `AgentChecks`, `AgentReads` |
| `hpdsettings.cpp` `load` | `Open`, `GetAnswers`, `GetFails` |
| `save` | `Apply`, `SetSucceeds`, `Enable`, `Restart`, `Disable`, `UnitUpdated`, `SaveGivesUp` |
| `defaults`, `changed` | `PressDefaults`, `Edit` |
| systemd and the unit | `JobStops`, `JobStarts`, `UnitStarts`, `AgentFails`, `AgentRestarts`, `LimitReached` |
| disk | `WriteBack`, `PowerFails` |

### Abstractions

- A request that is under way when its sender dies has either been executed or
  never is.
- A signal to a full queue waits, so that `MaxQueue` bounds the backlog and loses
  nothing. The owner change of a daemon and its signals reach the agent's two
  queues in their own order each, with none between the queues.
- A tick while the sensor is unavailable changes nothing and is a stutter.
- An I/O error of the marker file ends the agent like a crash at that await.
- The panel goes off only by `TurnOffScreen` and on with input, an unlock or a
  simulated activity; the desktop's own power management is not modelled.
- A SIGTERM of the agent is modelled where it is heard; where it is lost is
  modelled in `Daemon`, whose `shutdown_signal` is the same code. A SIGINT is
  heard by the same listener and not told apart.
- The `None` of a closed channel (`service.rs:177`) is no action, because it
  cannot be received in the loop: `ReaderEndIsHeard`. A panic of the reader
  thread, which could close the channel silently, is not modelled.
- `poll` interrupted by a signal and a failed decode are read failures of
  `Daemon`.
- `settings get` and `diagnose` read at one step of the KDE module; the agent's
  two steps are the same code. A failing `load` may be the race in between or a
  time-out, and fills the form with one set of defaults: the two `Default`s, of
  the module and of `config.rs`, are not told apart.
- `settings` processes are killed between two steps; a rename that has begun is
  over before the file can be looked at.
- The user's edits make the form any valid policy: the limits of the form are in
  `main.qml`. Texts typed at the terminal are valid or not.

## 3. Runs that pass

| Run | Question | Bounds |
|---|---|---|
| `AgentSafety` | type, `DeadlineCoherence`, `OwnershipDurable`, `HpdLockRecorded`, `WakeIsAuthorised`, `ActsWithinPolicy`, `LockDecidedIdle`, `DecidesAsSimulated`; the return cycles `NoWakeInCompletedCycle`, `ManualWakeNeedsRest`; what a wake that is owed needs, `OwedWakeIsDue`; the refinement `FollowsOwnership` | five policies, changed at any restart; every fault but sigterm, whose effect is that of a crash; one message per stream (1.7 million states) |
| `AgentLiveness` | `ReadyAbsenceLocks`, `SeenReturnWakes` | a live policy with screen-off; faults crash, bus, daemon, sigterm (123,000 states) |
| `AgentConverges` | `KeepsUp`, `ViewConverges` | a dry run and a policy that only shows the OSD, with the shortest times; faults daemon, monitor; two messages per stream (119,000 states). The agent does not restart here: what a starting agent misses is the finding `AgentRestartWake`. |
| `Daemon` | type, `AnnouncedIsState`, `AnnouncedIsMapped`, `ReaderEndIsHeard`, `CleanExit`, `NewestSampleKept`, `FlowsAdvance`, `StopCompletes`, `StateFollowsSensor`; the refinement `ImplementsPresence` | four raw values (one present, two away, one unmapped), channel and kernel buffer of two, every fault (289,000 states) |
| `IioDecode` | type, `SampleIsMeaning` | bytes of 2 bits, words of 4 bytes, results of 4 bits; every text and every word (246,000 states) |
| `InputMonitor` | type, `TasksAreKept`, `DevicesGetWatched`, `InputIsForwarded` | keyboard, touchpad, power button on two paths; the loop may fail, one stream may fail (197,000 states) |
| `Settings` | type, `FileIsLoadable`, `AppliedPolicyRuns`, `CleanFormIsSaved`, `AppliedPolicyStarts`, `OperationsEnd`; the refinement `ReplacesAtomically` | three policies, one of them with the master switch off, and an invalid one; two writers; one power failure; every fault (526,000 states) |

**Why the bounds are enough.** Thresholds are one or two units, so that "not
yet", "just" and "long enough" all occur for every timer, and the confirmations
of one policy differ; ages saturate above the largest threshold they are
compared with, which loses no decision (the theorem `AgesLoseNoDecision`). `MaxQueue = 1` already lets a signal
and an owner change wait together and be handled in either order; convergence
is checked with two messages per stream. A `ChannelCap` of two makes the channel
full as soon as the main task is busy, which 32 does later and no differently;
`BufferLength = 2` is the smallest value the configuration admits. Policies are
chosen so that each branch of a decision is taken: live, opt-in with screen-off,
dry run with OSD, wake-only with OSD, disabled. The decoder's words of 8 bits have
1 to 4 bytes, so that padding, both byte orders, the full width and the sign bit
of the word all occur, and results that do not fit; that the real widths keep the
slices and shifts within their bounds is the theorem `AcceptedLayoutsFit`. Three devices on two paths let
a path be taken over while the task of its first device lives. One power failure
is enough because nothing but the file survives it, and the file after it is one
of the files before.

**Fairness.** `Agent`: the branches of the select are polled in random order, so
a branch that is ready again and again is taken (strong fairness on each); calls
are answered and code after an await runs (weak); a lock query that is repeated
for ever is answered at least once (strong); time passes; the daemon tells what
it wrote, which `Daemon` implements. `Daemon`: both flows are scheduled, and a
held SIGTERM is taken if no sample is taken first (weak). `InputMonitor`: the
runtime schedules the loop, with its audit timer, and every task (weak).
`Settings`: a command of the KDE module ends or times out, and systemd carries
out its jobs and restarts (weak); `settings` processes may hang. Nothing is
assumed of the user, the sensor, restarts or faults, except that the steady
initial states of some runs (`SteadySpec`) start after the subscription, from
states the loop reaches.

`ReadyAbsenceLocks` and `SeenReturnWakes` say that their trigger cannot hold for
ever; they are about the agent's own view, which `ViewConverges` ties to the
daemon's. `KeepsUp` starts from an agent that is up to date: the one that is not
from its start on is the finding `AgentRestartWake`. It says nothing of a time
without a daemon: a signal of the old daemon that is handled after its loss makes
the agent trust the last state again until a daemon returns.
`LockDecidedIdle` makes an exception for monitoring that has failed;
`LocksOnlyIdleUser`, without it, is violated (section 4). `AppliedPolicyRuns`
says nothing of a save that was given up: its file may be new while the old
agent runs, and the module shows an error. `CleanFormIsSaved` shows that a form
filled by a failed load is always marked by an error; that the next Apply writes
it is possible and nowhere forbidden.

**Deadlock.** It is checked in the runs of agent and daemon. `IioDecode`,
`InputMonitor` and `Settings` switch the check off: a reader ends after a rejected
layout or a failed sample, an input monitor whose loop has failed and whose
devices are gone is at its end, and after the last power failure with the window
closed and no agent nothing need happen.

## 4. Runs that are violated: findings

| Run | Statement | What the code does |
|---|---|---|
| `AgentMonitorLoss` | lock needs "15 seconds without actual input" (`docs/analysis.md:95`) | the failure of the input monitor is not noticed; the user counts as idle |
| `AgentRestartWake` | "A restarted agent can therefore preserve the default return-to-wake behavior" (`README.md:57`) | a transition between `GetState` and the subscription is missed |
| `AgentLocksOnce` | absence and idleness lock (`docs/analysis.md:95`) | `lock_requested` is not reset by a return; later absences do not lock |
| `DaemonLengthFails` (`LeavesSysfsClean`) | RAII cleanup disables the buffer and the scan element (`docs/analysis.md:101`) | a failing write of `buffer0/length` leaves the scan element enabled |
| `DaemonSigterm` | "SIGTERM can stop it cleanly" (`docs/analysis.md:101`) | a SIGTERM that meets a sample is dropped with its listener |

## 5. Proofs

The theorems are `Spec => []...`, `Spec =>` an action property or `Spec =>` an
abstract specification (with `CycleSpec` for the return cycles), and two are about
the operators of the models (`AgesLoseNoDecision`, `AcceptedLayoutsFit`), for every set of policies, raw values, paths
and devices, every bound and every set of faults. The assumptions are those of
the modules: the validated configuration, the named faults and positive bounds
(`PolicyAssumption`, `AgentAssumption`, `DaemonAssumption`), finitely many devices,
and paths that differ from the two places off the bus (`InputAssumption`), that a
byte and a word have bits and a result fits the word (`WidthAssumption`), and
that the markers for "no policy", "no accepted policy" and "part of a file" are
no policies (`SettingsAssumption`). Each proof about steps has one step per action.

| Theorem | Property | Inductive invariant and why |
|---|---|---|
| `AgentProofs!TypeCorrect` | `TypeOK` | inductive by itself, in three parts (memory, clocks, world) |
| `DeadlinesCoherent` | `DeadlineCoherence` | inductive with the types: every assignment of `present` comes with `presence_deadlines` or with an unavailable sensor |
| `OwnershipIsDurable` | `OwnershipDurable` | `Ownership`: also that the marker is on disk at the two lock awaits and that a dry run is never parked at one |
| `LocksAreRecorded` | `HpdLockRecorded` | `Recorded` with `Ownership`; an owed screen is locked, so the branches that clear the marker at an unlocked screen do not clear a recorded lock. |
| `WakesAreAuthorised` | `WakeIsAuthorised` | `WakePending`: from the decision to the call the ownership or the arming that justified it is kept, because only the tick itself changes them |
| `PolicyIsObeyed` | `ActsWithinPolicy` | `PolicyObeyed`: what the pending decision implies about the policy |
| `LocksAreDecidedIdle` | `LockDecidedIdle` | `InputSeen`: an agent in the loop whose policy may lock has started the monitor, and while that runs `last_activity` is the age of the real input |
| `TicksDecideAsSimulated` | `DecidesAsSimulated` | an action property, from the types: of the deadlines that the loop keeps, the one of the believed presence stands for the one duration `simulate_policy` is asked about. `RequestsHoldBack` is the lemma that the request flags only hold a decision back. |
| `OwedWakesAreDue` | `OwedWakeIsDue` | `WakeDue` with `Ownership`, `Recorded` and `PlaceSeen`: an owed screen is marked, so a restarted agent believes the marker as soon as it has seen the lock; a screen is owed only from a lock decided while the user is away, and no transition or reconnect leaves the request of an earlier return behind. The core of `SeenReturnWakes`. |
| `AgentKeepsUp` | `KeepsUp` | an action property under `MessagesCurrent`: the newest signal that waits carries what the daemon told last, the newest owner change is a gain while a daemon is up, and nothing waits before the subscription. The core of `ViewConverges`. |
| `AgesLoseNoDecision` | the abstraction of time | no invariant: `StandsFor` says that an age is the time since its `Instant` up to the largest threshold, `AgesGrow` that `Elapse` keeps it so, `AgesCompare` that every comparison agrees |
| `CycleProofs!CompletedCyclesRest` | `NoWakeInCompletedCycle` | `PlaceSeen` (of `AgentProofs`) and `CompletedIsClear`: at the awaits of a tick the agent still sees what the tick decided on; and from a completed return until an absence is seen, marker, ownership and arming are all clear, through crashes and restarts, because nothing else sets them |
| `ManualWakesNeedRest` | `ManualWakeNeedsRest` | `ArmedAfterRest`: an armed process has rested, and while the absence that armed it goes on, it is at least `wake_rearm` long. Both rest on the theorems of `AgentProofs`, carried over by `Observed`: the observer only watches. |
| `OwnershipProofs!AgentFollowsOwnership` | `FollowsOwnership` | a step simulation: under the types, `Ownership`, `Recorded` and `WakePending` every action is one of `LockOwnership` or keeps lock, claim, request and arming. The invariants are needed where the protocol asks for more than the guard of the code: a claim for an unlocked screen only, no release while a wake is owed, a wake with a claim or armed. |
| `DaemonProofs!TypeCorrect` | `TypeOK` | `Typed`: a reader about to send holds a result |
| `StateIsAnnounced` | `AnnouncedIsState` | with the types: if nothing changed, the record written equals the record announced |
| `OnlyMappedIsAnnounced` | `AnnouncedIsMapped` | `StatesMapped`: the state is mapped too, and what is announced was the state |
| `ReaderEndHeard` | `ReaderEndIsHeard` | `EndHeard`: in the loop the reader is told to run and can send, so it leaves only by sending an error, and taking samples leaves that error in the channel |
| `ExitsClean` | `CleanExit` | `BufferHasReader`: unless excused, whatever is enabled belongs to a reader that will close it, and no reader exists before the loop or without a process. Holds with every fault, failing clean-up writes among them, which excuse only the exits until the next full opening or closing. |
| `FlowsDoNotBlock` | `FlowsAdvance` | `ReaderAwaitable` with the types and `EndHeard`: the main task in its loop or waiting for the reader has one that was started, and the channel is closed before anybody waits for a reader that may be blocked on it. The core of `StopCompletes`. |
| `NewestIsKept` | `NewestSampleKept` | `ItemHeld` with `EndHeard` and `BufferHasReader`: a reader about to send holds a sample, one between samples holds nothing, and only a reader of the loop has a buffer that takes samples; receiving takes the oldest, so the newest stays last. The core of `StateFollowsSensor`. |
| `DaemonIsPresenceService` | the safety part of `ImplementsPresence` | a step simulation under `NameHeld` and `AnnouncedIsState`: the name is owned from `Publish` to the end of the loop, so losing it is the only way back to no service; at a sample the last state has been told, which is what `Write` demands |
| `LayoutProofs!AcceptedLayoutsFit` | slices and shifts of `decode` stay in bounds | no invariant: a storage that `parse` accepts is a whole number of the word's bytes (`WholeBytes`), and every amount is below the word's width (`ShortShift`) |
| `InputProofs!TypeCorrect` | `TypeOK` | `EventsCounted`: the type bounds the inotify stream, which no step limits; the events waiting and the plugs and removals still to come are together at most two for each device |
| `TasksStayInMap` | `TasksAreKept` | `Kept`: also that no task works before the loop starts. The cases are an entry dropped by `retain`, which takes its task with it, and an entry replaced by an enumeration, which happens only if its task has ended. |
| `OneTaskPerDevice` | an enumeration starts no second task | from `Kept`: a device that is at a path has its working task in the map at that path |
| `SettingsProofs!TypeCorrect`, `FileStaysLoadable` | `TypeOK`, `FileIsLoadable` | `Saved`: a process past the validation holds an accepted policy and has synced it before it renames, so that the entry in memory and the one on the disk are both whole at every step |
| `SavedPolicyRuns` | `AppliedPolicyRuns` | `Follows`: while the KDE module works, the file is its form unless the terminal wrote, the unit is switched the way the form says, and the job it waits for leaves an agent that has read the form, or none, whatever job an earlier time-out left behind |
| `CleanFormShowsTheFile` | `CleanFormIsSaved` | `Follows`, of which it is a part: a clean form comes from an answer of `settings get` or from a save carried through, and whatever writes later is the terminal |
| `StoreProofs!CommandsReplaceAtomically` | `ReplacesAtomically` | a step simulation under `Saved`, `KcmSaves` and `ResetsGiveNothing`: the rename and the removal are `TakesEffect`, every earlier step is unseen, a failing or killed process is `Fails`, and a reset that finds no file takes effect on a value that is absent already |

The four theorems called `TypeCorrect` are in different modules.

## 6. Only model-checked, and not modelled

Only model-checked: all liveness properties (temporal reasoning under fairness
is out of the prover's reach), which includes the fairness half of
`ImplementsPresence`, and the violations. Where a liveness property has a
safety half, what must hold at every step for the waiting to end, that half is
proved: `KeepsUp` for `ViewConverges`, `OwedWakeIsDue` for `SeenReturnWakes`,
`NewestSampleKept` for `StateFollowsSensor`, `FlowsAdvance` for `StopCompletes`;
that the waiting does end is left to TLC. `TypeOK` and `SampleIsMeaning` of `IioDecode`
stay with TLC: the bit operations come from a recursive module, and that a mask
and a shift compute a weighted sum of bits needs induction over the bits, which
is out of the prover's reach. Their bounds, which `parse` has to guarantee, are
proved (`AcceptedLayoutsFit`). Every safety invariant and action property of the
other runs has a theorem.

Not modelled: the printing commands `status`, `monitor` and `probe`, which keep no
state; texts, modes and icons; the search of sysfs for the sensor; the system
configuration file beyond its validated ranges; a property about input in the
moment between the decision and `Lock` (it does not stop the lock; the
documentation can be read either way); D-Bus and sandbox policy files; calls that
are never answered (the repository says nothing of them); panics.

## 7. Plan

1. Done: the modules of section 2, their runs, and the proofs of section 5.
2. Beyond the installed provers, and therefore with TLC: liveness, and the
   values that `decode` computes. With a prover for induction over data,
   `SampleIsMeaning` for the real widths would come first.
3. When the code changes: the mutants in `PROJECT.json` name the definitions to
   look at, and a finding of section 4 that is mended turns its statement into a
   property of a run that passes (`LocksOnlyIdleUser` into one of `AgentSafety`).
