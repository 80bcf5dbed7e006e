-------------------------------- MODULE Agent --------------------------------
(***************************************************************************)
(* The per-user agent (src/src/agent.rs, run_agent) with the desktop it    *)
(* drives (the ScreenSaver service, the display, the lock marker file) and *)
(* the presence daemon as its clients see it.                              *)
(*                                                                         *)
(* The agent is one task.  `pc` is the await it is parked at; between two  *)
(* awaits it runs alone, so the code between them is one action, while the *)
(* user, the daemon, the buses and time interleave at every await.  A call *)
(* that changes the desktop takes two steps, its execution by the server   *)
(* and its reply.  A call that only reads one is the step at which the     *)
(* server answers.  The loop itself waits at "select".                     *)
(*                                                                         *)
(* tokio::select! polls its branches in random order, so any branch that   *)
(* is ready may be taken first: signals and owner changes arrive on two    *)
(* queues with no order between them.  SIGTERM ends the loop only when it  *)
(* is delivered while the task is parked at the select (Daemon.tla models  *)
(* what happens to it elsewhere).                                          *)
(***************************************************************************)
EXTENDS HpdPolicy, Sequences

CONSTANTS
  Faults,     \* the faults that may happen, a subset of Fault
  MaxQueue    \* bound on the D-Bus messages waiting on one stream

Fault ==
  { "crash",      \* the agent is killed, or an I/O error ends it
    "bus",        \* a session-bus call fails without being executed
    "replyLost",  \* Lock is executed but the caller gets an error
    "monitor",    \* input no longer reaches the agent
    "daemon",     \* the presence daemon stops
    "sigterm" }   \* systemd stops the agent

ASSUME AgentAssumption ==
  /\ Faults \subseteq Fault
  /\ MaxQueue \in Nat \ {0}

VARIABLES
  pc,                    \* where the agent is parked, "off" with no process
  policy,                \* the policy loaded when the agent started
  \* the locals of run_agent
  sensor_available, present, away_since, present_since,
  lock_requested, wake_requested, wake_armed, locked_by_hpd,
  osd_announced_present, last_osd_at,
  started_at, last_activity,
  decision,              \* what the current tick decided to do
  slept,                 \* time spent in the screen-off delay
  monitoring,            \* whether the input monitor hears the devices
  \* the D-Bus connection to the daemon
  service,               \* the daemon (PresenceService)
  sigQ,                  \* PresenceChanged signals not yet handled
  ownQ,                  \* owner changes not yet handled
  \* the desktop
  screen,                \* who locked the screen, if it is locked
  owed,                  \* HPD locked this screen and has not woken it yet
  display,               \* the panel is "on" or "off"
  marker,                \* the file locked-by-agent exists
  input_age              \* age of the last real input since the agent began

sensor   == <<sensor_available, present, away_since, present_since>>
requests == <<lock_requested, wake_requested, wake_armed, locked_by_hpd>>
osd      == <<osd_announced_present, last_osd_at>>
clocks   == <<started_at, last_activity, slept>>
task     == <<decision, monitoring>>
bus      == <<service, sigQ, ownQ>>
desktop  == <<screen, owed, display, marker, input_age>>

vars == <<pc, policy, sensor, requests, osd, clocks, task, bus, desktop>>

Startup  == {"connect", "initLock", "subscribe", "subOwner"}
Parked   == {"select", "getState", "osd", "queryAway", "lockCall", "lockDone",
             "offDelay", "queryPresent", "wakeCall", "wakeDone"}
Signal   == [available : BOOLEAN, present : BOOLEAN]
OwnerChange == {"gained", "lost"}

\* The daemon, as what it promises to its clients.
Presence == INSTANCE PresenceService

\* The request to the desktop that is under way.
Asking ==
  IF pc = "lockCall" THEN "lock"
  ELSE IF pc = "lockDone" THEN "locked"
  ELSE IF pc = "wakeCall" THEN "wake"
  ELSE IF pc = "wakeDone" THEN "woken" ELSE "nothing"

\* The opt-in for manual locks, after an absence.
Armed == policy.wake_manual_lock /\ wake_armed

\* The protocol of the lock and its marker, which the agent follows.
LockOwner ==
  INSTANCE LockOwnership WITH claim <- marker, asking <- Asking, armed <- Armed

MemoryTypeOK ==
  /\ pc \in {"off"} \cup Startup \cup Parked
  /\ policy \in Policies
  /\ sensor_available \in BOOLEAN /\ present \in BOOLEAN
  /\ lock_requested \in BOOLEAN /\ wake_requested \in BOOLEAN
  /\ wake_armed \in BOOLEAN /\ locked_by_hpd \in BOOLEAN
  /\ osd_announced_present \in BOOLEAN
  /\ decision \in {"none", "lock", "wake", "observe"}
  /\ monitoring \in {"none", "running", "ended"}

ClockTypeOK ==
  /\ away_since \in OptionAge /\ present_since \in OptionAge
  /\ last_osd_at \in OptionAge
  /\ started_at \in Nat /\ last_activity \in Nat /\ slept \in Nat
  /\ input_age \in Nat

WorldTypeOK ==
  /\ service \in Presence!Service
  /\ sigQ \in Seq(Signal) /\ ownQ \in Seq(OwnerChange)
  /\ screen \in {"unlocked", "manual", "hpd"}
  /\ owed \in BOOLEAN
  /\ display \in {"on", "off"}
  /\ marker \in BOOLEAN

TypeOK == MemoryTypeOK /\ ClockTypeOK /\ WorldTypeOK

Running == pc \in Parked
Locked  == screen # "unlocked"

\* Messages are queued only for the streams that exist already.
SignalsSubscribed == pc \in Parked \cup {"subOwner"}
OwnerSubscribed   == pc \in Parked

-----------------------------------------------------------------------------
(* Process life cycle *)

\* The memory of a process that does not run is canonical.
Init ==
  /\ pc = "off" /\ policy \in Policies
  /\ sensor_available = FALSE /\ present = FALSE
  /\ away_since = None /\ present_since = None
  /\ lock_requested = FALSE /\ wake_requested = FALSE
  /\ wake_armed = FALSE /\ locked_by_hpd = FALSE
  /\ osd_announced_present = FALSE /\ last_osd_at = None
  /\ started_at = 0 /\ last_activity = 0 /\ slept = 0
  /\ decision = "none" /\ monitoring = "none"
  /\ Presence!Init /\ sigQ = <<>> /\ ownQ = <<>>
  /\ screen \in {"unlocked", "manual"}
  /\ owed = FALSE /\ display = "on" /\ marker = FALSE /\ input_age = 0

\* The process ends: its memory and its D-Bus streams are gone.
Exit ==
  /\ pc' = "off"
  /\ sensor_available' = FALSE /\ present' = FALSE
  /\ away_since' = None /\ present_since' = None
  /\ lock_requested' = FALSE /\ wake_requested' = FALSE
  /\ wake_armed' = FALSE /\ locked_by_hpd' = FALSE
  /\ osd_announced_present' = FALSE /\ last_osd_at' = None
  /\ started_at' = 0 /\ last_activity' = 0 /\ slept' = 0
  /\ decision' = "none" /\ monitoring' = "none"
  /\ sigQ' = <<>> /\ ownQ' = <<>>
  /\ UNCHANGED <<policy, service>>

\* systemd or the user starts the agent: it loads the policy saved last.
Start ==
  /\ pc = "off"
  /\ policy' \in Policies
  /\ pc' = "connect"
  /\ UNCHANGED <<sensor, requests, osd, clocks, task, bus, desktop>>

\* connect_presence_proxy retries until GetState answers; the answer to the
\* GetState that follows is the initial sensor state.
Connect ==
  /\ pc = "connect"
  /\ service.up
  /\ sensor_available' = service.available
  /\ present' = service.present
  /\ pc' = "initLock"
  /\ UNCHANGED <<policy, away_since, present_since, requests, osd, clocks,
                 task, bus, desktop>>

\* The lock state decides whether the marker of an earlier run is adopted or
\* removed; then the input monitor starts.
ReadInitialLock ==
  /\ pc = "initLock"
  /\ locked_by_hpd' = (Locked /\ marker)
  /\ marker' = (Locked /\ marker)
  /\ monitoring' = IF ShouldMonitorInput(policy) THEN "running" ELSE "none"
  /\ last_activity' = 0
  /\ input_age' = 0
  /\ pc' = "subscribe"
  /\ UNCHANGED <<policy, sensor, lock_requested, wake_requested, wake_armed,
                 osd, started_at, slept, decision, bus, screen, owed, display>>

SubscribeSignals ==
  /\ pc = "subscribe"
  /\ pc' = "subOwner"
  /\ UNCHANGED <<policy, sensor, requests, osd, clocks, task, bus, desktop>>

SubscribeOwner ==
  /\ pc = "subOwner"
  /\ away_since' = PresenceDeadlines(sensor_available, present)[1]
  /\ present_since' = PresenceDeadlines(sensor_available, present)[2]
  /\ osd_announced_present' = present
  /\ pc' = "select"
  /\ UNCHANGED <<policy, sensor_available, present, requests, last_osd_at,
                 clocks, task, bus, desktop>>

\* A call of the startup or the wake call returns an error: run_agent ends.
CallFails ==
  /\ pc \in {"connect", "initLock", "wakeCall"}
  /\ "bus" \in Faults
  /\ Exit
  /\ UNCHANGED desktop

Crash ==
  /\ pc # "off"
  /\ "crash" \in Faults
  /\ Exit
  /\ UNCHANGED desktop

\* SIGTERM before the handler exists, or while the loop waits for events.
Shutdown ==
  /\ pc \in Startup \cup {"select"}
  /\ "sigterm" \in Faults
  /\ Exit
  /\ UNCHANGED desktop

\* No device is watched any more: the watcher of /dev/input could not be set
\* up, or it has failed and the devices it knew have gone since (their tasks
\* outlive it, see InputMonitor).  The agent never looks at the task's handle.
MonitorStops ==
  /\ monitoring = "running"
  /\ "monitor" \in Faults
  /\ monitoring' = "ended"
  /\ UNCHANGED <<pc, policy, sensor, requests, osd, clocks, decision, bus,
                 desktop>>

-----------------------------------------------------------------------------
(* The branches of the select for the daemon's messages *)

SetDeadlines(available, is_present) ==
  /\ away_since' = PresenceDeadlines(available, is_present)[1]
  /\ present_since' = PresenceDeadlines(available, is_present)[2]

SignalUnavailable(signal) ==
  /\ ~signal.available
  /\ sensor_available' = FALSE
  /\ SetDeadlines(FALSE, FALSE)
  /\ wake_requested' = FALSE /\ wake_armed' = FALSE
  /\ UNCHANGED <<present, lock_requested, locked_by_hpd>>

\* Slip: the deadlines restart only when the presence differs.
SignalTransitionKeepsDeadlines(signal) ==
  /\ signal.available
  /\ ~sensor_available \/ signal.present # present
  /\ sensor_available' = TRUE
  /\ present' = signal.present
  /\ IF signal.present # present THEN SetDeadlines(TRUE, signal.present)
                                 ELSE UNCHANGED <<away_since, present_since>>
  /\ wake_requested' = FALSE
  /\ wake_armed' = (wake_armed /\ signal.present)
  /\ UNCHANGED <<lock_requested, locked_by_hpd>>

\* Slip: a transition does not open a new return cycle.
SignalTransitionKeepsCycle(signal) ==
  /\ signal.available
  /\ ~sensor_available \/ signal.present # present
  /\ sensor_available' = TRUE
  /\ present' = signal.present
  /\ SetDeadlines(TRUE, signal.present)
  /\ wake_armed' = (wake_armed /\ signal.present)
  /\ UNCHANGED <<lock_requested, wake_requested, locked_by_hpd>>

\* Slip: a new absence keeps the wake armed by an earlier one.
SignalTransitionKeepsArmed(signal) ==
  /\ signal.available
  /\ ~sensor_available \/ signal.present # present
  /\ sensor_available' = TRUE
  /\ present' = signal.present
  /\ SetDeadlines(TRUE, signal.present)
  /\ wake_requested' = FALSE
  /\ UNCHANGED <<lock_requested, wake_armed, locked_by_hpd>>

SignalTransition(signal) ==
  /\ signal.available
  /\ ~sensor_available \/ signal.present # present
  /\ sensor_available' = TRUE
  /\ present' = signal.present
  /\ SetDeadlines(TRUE, signal.present)
  /\ wake_requested' = FALSE
  /\ wake_armed' = (wake_armed /\ signal.present)
  /\ UNCHANGED <<lock_requested, locked_by_hpd>>

SignalUnchanged(signal) ==
  /\ signal.available /\ sensor_available /\ signal.present = present
  /\ UNCHANGED <<sensor, requests>>

HandleSignal ==
  /\ pc = "select" /\ sigQ # <<>>
  /\ sigQ' = Tail(sigQ)
  /\ \/ SignalUnavailable(Head(sigQ))
     \/ SignalTransition(Head(sigQ))
     \/ SignalUnchanged(Head(sigQ))
  /\ UNCHANGED <<pc, policy, osd, clocks, task, service, ownQ, desktop>>

HandleOwnerLost ==
  /\ pc = "select" /\ ownQ # <<>> /\ Head(ownQ) = "lost"
  /\ ownQ' = Tail(ownQ)
  /\ sensor_available' = FALSE
  /\ SetDeadlines(FALSE, FALSE)
  /\ lock_requested' = FALSE
  /\ wake_requested' = FALSE /\ wake_armed' = FALSE
  /\ UNCHANGED <<pc, policy, present, locked_by_hpd, osd, clocks, task,
                 service, sigQ, desktop>>

\* Slip: a new daemon is left to announce itself.
HandleOwnerGainedWaits ==
  /\ pc = "select" /\ ownQ # <<>> /\ Head(ownQ) = "gained"
  /\ ownQ' = Tail(ownQ)
  /\ UNCHANGED <<pc, policy, sensor, requests, osd, clocks, task, service,
                 sigQ, desktop>>

HandleOwnerGained ==
  /\ pc = "select" /\ ownQ # <<>> /\ Head(ownQ) = "gained"
  /\ ownQ' = Tail(ownQ)
  /\ pc' = "getState"
  /\ UNCHANGED <<policy, sensor, requests, osd, clocks, task, service, sigQ,
                 desktop>>

GetStateReply ==
  /\ pc = "getState"
  /\ service.up
  /\ sensor_available' = service.available
  /\ present' = service.present
  /\ SetDeadlines(service.available, service.present)
  /\ lock_requested' = FALSE
  /\ wake_requested' = FALSE /\ wake_armed' = FALSE
  /\ pc' = "select"
  /\ UNCHANGED <<policy, locked_by_hpd, osd, clocks, task, bus, desktop>>

\* The new daemon is gone again: the deadlines keep their old values.
GetStateFails ==
  /\ pc = "getState"
  /\ ~service.up
  /\ sensor_available' = FALSE
  /\ pc' = "select"
  /\ UNCHANGED <<policy, present, away_since, present_since, requests, osd,
                 clocks, task, bus, desktop>>

-----------------------------------------------------------------------------
(* The tick branch *)

\* What the tick decides from the Instants it reads before its first await.
\* An agent whose return cycle is complete has nothing to do.
Decision ==
  IF ~present
  THEN IF ShouldLock(lock_requested, Elapsed(away_since), last_activity,
                     started_at, policy)
       THEN "lock" ELSE "none"
  ELSE IF wake_requested THEN "none"
  ELSE IF ShouldWake(wake_requested, wake_armed, locked_by_hpd,
                     Elapsed(present_since), policy)
       THEN "wake" ELSE "observe"

\* Slip: the decision is taken for the place to continue at.
AfterOsdUnmapped(d) == IF d = "none" THEN "select" ELSE d

AfterOsd(d) ==
  IF d = "none" THEN "select"
  ELSE IF d = "lock" THEN "queryAway" ELSE "queryPresent"

StableFor == Elapsed(IF present THEN present_since ELSE away_since)

OsdDue ==
  ShouldShowOsd(osd_announced_present, present, StableFor, last_osd_at, policy)

ArmWake ==
  wake_armed' =
    (wake_armed \/ (~present /\ ShouldArmWake(wake_armed, Elapsed(away_since),
                                              policy)))

\* A tick while the sensor is unavailable is a stutter.
TickWithOsd ==
  /\ pc = "select" /\ sensor_available
  /\ OsdDue
  /\ osd_announced_present' = present
  /\ last_osd_at' = 0
  /\ ArmWake
  /\ decision' = Decision
  /\ pc' = IF policy.dry_run THEN AfterOsd(Decision) ELSE "osd"
  /\ UNCHANGED <<policy, sensor, lock_requested, wake_requested,
                 locked_by_hpd, clocks, monitoring, bus, desktop>>

TickQuiet ==
  /\ pc = "select" /\ sensor_available
  /\ ~OsdDue
  /\ ArmWake
  /\ decision' = Decision
  /\ pc' = AfterOsd(Decision)
  /\ UNCHANGED <<policy, sensor, lock_requested, wake_requested,
                 locked_by_hpd, osd, clocks, monitoring, bus, desktop>>

\* show_presence_osd returns whether or not Plasma shows the text.
OsdReply ==
  /\ pc = "osd"
  /\ pc' = AfterOsd(decision)
  /\ UNCHANGED <<policy, sensor, requests, osd, clocks, task, bus, desktop>>

\* The end of a tick: back to the select.
Finish == pc' = "select" /\ decision' = "none"

\* The lock state cannot be read: fail closed, the next tick asks again.
QueryFails ==
  /\ pc \in {"queryAway", "queryPresent"}
  /\ "bus" \in Faults
  /\ Finish
  /\ UNCHANGED <<policy, sensor, requests, osd, clocks, monitoring, bus,
                 desktop>>

\* Slip: a screen that is locked already is asked for at every tick.
QueryAwayLockedForgets ==
  /\ pc = "queryAway" /\ Locked
  /\ Finish
  /\ UNCHANGED <<policy, sensor, requests, osd, clocks, monitoring, bus,
                 desktop>>

QueryAwayLocked ==
  /\ pc = "queryAway" /\ Locked
  /\ lock_requested' = TRUE
  /\ Finish
  /\ UNCHANGED <<policy, sensor, wake_requested, wake_armed, locked_by_hpd,
                 osd, clocks, monitoring, bus, desktop>>

QueryAwayDryRun ==
  /\ pc = "queryAway" /\ ~Locked /\ policy.dry_run
  /\ lock_requested' = TRUE
  /\ locked_by_hpd' = TRUE
  /\ Finish
  /\ UNCHANGED <<policy, sensor, wake_requested, wake_armed, osd, clocks,
                 monitoring, bus, desktop>>

\* Slip: Lock is requested before the marker is written.
QueryAwayUnmarked ==
  /\ pc = "queryAway" /\ ~Locked /\ ~policy.dry_run
  /\ pc' = "lockCall"
  /\ UNCHANGED <<policy, sensor, requests, osd, clocks, task, bus, desktop>>

\* Slip: Lock is requested whether or not the screen is locked already.
QueryAwayMarkAny ==
  /\ pc = "queryAway" /\ ~policy.dry_run
  /\ marker' = TRUE
  /\ pc' = "lockCall"
  /\ UNCHANGED <<policy, sensor, requests, osd, clocks, task, bus, screen,
                 owed, display, input_age>>

\* The marker is on disk before Lock is requested.
QueryAwayMark ==
  /\ pc = "queryAway" /\ ~Locked /\ ~policy.dry_run
  /\ marker' = TRUE
  /\ pc' = "lockCall"
  /\ UNCHANGED <<policy, sensor, requests, osd, clocks, task, bus, screen,
                 owed, display, input_age>>

LockExecutes ==
  /\ pc = "lockCall"
  /\ pc' = "lockDone"
  /\ screen' = IF Locked THEN screen ELSE "hpd"
  /\ owed' = (owed \/ ~Locked)
  /\ UNCHANGED <<policy, sensor, requests, osd, clocks, task, bus, display,
                 marker, input_age>>

\* Lock returns an error: the marker is rolled back and run_agent ends.  A lock
\* that was executed all the same is not owed a wake: HPD was told that there
\* is none.
LockFails ==
  /\ \/ pc = "lockCall" /\ "bus" \in Faults /\ UNCHANGED owed
     \/ pc = "lockDone" /\ "replyLost" \in Faults /\ owed' = FALSE
  /\ marker' = FALSE
  /\ Exit
  /\ UNCHANGED <<screen, display, input_age>>

LockReply ==
  /\ pc = "lockDone"
  /\ lock_requested' = TRUE
  /\ locked_by_hpd' = TRUE
  /\ decision' = "none"
  /\ slept' = 0
  /\ pc' = IF policy.turn_off_screen THEN "offDelay" ELSE "select"
  /\ UNCHANGED <<policy, sensor, wake_requested, wake_armed, osd, started_at,
                 last_activity, monitoring, bus, desktop>>

\* The delay has passed; a failed call is only logged.
TurnOffScreen ==
  /\ pc = "offDelay" /\ slept >= policy.screen_off_delay
  /\ display' \in IF ScreenOffSupported THEN {"off", display} ELSE {display}
  /\ slept' = 0
  /\ pc' = "select"
  /\ UNCHANGED <<policy, sensor, requests, osd, started_at, last_activity,
                 task, bus, screen, owed, marker, input_age>>

\* Slip: the ownership flag outlives the marker.
CycleCompleteKeepsOwner ==
  /\ wake_requested' = TRUE
  /\ wake_armed' = FALSE
  /\ UNCHANGED locked_by_hpd
  /\ Finish

\* The present branch has finished with this return.
CycleComplete ==
  /\ wake_requested' = TRUE
  /\ wake_armed' = FALSE
  /\ locked_by_hpd' = FALSE
  /\ Finish

\* Slip: an unlocked screen leaves the marker behind.
QueryPresentUnlockedKeepsMarker ==
  /\ pc = "queryPresent" /\ ~Locked
  /\ CycleComplete
  /\ UNCHANGED <<policy, sensor, lock_requested, osd, clocks, monitoring, bus,
                 desktop>>

QueryPresentUnlocked ==
  /\ pc = "queryPresent" /\ ~Locked
  /\ marker' = FALSE
  /\ CycleComplete
  /\ UNCHANGED <<policy, sensor, lock_requested, osd, clocks, monitoring, bus,
                 screen, owed, display, input_age>>

QueryPresentWait ==
  /\ pc = "queryPresent" /\ Locked /\ decision = "observe"
  /\ Finish
  /\ UNCHANGED <<policy, sensor, requests, osd, clocks, monitoring, bus,
                 desktop>>

QueryPresentDryRun ==
  /\ pc = "queryPresent" /\ Locked /\ decision = "wake" /\ policy.dry_run
  /\ CycleComplete
  /\ UNCHANGED <<policy, sensor, lock_requested, osd, clocks, monitoring, bus,
                 desktop>>

QueryPresentWake ==
  /\ pc = "queryPresent" /\ Locked /\ decision = "wake" /\ ~policy.dry_run
  /\ pc' = "wakeCall"
  /\ UNCHANGED <<policy, sensor, requests, osd, clocks, task, bus, desktop>>

\* SimulateUserActivity lights the panel; it does not unlock.
WakeExecutes ==
  /\ pc = "wakeCall"
  /\ display' = "on"
  /\ owed' = FALSE
  /\ pc' = "wakeDone"
  /\ UNCHANGED <<policy, sensor, requests, osd, clocks, task, bus, screen,
                 marker, input_age>>

WakeReply ==
  /\ pc = "wakeDone"
  /\ marker' = FALSE
  /\ CycleComplete
  /\ UNCHANGED <<policy, sensor, lock_requested, osd, clocks, monitoring, bus,
                 screen, owed, display, input_age>>

-----------------------------------------------------------------------------
(* The presence daemon, as the agent sees it *)

Room(q) == Len(q) < MaxQueue

\* A message reaches the streams that exist; MaxQueue bounds the backlog.
Deliver(signal) ==
  IF SignalsSubscribed THEN Room(sigQ) /\ sigQ' = Append(sigQ, signal)
                       ELSE sigQ' = sigQ

DeliverOwner(change) ==
  IF OwnerSubscribed THEN Room(ownQ) /\ ownQ' = Append(ownQ, change)
                     ELSE ownQ' = ownQ

\* The daemon takes its name; its initial state is announced later.
ServiceStarts ==
  /\ Presence!Start
  /\ DeliverOwner("gained")
  /\ UNCHANGED <<pc, policy, sensor, requests, osd, clocks, task, sigQ,
                 desktop>>

\* A classified sample changes what GetState answers.
ServiceWrites ==
  /\ Presence!Write
  /\ UNCHANGED <<pc, policy, sensor, requests, osd, clocks, task, sigQ, ownQ,
                 desktop>>

\* ... and is announced in a step of its own.
ServiceAnnounces ==
  /\ Presence!Announce
  /\ Deliver([available |-> service.available, present |-> service.present])
  /\ UNCHANGED <<pc, policy, sensor, requests, osd, clocks, task, ownQ,
                 desktop>>

ServiceStops ==
  /\ Presence!Stop
  /\ "daemon" \in Faults
  /\ DeliverOwner("lost")
  /\ UNCHANGED <<pc, policy, sensor, requests, osd, clocks, task, sigQ,
                 desktop>>

-----------------------------------------------------------------------------
(* The user and time *)

UserLocks ==
  /\ ~Locked
  /\ screen' = "manual"
  /\ UNCHANGED <<pc, policy, sensor, requests, osd, clocks, task, bus, owed,
                 display, marker, input_age>>

UserUnlocks ==
  /\ Locked
  /\ screen' = "unlocked" /\ owed' = FALSE /\ display' = "on"
  /\ UNCHANGED <<pc, policy, sensor, requests, osd, clocks, task, bus, marker,
                 input_age>>

\* monitor_device forwards the event to the agent while it watches the device.
UserInput ==
  /\ input_age' = 0 /\ display' = "on"
  /\ last_activity' = IF monitoring = "running" THEN 0 ELSE last_activity
  /\ UNCHANGED <<pc, policy, sensor, requests, osd, started_at, slept, task,
                 bus, screen, owed, marker>>

\* One unit of time passes.
Elapse ==
  /\ pc # "off"
  /\ away_since' = Older(away_since, {policy.away_confirm, policy.wake_rearm,
                                      policy.osd_confirm})
  /\ present_since' = Older(present_since, {policy.present_confirm,
                                            policy.osd_confirm})
  /\ last_osd_at' = Older(last_osd_at, {policy.osd_cooldown})
  /\ started_at' = IF Running THEN Older(started_at, {policy.startup_grace})
                              ELSE started_at
  /\ last_activity' = Older(last_activity, {policy.idle_confirm})
  /\ input_age' = Older(input_age, {policy.idle_confirm})
  /\ slept' = IF pc = "offDelay" THEN Older(slept, {policy.screen_off_delay})
                                 ELSE slept
  /\ UNCHANGED <<pc, policy, sensor_available, present, requests,
                 osd_announced_present, task, bus, screen, owed, display,
                 marker>>

-----------------------------------------------------------------------------
AgentStep ==
  \/ Start \/ Connect \/ ReadInitialLock \/ SubscribeSignals \/ SubscribeOwner
  \/ CallFails \/ Crash \/ Shutdown \/ MonitorStops
  \/ HandleSignal \/ HandleOwnerLost \/ HandleOwnerGained
  \/ GetStateReply \/ GetStateFails
  \/ TickWithOsd \/ TickQuiet \/ OsdReply
  \/ QueryFails \/ QueryAwayLocked \/ QueryAwayDryRun \/ QueryAwayMark
  \/ LockExecutes \/ LockFails \/ LockReply \/ TurnOffScreen
  \/ QueryPresentUnlocked \/ QueryPresentWait \/ QueryPresentDryRun
  \/ QueryPresentWake \/ WakeExecutes \/ WakeReply

EnvStep ==
  \/ ServiceStarts \/ ServiceWrites \/ ServiceAnnounces \/ ServiceStops
  \/ UserLocks \/ UserUnlocks \/ UserInput \/ Elapse

Next == AgentStep \/ EnvStep

Spec == Init /\ [][Next]_vars

(* Fairness.  tokio polls the select's branches in random order, so a branch *)
(* that is ready again and again is eventually the one taken: strong         *)
(* fairness.  A call that is under way is answered, the code after an await  *)
(* runs, and time passes: weak fairness.  A lock query that is asked again   *)
(* and again is eventually answered even if single queries fail.  The daemon *)
(* tells what it wrote (PresenceService!FairSpec, which Daemon implements).  *)
(* Nothing is assumed of the user, the sensor, a restart or a fault.         *)
Fairness ==
  /\ SF_vars(HandleSignal)
  /\ SF_vars(HandleOwnerLost)
  /\ SF_vars(HandleOwnerGained)
  /\ SF_vars(TickWithOsd \/ TickQuiet)
  /\ SF_vars(QueryAwayLocked \/ QueryAwayDryRun \/ QueryAwayMark)
  /\ SF_vars(QueryPresentUnlocked \/ QueryPresentWait \/ QueryPresentDryRun
             \/ QueryPresentWake)
  /\ WF_vars(Connect \/ ReadInitialLock \/ SubscribeSignals \/ SubscribeOwner)
  /\ WF_vars(GetStateReply \/ GetStateFails)
  /\ WF_vars(OsdReply \/ LockExecutes \/ LockReply \/ TurnOffScreen)
  /\ WF_vars(WakeExecutes \/ WakeReply)
  /\ WF_vars(ServiceAnnounces)
  /\ WF_vars(Elapse)

FairSpec == Spec /\ Fairness

-----------------------------------------------------------------------------
(* Safety *)

\* While the loop believes the sensor, exactly one deadline is running, the
\* one of the presence it believes (presence_deadlines and its four callers):
\* a timer of the other presence would let an old interval count.
DeadlineCoherence ==
  Running /\ sensor_available =>
    IF present THEN away_since = None /\ present_since # None
               ELSE away_since # None /\ present_since = None

\* A live agent that believes it owns the lock has the marker on disk, so
\* that a crash at any await keeps the ownership (mark before lock, clear
\* together with the flag).
OwnershipDurable ==
  locked_by_hpd /\ ~policy.dry_run => marker

\* A screen HPD locked and has not woken yet is recorded by the marker at
\* every moment, through crashes and restarts ("closing the crash window
\* between locking and recording ownership").  Only a lock that was reported
\* to HPD as failed is nobody's to wake.
HpdLockRecorded == owed => marker

\* A wake that is under way was owed to a recorded HPD lock, or to the opt-in
\* for manual locks after a confirmed absence, although the tick, the OSD
\* call and the lock query lie between the decision and the call.
WakeIsAuthorised ==
  pc = "wakeCall" =>
    /\ Live(policy) /\ policy.wake_screen
    /\ marker \/ (policy.wake_manual_lock /\ wake_armed)

\* The effective_policy of `diagnose` "resolves the master switch, dry-run
\* state, input monitoring, manual-lock wake opt-in and the AMDGPU screen-off
\* safety gate into the actions the agent can actually take" (README.md:40-42):
\* whatever the sensor, the buses and the user do, the agent takes no other.
\* An unmarked screen is woken only with the opt-in; the panel may be dark only
\* where it is supported.
ActsWithinPolicy ==
  LET can == EffectivePolicy(policy, ScreenOffSupported) IN
  /\ pc \in {"lockCall", "lockDone", "offDelay"} => can.live /\ can.lock_screen
  /\ pc \in {"wakeCall", "wakeDone"} =>
       can.live /\ can.wake_screen /\ (marker \/ can.wake_manual_lock)
  /\ pc = "osd" => can.live /\ can.show_osd
  /\ monitoring # "none" => can.input_monitor /\ can.lock_screen
  /\ pc = "offDelay" /\ ScreenOffSupported => can.turn_off_screen
  /\ display = "off" => ScreenOffSupported

\* While a wake is owed nothing that a tick could be held back by is left over:
\* the agent knows, or is about to be told, that the lock is its own, and this
\* return has not been dealt with, whatever returns, reconnects, crashes and
\* restarts came before.  Time in front of the sensor is all that is missing.
OwedWakeIsDue ==
  Running /\ owed /\ ~policy.dry_run =>
    /\ locked_by_hpd \/ pc = "lockDone"
    /\ ~wake_requested

-----------------------------------------------------------------------------
(* Action properties *)

\* The daemon's state as its next PresenceChanged carries it, and what the
\* agent believes once it has handled the signals that wait.
Current  == [available |-> service.available, present |-> service.present]
Believed ==
  IF sigQ = <<>> THEN [available |-> sensor_available, present |-> present]
                 ELSE sigQ[Len(sigQ)]

\* A daemon that has told its state is believed, or is about to be asked.
UpToDate ==
  service.up /\ service.told =>
    \/ pc = "getState" \/ "gained" \in {ownQ[i] : i \in 1..Len(ownQ)}
    \/ /\ Believed.available = Current.available
       /\ Current.available => Believed.present = Current.present

\* An agent in the loop that is up to date stays so until it ends: no order of
\* signals of old and new daemons, owner changes and GetState answers, at
\* whatever await they arrive, leaves it with a value that nothing under way
\* will correct.
KeepsUp == [][Running /\ UpToDate /\ Running' => UpToDate']_vars

\* A tick decides to lock only after the confirmed time without REAL input,
\* although it sees input only through the channel of a monitor that every
\* policy that locks must have started; a monitor that has failed is the
\* exception.
LockDecidedIdle ==
  [][decision # "lock" /\ decision' = "lock" /\ monitoring # "ended"
       => input_age >= policy.idle_confirm]_vars

\* `thinkpad-hpd simulate` answers what the running agent would do: in every
\* state a tick decides as simulate_policy does for that state, apart from what
\* the loop has already requested.  The two are separate code over the same
\* helpers, with one interval there and two deadlines here.
DecidesAsSimulated ==
  [][TickWithOsd \/ TickQuiet =>
       LET simulated ==
             SimulatePolicy(policy,
               [ present |-> present, stable_for |-> StableFor,
                 idle_for |-> last_activity, running_for |-> started_at,
                 screen_locked |-> Locked, locked_by_hpd |-> locked_by_hpd,
                 wake_armed |-> wake_armed,
                 announced_present |-> osd_announced_present,
                 last_osd_at |-> last_osd_at ])
       IN /\ decision' = "lock" <=> simulated.lock /\ ~lock_requested
          /\ decision' = "wake" /\ Locked <=> simulated.wake /\ ~wake_requested
          /\ osd' # osd <=> simulated.show_osd]_vars

\* What the agent does to the lock and the marker, with every crash, error and
\* restart, is a behaviour of LockOwnership.
FollowsOwnership == LockOwner!Spec

-----------------------------------------------------------------------------
(* Liveness *)

\* The agent does not stay for ever with a confirmed absence, an idle user
\* and no lock requested: some tick gets to the lock.
ReadyAbsenceLocks ==
  ~<>[](/\ Running /\ sensor_available /\ ~present
        /\ policy.enabled /\ policy.lock_screen /\ ~lock_requested
        /\ last_activity >= policy.idle_confirm)

\* A user who stays in front of the sensor, as the agent sees it, is not left
\* for ever with a panel that HPD locked and has not woken.
SeenReturnWakes ==
  ~<>[](/\ Running /\ sensor_available /\ present
        /\ Live(policy) /\ policy.wake_screen
        /\ owed)

\* With the daemon up and its presence steady the agent ends up with it:
\* signals of an earlier daemon, owner changes and a GetState answer that is
\* ahead of its signal may be handled in any order and still do not leave the
\* agent with an old value, however often the same value is told again.
ViewConverges ==
  \A s \in {t \in Signal : t.present => t.available} :
    <>[](/\ Running /\ service.up
         /\ service.available = s.available /\ service.present = s.present)
      => <>[](/\ sensor_available = s.available
              /\ s.available => present = s.present)

-----------------------------------------------------------------------------
(* Statements of the documentation *)

\* "The default policy requires both 15 seconds of confirmed absence and 15
\* seconds without actual input before locking" (docs/analysis.md:95), without
\* an exception for a monitor that has failed.
LocksOnlyIdleUser ==
  [][decision # "lock" /\ decision' = "lock"
       => input_age >= policy.idle_confirm]_vars

\* "A restarted agent can therefore preserve the default return-to-wake
\* behavior" (README.md:57).
RestartKeepsReturnWake ==
  [](pc = "off" /\ owed
       => ~<>[](/\ Running /\ Live(policy) /\ policy.wake_screen /\ owed
                /\ service.up /\ service.available /\ service.present))

\* "The default policy requires both 15 seconds of confirmed absence and 15
\* seconds without actual input before locking" (docs/analysis.md:95), as a
\* duty: a user who was seen present and then stays absent and idle does not
\* leave an unlocked screen behind for ever.
AbsenceLocks ==
  ~<>(/\ sensor_available /\ present
      /\ [](Running /\ Live(policy) /\ policy.lock_screen /\ ~Locked)
      /\ <>[](/\ sensor_available /\ ~present
              /\ last_activity >= policy.idle_confirm))
=============================================================================
