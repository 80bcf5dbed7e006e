------------------------------ MODULE HpdPolicy ------------------------------
(***************************************************************************)
(* The decisions of the desktop agent (src/src/agent.rs): pure functions   *)
(* of the policy in force and of a few elapsed times.                      *)
(*                                                                         *)
(* A point in time of the code (Instant) is represented by its AGE, the    *)
(* time elapsed since it; `None` is the absent Instant.  An age stops      *)
(* growing once it has passed every threshold it is ever compared with,    *)
(* so ages are bounded and no comparison is lost.  The unit of time is     *)
(* abstract: the policies of a model give the thresholds in that unit.     *)
(***************************************************************************)
EXTENDS Integers

CONSTANTS
  Policies,            \* the policies the user may have saved (config.toml)
  ScreenOffSupported   \* screensaver.rs: not an AMDGPU Wayland session

None == -1

(* PolicyConfig, without the texts; the ranges are those validate() allows *)
(* (a zero confirmation of absence, of return or of the OSD is rejected).  *)
Policy ==
  [ enabled : BOOLEAN, dry_run : BOOLEAN, lock_screen : BOOLEAN,
    turn_off_screen : BOOLEAN, wake_screen : BOOLEAN,
    wake_manual_lock : BOOLEAN, show_osd : BOOLEAN,
    away_confirm : Nat \ {0}, idle_confirm : Nat, startup_grace : Nat,
    present_confirm : Nat \ {0}, wake_rearm : Nat, osd_confirm : Nat \ {0},
    osd_cooldown : Nat, screen_off_delay : Nat ]

ASSUME PolicyAssumption ==
  /\ Policies # {}
  /\ Policies \subseteq Policy
  /\ ScreenOffSupported \in BOOLEAN

-----------------------------------------------------------------------------
(* Ages *)

OptionAge == Nat \cup {None}

\* saturating_duration_since(..).unwrap_or_default()
Elapsed(since) == IF since = None THEN 0 ELSE since

\* One unit of time passes for an Instant compared with these thresholds.
Older(since, thresholds) ==
  IF since # None /\ \E t \in thresholds : since < t THEN since + 1 ELSE since

-----------------------------------------------------------------------------
(* Decisions *)

Live(p) == p.enabled /\ ~p.dry_run

\* Slip: the input idle time is not asked for.
ShouldLockBusy(lock_requested, away_for, idle_for, running_for, p) ==
  /\ p.enabled
  /\ p.lock_screen
  /\ ~lock_requested
  /\ running_for >= p.startup_grace
  /\ away_for >= p.away_confirm

ShouldLock(lock_requested, away_for, idle_for, running_for, p) ==
  /\ p.enabled
  /\ p.lock_screen
  /\ ~lock_requested
  /\ running_for >= p.startup_grace
  /\ away_for >= p.away_confirm
  /\ idle_for >= p.idle_confirm

\* Slip: the input devices are opened whenever the agent is enabled.
ShouldMonitorAlways(p) == p.enabled

ShouldMonitorInput(p) == p.enabled /\ p.lock_screen

ShouldArmWake(wake_armed, away_for, p) ==
  p.enabled /\ p.wake_screen /\ ~wake_armed /\ away_for >= p.wake_rearm

\* Slip: manual locks are woken without the opt-in.
ShouldWakeAny(wake_requested, wake_armed, locked_by_hpd, present_for, p) ==
  /\ p.enabled
  /\ ~wake_requested
  /\ p.wake_screen
  /\ locked_by_hpd \/ wake_armed
  /\ present_for >= p.present_confirm

ShouldWake(wake_requested, wake_armed, locked_by_hpd, present_for, p) ==
  /\ p.enabled
  /\ ~wake_requested
  /\ p.wake_screen
  /\ locked_by_hpd \/ (p.wake_manual_lock /\ wake_armed)
  /\ present_for >= p.present_confirm

ShouldShowOsd(announced_present, present, stable_for, last_osd_at, p) ==
  /\ p.enabled /\ p.show_osd
  /\ announced_present # present
  /\ stable_for >= p.osd_confirm
  /\ last_osd_at = None \/ last_osd_at >= p.osd_cooldown

\* The pair (away_since, present_since) when the sensor state becomes known.
PresenceDeadlines(available, present) ==
  << IF available /\ ~present THEN 0 ELSE None,
     IF available /\ present THEN 0 ELSE None >>

-----------------------------------------------------------------------------
(* What the command line reports of these decisions, without a mode text *)

\* effective_policy: the actions the agent can take (diagnose).
EffectivePolicy(p, screen_off_supported) ==
  [ live             |-> Live(p),
    input_monitor    |-> ShouldMonitorInput(p),
    lock_screen      |-> p.enabled /\ p.lock_screen,
    turn_off_screen  |-> /\ p.enabled /\ p.lock_screen
                         /\ p.turn_off_screen /\ screen_off_supported,
    wake_screen      |-> p.enabled /\ p.wake_screen,
    wake_manual_lock |-> p.enabled /\ p.wake_screen /\ p.wake_manual_lock,
    show_osd         |-> p.enabled /\ p.show_osd ]

\* Slip: a wake is simulated whether or not the screen is locked.
SimulateWakeUnlocked(p, s) ==
  [ lock     |-> /\ ~s.present
                 /\ ShouldLock(FALSE, s.stable_for, s.idle_for, s.running_for,
                               p),
    wake     |-> /\ s.present
                 /\ ShouldWake(FALSE, s.wake_armed, s.locked_by_hpd,
                               s.stable_for, p),
    show_osd |-> ShouldShowOsd(s.announced_present, s.present, s.stable_for,
                               s.last_osd_at, p) ]

\* simulate_policy: the decisions for a state s given on the command line.  What
\* it repeats of them is left out: the request to turn the screen off is the
\* lock with the policy and the support for it.
SimulatePolicy(p, s) ==
  [ lock     |-> /\ ~s.present
                 /\ ShouldLock(FALSE, s.stable_for, s.idle_for, s.running_for,
                               p),
    wake     |-> /\ s.present /\ s.screen_locked
                 /\ ShouldWake(FALSE, s.wake_armed, s.locked_by_hpd,
                               s.stable_for, p),
    show_osd |-> ShouldShowOsd(s.announced_present, s.present, s.stable_for,
                               s.last_osd_at, p) ]
=============================================================================
