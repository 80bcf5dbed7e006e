------------------------------ MODULE MCAgent ------------------------------
(***************************************************************************)
(* Small policies for model checking Agent.  Every confirmation is one or  *)
(* two units, so that "not yet" and "long enough" both occur.              *)
(***************************************************************************)
EXTENDS Agent

LockAndWake ==
  [ enabled |-> TRUE, dry_run |-> FALSE, lock_screen |-> TRUE,
    turn_off_screen |-> FALSE, wake_screen |-> TRUE,
    wake_manual_lock |-> FALSE, show_osd |-> FALSE,
    away_confirm |-> 2, idle_confirm |-> 2, startup_grace |-> 1,
    present_confirm |-> 1, wake_rearm |-> 1, osd_confirm |-> 1,
    osd_cooldown |-> 1, screen_off_delay |-> 1 ]

ManualWake == [LockAndWake EXCEPT !.wake_manual_lock = TRUE,
                                  !.turn_off_screen = TRUE, !.idle_confirm = 1]
DryRun     == [LockAndWake EXCEPT !.dry_run = TRUE, !.show_osd = TRUE,
                                  !.turn_off_screen = TRUE, !.idle_confirm = 1]
LockAndBlank == [LockAndWake EXCEPT !.turn_off_screen = TRUE]
WakeOnly   == [LockAndWake EXCEPT !.lock_screen = FALSE, !.show_osd = TRUE]
Disabled   == [ManualWake EXCEPT !.enabled = FALSE, !.show_osd = TRUE]

\* The daemon's messages while a tick is at its awaits, with the shortest
\* times: a dry run with its input monitor, and a live agent that only tells.
BriefDryRun ==
  [LockAndWake EXCEPT !.dry_run = TRUE, !.away_confirm = 1, !.idle_confirm = 0,
                      !.startup_grace = 0, !.osd_cooldown = 0]
BriefOsd ==
  [BriefDryRun EXCEPT !.dry_run = FALSE, !.show_osd = TRUE,
                      !.lock_screen = FALSE, !.wake_screen = FALSE]

BriefPolicies   == {BriefDryRun, BriefOsd}
OnlyLockAndWake  == {LockAndWake}
OnlyLockAndBlank == {LockAndBlank}
AllPolicies     == {LockAndWake, ManualWake, DryRun, WakeOnly, Disabled}

\* An agent that has subscribed and whose view is the daemon's state.
SteadyInit ==
  /\ pc = "select" /\ policy \in Policies
  /\ \E available, is_present \in BOOLEAN :
       /\ is_present => available
       /\ service = [up |-> TRUE, available |-> available,
                     present |-> is_present, told |-> TRUE]
       /\ sensor_available = available /\ present = is_present
       /\ away_since = PresenceDeadlines(available, is_present)[1]
       /\ present_since = PresenceDeadlines(available, is_present)[2]
       /\ osd_announced_present = is_present
  /\ lock_requested = FALSE /\ wake_requested = FALSE
  /\ wake_armed = FALSE /\ locked_by_hpd = FALSE
  /\ last_osd_at = None
  /\ started_at = 0 /\ last_activity = 0 /\ slept = 0
  /\ decision = "none"
  /\ monitoring = IF ShouldMonitorInput(policy) THEN "running" ELSE "none"
  /\ sigQ = <<>> /\ ownQ = <<>>
  /\ screen \in {"unlocked", "manual"}
  /\ owed = FALSE /\ display = "on" /\ marker = FALSE /\ input_age = 0

SteadySpec     == SteadyInit /\ [][Next]_vars
SteadyFairSpec == SteadySpec /\ Fairness
=============================================================================
