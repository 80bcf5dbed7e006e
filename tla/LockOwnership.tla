---------------------------- MODULE LockOwnership ----------------------------
(***************************************************************************)
(* Who owns the lock of the screen: what the agent promises about it,      *)
(* whatever it decides and however often it is restarted.  `claim` is      *)
(* durable (the lock marker); `asking` is the request under way, which a   *)
(* crash forgets.  A claim is made before a lock is asked for, only for an *)
(* unlocked screen, and kept as long as HPD owes that screen a wake.       *)
(***************************************************************************)

VARIABLES
  screen,   \* who locked the screen, if it is locked
  owed,     \* HPD locked this screen and has not woken it yet
  claim,    \* it is on record that HPD asked for the lock
  asking,   \* the request under way
  armed     \* the opt-in for manual locks applies, an input of this protocol

vars == <<screen, owed, claim, asking, armed>>

Init ==
  /\ screen \in {"unlocked", "manual"}
  /\ owed = FALSE /\ claim = FALSE /\ asking = "nothing"
  /\ armed = FALSE

\* The claim and the request for a screen that was seen unlocked.
AskLock ==
  /\ asking = "nothing" /\ screen = "unlocked"
  /\ claim' = TRUE /\ asking' = "lock"
  /\ UNCHANGED <<screen, owed>>

\* The desktop locks, unless the user was faster.
Lock ==
  /\ asking = "lock"
  /\ asking' = "locked"
  /\ screen' = IF screen = "unlocked" THEN "hpd" ELSE screen
  /\ owed' = (owed \/ screen = "unlocked")
  /\ UNCHANGED claim

\* HPD is told that its lock failed, and gives the claim up.
Disown ==
  /\ asking \in {"lock", "locked"}
  /\ claim' = FALSE /\ owed' = FALSE /\ asking' = "nothing"
  /\ UNCHANGED screen

\* A wake needs a claim or the armed opt-in.
AskWake ==
  /\ asking = "nothing" /\ (claim \/ armed) /\ screen # "unlocked"
  /\ asking' = "wake"
  /\ UNCHANGED <<screen, owed, claim>>

Wake ==
  /\ asking = "wake"
  /\ asking' = "woken" /\ owed' = FALSE
  /\ UNCHANGED <<screen, claim>>

\* The request is answered, fails or dies with its process.
Finish ==
  /\ asking' = "nothing"
  /\ UNCHANGED <<screen, owed, claim>>

\* The claim ends only when nothing is owed any more.
Release ==
  /\ asking \in {"nothing", "woken"} /\ ~owed
  /\ claim' = FALSE /\ asking' = "nothing"
  /\ UNCHANGED <<screen, owed>>

UserLocks ==
  /\ screen = "unlocked" /\ screen' = "manual"
  /\ UNCHANGED <<owed, claim, asking>>

UserUnlocks ==
  /\ screen # "unlocked" /\ screen' = "unlocked" /\ owed' = FALSE
  /\ UNCHANGED <<claim, asking>>

Next ==
  /\ \/ AskLock \/ Lock \/ Disown \/ AskWake \/ Wake \/ Finish \/ Release
     \/ UserLocks \/ UserUnlocks
  /\ armed' \in BOOLEAN

Spec == Init /\ [][Next]_vars
=============================================================================
