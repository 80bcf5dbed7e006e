----------------------------- MODULE AgentCycle -----------------------------
(***************************************************************************)
(* The agent of Agent.tla with an observer of its return cycles.  The      *)
(* observer outlives the process: what it remembers is what the user saw,  *)
(* not what the agent holds in memory.                                     *)
(***************************************************************************)
EXTENDS Agent

VARIABLES
  completed,   \* this return was woken, or seen with an unlocked screen
  rested       \* the last absence lasted wake_rearm, and no return since
               \* has been completed

cycleVars == <<vars, completed, rested>>

ReturnCompletes == QueryPresentUnlocked \/ WakeReply

\* The observer follows the step the agent or its environment takes.
ObserverStep ==
  /\ completed' = \/ ReturnCompletes
                  \/ completed /\ ~(sensor_available' /\ ~present')
  /\ rested' = /\ ~ReturnCompletes
               /\ pc' # "off"
               /\ IF sensor_available' /\ ~present'
                    THEN away_since' >= policy.wake_rearm
                    ELSE rested

CycleInit == Init /\ completed = FALSE /\ rested = FALSE

CycleNext == Next /\ ObserverStep

CycleSpec == CycleInit /\ [][CycleNext]_cycleVars

-----------------------------------------------------------------------------
\* "Once a present user is confirmed to have an unlocked screen, that return
\* cycle is considered complete ... wake is re-armed only by a new
\* away-to-present transition" (README.md:66-69): no later lock is undone
\* until the agent has seen an absence, whatever becomes unavailable,
\* reconnects, crashes or restarts in between.
NoWakeInCompletedCycle == pc = "wakeCall" => ~completed

\* "Manual-lock wake is re-armed only after a configurable confirmed absence,
\* preventing rapid present/away sensor flapping from repeatedly waking a
\* manually locked screen" (README.md:46): a wake without an HPD lock follows
\* an absence that lasted wake_rearm, and it is the latest absence.
ManualWakeNeedsRest == pc = "wakeCall" /\ ~marker => rested
=============================================================================
