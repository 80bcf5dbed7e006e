----------------------------- MODULE CycleProofs -----------------------------
(***************************************************************************)
(* Proofs about the return cycles of the agent, as the observer of         *)
(* AgentCycle sees them, for every set of policies and every set of        *)
(* faults.  The observer only watches, so what AgentProofs shows of Agent  *)
(* holds here too.                                                         *)
(***************************************************************************)
EXTENDS AgentCycle, AgentProofs

\* The agent under observation behaves as Agent.
LEMMA ObservedStep == [CycleNext]_cycleVars => [Next]_vars
BY DEF CycleNext, cycleVars

LEMMA Observed == CycleSpec => Spec
<1>1. CycleInit => Init
  BY DEF CycleInit
<1> QED
  BY <1>1, ObservedStep, PTL DEF CycleSpec, Spec

\* What AgentProofs shows of every state of the agent.
Known == TypeOK /\ DeadlineCoherence /\ WakeIsAuthorised

LEMMA AlwaysKnown == CycleSpec => []Known
BY Observed, TypeCorrect, DeadlinesCoherent, WakesAreAuthorised, PTL DEF Known

-----------------------------------------------------------------------------
(* A completed return cycle *)

\* Nothing is there that could authorise a wake, and no absence is seen.
Clear == ~Absence /\ ~marker /\ ~locked_by_hpd /\ ~wake_armed

\* Only an absence that the agent sees brings such a thing back.
LEMMA ClearStep ==
  TypeOK /\ PlaceSeen /\ Clear /\ [Next]_vars => Absence' \/ Clear'
<1> SUFFICES ASSUME TypeOK, PlaceSeen, Clear, [Next]_vars, ~Absence'
             PROVE  Clear'
  OBVIOUS
<1> USE DEF TypeOK, MemoryTypeOK, PlaceSeen, Clear, Absence, sensor, requests,
            osd, clocks, task, bus, desktop
<1>1. ASSUME Start \/ SubscribeSignals PROVE Clear'
  BY <1>1 DEF Start, SubscribeSignals
<1>2. ASSUME Connect PROVE Clear'
  BY <1>2 DEF Connect
<1>3. ASSUME ReadInitialLock PROVE Clear'
  BY <1>3 DEF ReadInitialLock
<1>4. ASSUME SubscribeOwner PROVE Clear'
  BY <1>4 DEF SubscribeOwner, PresenceDeadlines
<1>5. ASSUME CallFails \/ Crash \/ Shutdown \/ LockFails PROVE Clear'
  BY <1>5 DEF CallFails, Exit, Crash, Shutdown, LockFails
<1>6. ASSUME HandleSignal PROVE Clear'
  BY <1>6 DEF HandleSignal, SignalUnavailable, SignalTransition,
     SignalUnchanged, SetDeadlines, PresenceDeadlines
<1>7. ASSUME HandleOwnerLost \/ HandleOwnerGained PROVE Clear'
  BY <1>7 DEF HandleOwnerLost, SetDeadlines, PresenceDeadlines,
     HandleOwnerGained
<1>8. ASSUME GetStateReply \/ GetStateFails PROVE Clear'
  BY <1>8 DEF GetStateReply, SetDeadlines, PresenceDeadlines, GetStateFails
<1>9. ASSUME TickWithOsd PROVE Clear'
  BY <1>9 DEF TickWithOsd, ArmWake, Decision, AfterOsd
<1>10. ASSUME TickQuiet PROVE Clear'
  BY <1>10 DEF TickQuiet, ArmWake, Decision, AfterOsd
<1>11. ASSUME OsdReply PROVE Clear'
  BY <1>11 DEF OsdReply, AfterOsd
<1>12. ASSUME QueryFails \/ QueryAwayLocked PROVE Clear'
  BY <1>12 DEF QueryFails, Finish, QueryAwayLocked
<1>13. ASSUME QueryAwayDryRun PROVE Clear'
  BY <1>13 DEF QueryAwayDryRun, Finish
<1>14. ASSUME QueryAwayMark PROVE Clear'
  BY <1>14 DEF QueryAwayMark
<1>15. ASSUME LockExecutes \/ TurnOffScreen PROVE Clear'
  BY <1>15 DEF LockExecutes, TurnOffScreen
<1>16. ASSUME LockReply PROVE Clear'
  BY <1>16 DEF LockReply
<1>17. ASSUME QueryPresentUnlocked PROVE Clear'
  BY <1>17 DEF QueryPresentUnlocked, CycleComplete, Finish
<1>18. ASSUME QueryPresentWait PROVE Clear'
  BY <1>18 DEF QueryPresentWait, Finish
<1>19. ASSUME QueryPresentDryRun PROVE Clear'
  BY <1>19 DEF QueryPresentDryRun, CycleComplete, Finish
<1>20. ASSUME QueryPresentWake PROVE Clear'
  BY <1>20 DEF QueryPresentWake
<1>21. ASSUME WakeExecutes PROVE Clear'
  BY <1>21 DEF WakeExecutes
<1>22. ASSUME WakeReply PROVE Clear'
  BY <1>22 DEF WakeReply, CycleComplete, Finish
<1>23. ASSUME MonitorStops \/ UserLocks \/ UserUnlocks \/ UserInput
      PROVE  Clear'
  BY <1>23 DEF MonitorStops, UserLocks, UserUnlocks, UserInput
<1>24. ASSUME ServiceStarts \/ ServiceWrites \/ ServiceAnnounces \/
              ServiceStops
      PROVE  Clear'
  BY <1>24 DEF ServiceStarts, ServiceWrites, ServiceAnnounces, ServiceStops
<1>25. ASSUME Elapse PROVE Clear'
  BY <1>25 DEF Elapse, Older
<1>26. ASSUME UNCHANGED vars PROVE Clear'
  BY <1>26 DEF vars
<1> QED
  BY <1>1, <1>2, <1>3, <1>4, <1>5, <1>6, <1>7, <1>8, <1>9, <1>10, <1>11,
     <1>12, <1>13, <1>14, <1>15, <1>16, <1>17, <1>18, <1>19, <1>20, <1>21,
     <1>22, <1>23, <1>24, <1>25, <1>26 DEF Next, AgentStep, EnvStep

\* The end of a cycle leaves nothing behind.
LEMMA ReturnClears == TypeOK /\ PlaceSeen /\ ReturnCompletes => Clear'
BY DEF ReturnCompletes, QueryPresentUnlocked, WakeReply, CycleComplete, Finish,
       TypeOK, MemoryTypeOK, PlaceSeen, Absence, Clear, sensor

CompletedIsClear == completed => Clear

LEMMA CompletedStep ==
  TypeOK /\ PlaceSeen /\ CompletedIsClear /\ [CycleNext]_cycleVars =>
    CompletedIsClear'
<1> SUFFICES ASSUME TypeOK, PlaceSeen, CompletedIsClear, [CycleNext]_cycleVars,
                    completed'
             PROVE  Clear'
  BY DEF CompletedIsClear
<1>1. CASE ReturnCompletes
  BY <1>1, ReturnClears
<1>2. CASE ~ReturnCompletes /\ CycleNext
  <2>1. completed /\ ~Absence'
    BY <1>2 DEF CycleNext, ObserverStep, Absence
  <2> QED
    BY <2>1, ObservedStep, ClearStep DEF CompletedIsClear
<1>3. CASE UNCHANGED cycleVars
  BY <1>3 DEF cycleVars, vars, sensor, requests, desktop, CompletedIsClear,
              Clear, Absence
<1> QED
  BY <1>1, <1>2, <1>3

LEMMA CycleInvariant == CycleSpec => [](PlaceSeen /\ CompletedIsClear)
<1>1. CycleInit => PlaceSeen /\ CompletedIsClear
  BY DEF CycleInit, Init, PlaceSeen, CompletedIsClear
<1>2. Known /\ PlaceSeen /\ CompletedIsClear /\ [CycleNext]_cycleVars =>
        PlaceSeen' /\ CompletedIsClear'
  BY ObservedStep, PlaceSeenStep, CompletedStep DEF Known
<1> QED
  BY <1>1, <1>2, AlwaysKnown, PTL DEF CycleSpec

\* Once a return was woken, or seen with an unlocked screen, the agent wakes no
\* screen until it has seen an absence: whatever is locked since, whatever
\* becomes unavailable or reconnects, and however often the agent crashes and
\* starts in between.
THEOREM CompletedCyclesRest == CycleSpec => []NoWakeInCompletedCycle
<1>1. Known /\ CompletedIsClear => NoWakeInCompletedCycle
  BY DEF Known, WakeIsAuthorised, CompletedIsClear, Clear,
         NoWakeInCompletedCycle
<1> QED
  BY <1>1, AlwaysKnown, CycleInvariant, PTL

-----------------------------------------------------------------------------
(* The rest before a manual lock is woken *)

\* The wake for manual locks is armed only in a loop whose latest absence
\* lasted long enough.
ArmedAfterRest ==
  wake_armed => /\ pc \in Parked /\ rested
                /\ Absence => away_since >= policy.wake_rearm

\* A step that leaves the wake armed, or arms it.
StaysArmed ==
  wake_armed' => /\ pc' \in Parked /\ policy' = policy
                 /\ IF Absence' THEN away_since' >= policy.wake_rearm
                                ELSE rested

\* Every step is one that disarms, or that keeps the rest.
LEMMA StaysArmedStep ==
  Known /\ ArmedAfterRest /\ [Next]_vars => StaysArmed
<1> SUFFICES ASSUME Known, ArmedAfterRest, [Next]_vars
             PROVE  StaysArmed
  OBVIOUS
<1> USE DEF Known, ArmedAfterRest, StaysArmed, Absence, Parked, Startup,
            sensor, requests, osd, clocks, task, bus, desktop
<1>1. ASSUME Start PROVE StaysArmed
  BY <1>1 DEF Start
<1>2. ASSUME SubscribeSignals PROVE StaysArmed
  BY <1>2 DEF SubscribeSignals
<1>3. ASSUME Connect PROVE StaysArmed
  BY <1>3 DEF Connect
<1>4. ASSUME ReadInitialLock PROVE StaysArmed
  BY <1>4 DEF ReadInitialLock
<1>5. ASSUME SubscribeOwner PROVE StaysArmed
  BY <1>5 DEF SubscribeOwner, PresenceDeadlines
<1>6. ASSUME CallFails PROVE StaysArmed
  BY <1>6 DEF CallFails, Exit
<1>7. ASSUME Crash PROVE StaysArmed
  BY <1>7 DEF Crash, Exit
<1>8. ASSUME Shutdown PROVE StaysArmed
  BY <1>8 DEF Shutdown, Exit
<1>9. ASSUME LockFails PROVE StaysArmed
  BY <1>9 DEF LockFails, Exit
<1>10. ASSUME HandleSignal PROVE StaysArmed
  <2>1. CASE SignalUnavailable(Head(sigQ))
    BY <1>10, <2>1 DEF HandleSignal, SignalUnavailable
  <2>2. CASE SignalTransition(Head(sigQ))
    BY <1>10, <2>2
       DEF HandleSignal, SignalTransition, SetDeadlines, PresenceDeadlines
  <2>3. CASE SignalUnchanged(Head(sigQ))
    BY <1>10, <2>3 DEF HandleSignal, SignalUnchanged
  <2> QED
    BY <1>10, <2>1, <2>2, <2>3 DEF HandleSignal
<1>11. ASSUME HandleOwnerLost PROVE StaysArmed
  BY <1>11 DEF HandleOwnerLost, SetDeadlines, PresenceDeadlines
<1>12. ASSUME HandleOwnerGained PROVE StaysArmed
  BY <1>12 DEF HandleOwnerGained
<1>13. ASSUME GetStateReply PROVE StaysArmed
  BY <1>13 DEF GetStateReply, SetDeadlines, PresenceDeadlines
<1>14. ASSUME GetStateFails PROVE StaysArmed
  BY <1>14 DEF GetStateFails
<1>15. ASSUME TickWithOsd PROVE StaysArmed
  BY <1>15, PolicyAssumption DEF TickWithOsd, ArmWake, Decision, AfterOsd,
     TypeOK, MemoryTypeOK, ClockTypeOK, OptionAge, None, Policy,
     DeadlineCoherence, Running, ShouldArmWake, Elapsed
<1>16. ASSUME TickQuiet PROVE StaysArmed
  BY <1>16, PolicyAssumption DEF TickQuiet, ArmWake, Decision, AfterOsd,
     TypeOK, MemoryTypeOK, ClockTypeOK, OptionAge, None, Policy,
     DeadlineCoherence, Running, ShouldArmWake, Elapsed
<1>17. ASSUME OsdReply PROVE StaysArmed
  BY <1>17 DEF OsdReply, AfterOsd
<1>18. ASSUME QueryFails PROVE StaysArmed
  BY <1>18 DEF QueryFails, Finish
<1>19. ASSUME QueryAwayLocked PROVE StaysArmed
  BY <1>19 DEF QueryAwayLocked, Finish
<1>20. ASSUME QueryAwayDryRun PROVE StaysArmed
  BY <1>20 DEF QueryAwayDryRun, Finish
<1>21. ASSUME QueryAwayMark PROVE StaysArmed
  BY <1>21 DEF QueryAwayMark
<1>22. ASSUME LockExecutes PROVE StaysArmed
  BY <1>22 DEF LockExecutes
<1>23. ASSUME TurnOffScreen PROVE StaysArmed
  BY <1>23 DEF TurnOffScreen
<1>24. ASSUME LockReply PROVE StaysArmed
  BY <1>24 DEF LockReply
<1>25. ASSUME QueryPresentUnlocked PROVE StaysArmed
  BY <1>25 DEF QueryPresentUnlocked, CycleComplete, Finish
<1>26. ASSUME QueryPresentWait PROVE StaysArmed
  BY <1>26 DEF QueryPresentWait, Finish
<1>27. ASSUME QueryPresentDryRun PROVE StaysArmed
  BY <1>27 DEF QueryPresentDryRun, CycleComplete, Finish
<1>28. ASSUME QueryPresentWake PROVE StaysArmed
  BY <1>28 DEF QueryPresentWake
<1>29. ASSUME WakeExecutes PROVE StaysArmed
  BY <1>29 DEF WakeExecutes
<1>30. ASSUME WakeReply PROVE StaysArmed
  BY <1>30 DEF WakeReply, CycleComplete, Finish
<1>31. ASSUME MonitorStops PROVE StaysArmed
  BY <1>31 DEF MonitorStops
<1>32. ASSUME UserLocks PROVE StaysArmed
  BY <1>32 DEF UserLocks
<1>33. ASSUME UserUnlocks PROVE StaysArmed
  BY <1>33 DEF UserUnlocks
<1>34. ASSUME UserInput PROVE StaysArmed
  BY <1>34 DEF UserInput
<1>35. ASSUME ServiceStarts PROVE StaysArmed
  BY <1>35 DEF ServiceStarts
<1>36. ASSUME ServiceWrites PROVE StaysArmed
  BY <1>36 DEF ServiceWrites
<1>37. ASSUME ServiceAnnounces PROVE StaysArmed
  BY <1>37 DEF ServiceAnnounces
<1>38. ASSUME ServiceStops PROVE StaysArmed
  BY <1>38 DEF ServiceStops
<1>39. ASSUME Elapse PROVE StaysArmed
  BY <1>39, PolicyAssumption DEF Elapse, Older, TypeOK, MemoryTypeOK,
     ClockTypeOK, OptionAge, None, Policy
<1>40. ASSUME UNCHANGED vars PROVE StaysArmed
  BY <1>40 DEF vars
<1> QED
  BY <1>1, <1>2, <1>3, <1>4, <1>5, <1>6, <1>7, <1>8, <1>9, <1>10, <1>11,
     <1>12, <1>13, <1>14, <1>15, <1>16, <1>17, <1>18, <1>19, <1>20, <1>21,
     <1>22, <1>23, <1>24, <1>25, <1>26, <1>27, <1>28, <1>29, <1>30, <1>31,
     <1>32, <1>33, <1>34, <1>35, <1>36, <1>37, <1>38, <1>39, <1>40 DEF Next,
     AgentStep, EnvStep

LEMMA ArmedStep ==
  Known /\ ArmedAfterRest /\ [CycleNext]_cycleVars => ArmedAfterRest'
<1> SUFFICES ASSUME Known, ArmedAfterRest, [CycleNext]_cycleVars, wake_armed'
             PROVE  /\ pc' \in Parked /\ rested'
                    /\ Absence' => away_since' >= policy'.wake_rearm
  BY DEF ArmedAfterRest
<1>1. ~ReturnCompletes
  BY DEF ReturnCompletes, QueryPresentUnlocked, WakeReply, CycleComplete
<1>2. CASE CycleNext
  <2>1. StaysArmed
    BY ObservedStep, StaysArmedStep
  <2>2. rested' = /\ pc' # "off"
                  /\ IF Absence' THEN away_since' >= policy.wake_rearm
                                 ELSE rested
    BY <1>1, <1>2 DEF CycleNext, ObserverStep, Absence
  <2> QED
    BY <2>1, <2>2 DEF StaysArmed, Parked
<1>3. CASE UNCHANGED cycleVars
  BY <1>3 DEF cycleVars, vars, sensor, requests, ArmedAfterRest, Absence
<1> QED
  BY <1>2, <1>3

\* A wake of a screen that HPD did not lock follows an absence of the length
\* the policy asks for, and it is the latest absence: short flaps of the
\* sensor, a restart or a new daemon arm nothing.
THEOREM ManualWakesNeedRest == CycleSpec => []ManualWakeNeedsRest
<1>1. CycleInit => ArmedAfterRest
  BY DEF CycleInit, Init, ArmedAfterRest
<1>2. Known /\ ArmedAfterRest => ManualWakeNeedsRest
  BY DEF Known, WakeIsAuthorised, ArmedAfterRest, ManualWakeNeedsRest
<1> QED
  BY <1>1, <1>2, AlwaysKnown, ArmedStep, PTL DEF CycleSpec
=============================================================================
