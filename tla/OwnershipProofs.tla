--------------------------- MODULE OwnershipProofs ---------------------------
(***************************************************************************)
(* Agent implements LockOwnership, for every set of policies and faults:   *)
(* a step simulation over the invariants of AgentProofs.                   *)
(***************************************************************************)
EXTENDS AgentProofs

\* The opt-in stays a Boolean.
LEMMA ArmedType == TypeOK' => Armed' \in BOOLEAN
<1> SUFFICES ASSUME TypeOK' PROVE Armed' \in BOOLEAN
  OBVIOUS
<1>1. ASSUME NEW p \in Policies PROVE p.wake_manual_lock \in BOOLEAN
  BY PolicyAssumption DEF Policy
<1>2. policy' \in Policies /\ wake_armed' \in BOOLEAN
  BY DEF TypeOK, MemoryTypeOK
<1>3. policy'.wake_manual_lock \in BOOLEAN
  BY <1>1, <1>2
<1> QED
  BY <1>2, <1>3 DEF Armed

\* A step of the process that asks for nothing afterwards, and leaves the
\* screen and the marker alone.
Silent == UNCHANGED <<screen, owed, marker>> /\ Asking' = "nothing"

\* A step of the world that leaves the request and the opt-in alone.
Aside == UNCHANGED <<screen, owed, marker, pc, policy, wake_armed>>

\* Every action is an action of LockOwnership or leaves its variables alone.
LEMMA OwnershipSimulation ==
  ASSUME TypeOK, TypeOK', Ownership, Recorded, WakePending, [Next]_vars
  PROVE  [LockOwner!Next]_LockOwner!vars
<1> DEFINE Step == [LockOwner!Next]_LockOwner!vars
<1> USE DEF sensor, requests, osd, clocks, task, bus, desktop
<1>armed. Armed' \in BOOLEAN
  BY ArmedType
<1>silent. Silent => Step
  BY <1>armed DEF Silent, LockOwner!Next, LockOwner!Finish
<1>aside. Aside => Step
  BY DEF Aside, LockOwner!vars, Asking, Armed
<1>1. Start => Step
  <2>1. Start => Silent
    BY DEF Start, Silent, Asking
  <2> QED
    BY <2>1, <1>silent
<1>2. Connect => Step
  <2>1. Connect => Silent
    BY DEF Connect, Silent, Asking
  <2> QED
    BY <2>1, <1>silent
<1>3. SubscribeSignals => Step
  <2>1. SubscribeSignals => Silent
    BY DEF SubscribeSignals, Silent, Asking
  <2> QED
    BY <2>1, <1>silent
<1>4. SubscribeOwner => Step
  <2>1. SubscribeOwner => Silent
    BY DEF SubscribeOwner, Silent, Asking
  <2> QED
    BY <2>1, <1>silent
<1>5. CallFails => Step
  <2>1. CallFails => Silent
    BY DEF CallFails, Exit, Silent, Asking
  <2> QED
    BY <2>1, <1>silent
<1>6. Crash => Step
  <2>1. Crash => Silent
    BY DEF Crash, Exit, Silent, Asking
  <2> QED
    BY <2>1, <1>silent
<1>7. Shutdown => Step
  <2>1. Shutdown => Silent
    BY DEF Shutdown, Exit, Silent, Asking
  <2> QED
    BY <2>1, <1>silent
<1>8. MonitorStops => Step
  <2>1. MonitorStops => Aside
    BY DEF MonitorStops, Aside
  <2> QED
    BY <2>1, <1>aside
<1>9. HandleSignal => Step
  <2>1. HandleSignal => Silent
    BY DEF HandleSignal, Silent, Asking
  <2> QED
    BY <2>1, <1>silent
<1>10. HandleOwnerLost => Step
  <2>1. HandleOwnerLost => Silent
    BY DEF HandleOwnerLost, Silent, Asking
  <2> QED
    BY <2>1, <1>silent
<1>11. HandleOwnerGained => Step
  <2>1. HandleOwnerGained => Silent
    BY DEF HandleOwnerGained, Silent, Asking
  <2> QED
    BY <2>1, <1>silent
<1>12. GetStateReply => Step
  <2>1. GetStateReply => Silent
    BY DEF GetStateReply, Silent, Asking
  <2> QED
    BY <2>1, <1>silent
<1>13. GetStateFails => Step
  <2>1. GetStateFails => Silent
    BY DEF GetStateFails, Silent, Asking
  <2> QED
    BY <2>1, <1>silent
<1>14. TickWithOsd => Step
  <2>1. TickWithOsd => Silent
    BY DEF TickWithOsd, AfterOsd, Silent, Asking
  <2> QED
    BY <2>1, <1>silent
<1>15. TickQuiet => Step
  <2>1. TickQuiet => Silent
    BY DEF TickQuiet, AfterOsd, Silent, Asking
  <2> QED
    BY <2>1, <1>silent
<1>16. OsdReply => Step
  <2>1. OsdReply => Silent
    BY DEF OsdReply, AfterOsd, Silent, Asking
  <2> QED
    BY <2>1, <1>silent
<1>17. QueryFails => Step
  <2>1. QueryFails => Silent
    BY DEF QueryFails, Finish, Silent, Asking
  <2> QED
    BY <2>1, <1>silent
<1>18. QueryAwayLocked => Step
  <2>1. QueryAwayLocked => Silent
    BY DEF QueryAwayLocked, Finish, Silent, Asking
  <2> QED
    BY <2>1, <1>silent
<1>19. QueryAwayDryRun => Step
  <2>1. QueryAwayDryRun => Silent
    BY DEF QueryAwayDryRun, Finish, Silent, Asking
  <2> QED
    BY <2>1, <1>silent
<1>20. LockReply => Step
  <2>1. LockReply => Silent
    BY DEF LockReply, Silent, Asking
  <2> QED
    BY <2>1, <1>silent
<1>21. TurnOffScreen => Step
  <2>1. TurnOffScreen => Silent
    BY DEF TurnOffScreen, Silent, Asking
  <2> QED
    BY <2>1, <1>silent
<1>22. QueryPresentWait => Step
  <2>1. QueryPresentWait => Silent
    BY DEF QueryPresentWait, Finish, Silent, Asking
  <2> QED
    BY <2>1, <1>silent
<1>23. QueryPresentDryRun => Step
  <2>1. QueryPresentDryRun => Silent
    BY DEF QueryPresentDryRun, CycleComplete, Finish, Silent, Asking
  <2> QED
    BY <2>1, <1>silent
<1>24. ServiceStarts => Step
  <2>1. ServiceStarts => Aside
    BY DEF ServiceStarts, Aside
  <2> QED
    BY <2>1, <1>aside
<1>25. ServiceWrites => Step
  <2>1. ServiceWrites => Aside
    BY DEF ServiceWrites, Aside
  <2> QED
    BY <2>1, <1>aside
<1>26. ServiceAnnounces => Step
  <2>1. ServiceAnnounces => Aside
    BY DEF ServiceAnnounces, Aside
  <2> QED
    BY <2>1, <1>aside
<1>27. ServiceStops => Step
  <2>1. ServiceStops => Aside
    BY DEF ServiceStops, Aside
  <2> QED
    BY <2>1, <1>aside
<1>28. UserInput => Step
  <2>1. UserInput => Aside
    BY DEF UserInput, Aside
  <2> QED
    BY <2>1, <1>aside
<1>29. Elapse => Step
  <2>1. Elapse => Aside
    BY DEF Elapse, Aside
  <2> QED
    BY <2>1, <1>aside
<1>30. ReadInitialLock => Step
  <2> SUFFICES ASSUME ReadInitialLock PROVE Step
    OBVIOUS
  <2>1. CASE marker' = marker
    BY <2>1, <1>silent DEF ReadInitialLock, Silent, Asking
  <2>2. CASE marker' # marker
    <3>1. ~owed /\ ~marker'
      BY <2>2 DEF ReadInitialLock, Recorded, Locked, TypeOK, WorldTypeOK
    <3>2. LockOwner!Release
      BY <3>1 DEF ReadInitialLock, LockOwner!Release, Asking
    <3> QED
      BY <3>2, <1>armed DEF LockOwner!Next
  <2> QED
    BY <2>1, <2>2
<1>31. QueryAwayMark => Step
  <2>1. QueryAwayMark => LockOwner!AskLock
    BY DEF QueryAwayMark, LockOwner!AskLock, Locked, Asking
  <2> QED
    BY <2>1, <1>armed DEF LockOwner!Next
<1>32. LockExecutes => Step
  <2>1. LockExecutes => LockOwner!Lock
    BY DEF LockExecutes, LockOwner!Lock, Locked, Asking
  <2> QED
    BY <2>1, <1>armed DEF LockOwner!Next
<1>33. LockFails => Step
  <2>1. LockFails => LockOwner!Disown
    BY DEF LockFails, Exit, LockOwner!Disown, Asking, Recorded, TypeOK,
       WorldTypeOK
  <2> QED
    BY <2>1, <1>armed DEF LockOwner!Next
<1>34. QueryPresentUnlocked => Step
  <2>1. QueryPresentUnlocked => LockOwner!Release
    BY DEF QueryPresentUnlocked, CycleComplete, Finish, LockOwner!Release,
       Asking, Recorded, Locked, TypeOK, WorldTypeOK
  <2> QED
    BY <2>1, <1>armed DEF LockOwner!Next
<1>35. QueryPresentWake => Step
  <2>1. QueryPresentWake => LockOwner!AskWake
    BY DEF QueryPresentWake, LockOwner!AskWake, Locked, Asking, Armed,
       WakePending, WakeGrounds, Ownership, OwnershipDurable
  <2> QED
    BY <2>1, <1>armed DEF LockOwner!Next
<1>36. WakeExecutes => Step
  <2>1. WakeExecutes => LockOwner!Wake
    BY DEF WakeExecutes, LockOwner!Wake, Asking
  <2> QED
    BY <2>1, <1>armed DEF LockOwner!Next
<1>37. WakeReply => Step
  <2>1. WakeReply => LockOwner!Release
    BY DEF WakeReply, CycleComplete, Finish, LockOwner!Release, Asking,
       Recorded, TypeOK, WorldTypeOK
  <2> QED
    BY <2>1, <1>armed DEF LockOwner!Next
<1>38. UserLocks => Step
  <2>1. UserLocks => LockOwner!UserLocks
    BY DEF UserLocks, LockOwner!UserLocks, Locked, Asking
  <2> QED
    BY <2>1, <1>armed DEF LockOwner!Next
<1>39. UserUnlocks => Step
  <2>1. UserUnlocks => LockOwner!UserUnlocks
    BY DEF UserUnlocks, LockOwner!UserUnlocks, Locked, Asking
  <2> QED
    BY <2>1, <1>armed DEF LockOwner!Next
<1>40. UNCHANGED vars => Step
  <2>1. UNCHANGED vars => Aside
    BY DEF vars, Aside
  <2> QED
    BY <2>1, <1>aside
<1> HIDE DEF Step
<1>41. Step
  BY <1>1, <1>2, <1>3, <1>4, <1>5, <1>6, <1>7, <1>8, <1>9, <1>10, <1>11,
     <1>12, <1>13, <1>14, <1>15, <1>16, <1>17, <1>18, <1>19, <1>20,
     <1>21, <1>22, <1>23, <1>24, <1>25, <1>26, <1>27, <1>28, <1>29,
     <1>30, <1>31, <1>32, <1>33, <1>34, <1>35, <1>36, <1>37, <1>38,
     <1>39, <1>40 DEF Next, AgentStep, EnvStep
<1> QED
  BY <1>41 DEF Step

\* The agent, with every crash, error and restart, follows the protocol of the
\* lock and its marker.
THEOREM AgentFollowsOwnership == Spec => FollowsOwnership
<1>1. Init => Ownership /\ Recorded /\ WakePending
  BY DEF Init, Ownership, OwnershipDurable, Recorded, HpdLockRecorded,
         WakePending
<1>2. TypeOK /\ Ownership /\ Recorded /\ WakePending /\ [Next]_vars
        => (Ownership /\ Recorded /\ WakePending)'
  BY OwnershipStep, RecordedStep, WakePendingStep
<1>3. Init => LockOwner!Init
  BY DEF Init, LockOwner!Init, Asking, Armed
<1>4. TypeOK /\ TypeOK' /\ Ownership /\ Recorded /\ WakePending
        /\ [Next]_vars => [LockOwner!Next]_LockOwner!vars
  BY OwnershipSimulation
<1> QED
  BY <1>1, <1>2, <1>3, <1>4, TypeCorrect, PTL DEF Spec, FollowsOwnership,
     LockOwner!Spec
=============================================================================
