----------------------------- MODULE AgentProofs -----------------------------
(***************************************************************************)
(* Proofs about Agent for every set of policies, every bound on the        *)
(* message streams and every set of faults.                                *)
(***************************************************************************)
EXTENDS Agent, TLAPS

\* Taking from and adding to a queue keeps its type.
LEMMA QueueTypes ==
  ASSUME NEW S, NEW q \in Seq(S)
  PROVE  /\ <<>> \in Seq(S)
         /\ q # <<>> => Head(q) \in S /\ Tail(q) \in Seq(S)
         /\ \A x \in S : Append(q, x) \in Seq(S)
OBVIOUS

-----------------------------------------------------------------------------
(* Types *)

\* A step keeps the types of the agent's memory.
LEMMA MemoryTypeStep == TypeOK /\ [Next]_vars => MemoryTypeOK'
<1> SUFFICES ASSUME TypeOK PROVE [Next]_vars => MemoryTypeOK'
  OBVIOUS
<1> USE DEF TypeOK, MemoryTypeOK, Startup, Parked, sensor, requests, osd,
            clocks, task, bus, desktop
<1>1. (Start \/ SubscribeSignals \/ SubscribeOwner) => MemoryTypeOK'
  BY DEF Start, SubscribeSignals, SubscribeOwner
<1>2. (CallFails \/ Crash \/ Shutdown \/ LockFails) => MemoryTypeOK'
  BY DEF CallFails, Exit, Crash, Shutdown, LockFails
<1>3. (QueryFails \/ QueryAwayLocked \/ QueryAwayDryRun \/ QueryAwayMark) =>
      MemoryTypeOK'
  BY DEF QueryFails, Finish, QueryAwayLocked, Locked, QueryAwayDryRun,
     QueryAwayMark
<1>4. (LockExecutes \/ LockReply \/ TurnOffScreen) => MemoryTypeOK'
  BY DEF LockExecutes, Locked, LockReply, TurnOffScreen
<1>5. (QueryPresentUnlocked \/ QueryPresentWait \/ QueryPresentDryRun \/
      QueryPresentWake) => MemoryTypeOK'
  BY DEF QueryPresentUnlocked, CycleComplete, Finish, Locked,
     QueryPresentWait, QueryPresentDryRun, QueryPresentWake
<1>6. (WakeExecutes \/ WakeReply) => MemoryTypeOK'
  BY DEF WakeExecutes, WakeReply, CycleComplete, Finish
<1>7. (ServiceStarts \/ ServiceWrites \/ ServiceAnnounces \/ ServiceStops) =>
      MemoryTypeOK'
  BY DEF ServiceStarts, ServiceWrites, ServiceAnnounces, ServiceStops
<1>8. (UserLocks \/ UserUnlocks \/ UserInput \/ Elapse) => MemoryTypeOK'
  BY DEF UserLocks, Locked, UserUnlocks, UserInput, Elapse
<1>9. (HandleOwnerLost \/ HandleOwnerGained \/ GetStateFails) =>
      MemoryTypeOK'
  BY DEF HandleOwnerLost, HandleOwnerGained, GetStateFails
<1>10. Connect => MemoryTypeOK'
  BY DEF Connect, WorldTypeOK, Presence!Service
<1>11. ReadInitialLock => MemoryTypeOK'
  BY PolicyAssumption DEF ReadInitialLock, Locked, ShouldMonitorInput,
     Policy, WorldTypeOK
<1>12. MonitorStops => MemoryTypeOK'
  BY DEF MonitorStops
<1>13. HandleSignal => MemoryTypeOK'
  <2> SUFFICES ASSUME HandleSignal PROVE MemoryTypeOK'
    OBVIOUS
  <2> USE DEF HandleSignal
  <2>1. Head(sigQ) \in Signal
    BY QueueTypes DEF WorldTypeOK
  <2>2. CASE SignalUnavailable(Head(sigQ))
    BY <2>2 DEF SignalUnavailable
  <2>3. CASE SignalTransition(Head(sigQ))
    BY <2>1, <2>3 DEF SignalTransition, Signal
  <2>4. CASE SignalUnchanged(Head(sigQ))
    BY <2>4 DEF SignalUnchanged
  <2> QED
    BY <2>2, <2>3, <2>4
<1>14. GetStateReply => MemoryTypeOK'
  BY DEF GetStateReply, WorldTypeOK, Presence!Service
<1>15. TickWithOsd => MemoryTypeOK'
  BY PolicyAssumption DEF TickWithOsd, ArmWake, Decision, AfterOsd,
     ShouldArmWake, Policy
<1>16. TickQuiet => MemoryTypeOK'
  BY PolicyAssumption DEF TickQuiet, ArmWake, Decision, AfterOsd,
     ShouldArmWake, Policy
<1>17. OsdReply => MemoryTypeOK'
  BY DEF OsdReply, AfterOsd
<1>18. UNCHANGED vars => MemoryTypeOK'
  BY DEF vars
<1> QED
  BY <1>1, <1>2, <1>3, <1>4, <1>5, <1>6, <1>7, <1>8, <1>9, <1>10, <1>11,
     <1>12, <1>13, <1>14, <1>15, <1>16, <1>17, <1>18 DEF Next, AgentStep,
     EnvStep

\* A step keeps the types of the ages.
LEMMA ClockTypeStep == TypeOK /\ [Next]_vars => ClockTypeOK'
<1> SUFFICES ASSUME TypeOK PROVE [Next]_vars => ClockTypeOK'
  OBVIOUS
<1> USE DEF TypeOK, ClockTypeOK, OptionAge, None, sensor, requests, osd,
            clocks, task, bus, desktop
<1>1. (Start \/ Connect \/ ReadInitialLock \/ SubscribeSignals \/
      SubscribeOwner) => ClockTypeOK'
  BY DEF Start, Connect, ReadInitialLock, SubscribeSignals, SubscribeOwner,
     PresenceDeadlines
<1>2. (CallFails \/ Crash \/ Shutdown \/ LockFails) => ClockTypeOK'
  BY DEF CallFails, Exit, Crash, Shutdown, LockFails
<1>3. (HandleOwnerLost \/ HandleOwnerGained) => ClockTypeOK'
  BY DEF HandleOwnerLost, SetDeadlines, PresenceDeadlines, HandleOwnerGained
<1>4. (GetStateReply \/ GetStateFails) => ClockTypeOK'
  BY DEF GetStateReply, SetDeadlines, PresenceDeadlines, GetStateFails
<1>5. (TickWithOsd \/ TickQuiet \/ OsdReply) => ClockTypeOK'
  BY DEF TickWithOsd, TickQuiet, OsdReply
<1>6. (QueryFails \/ QueryAwayLocked \/ QueryAwayDryRun \/ QueryAwayMark) =>
      ClockTypeOK'
  BY DEF QueryFails, QueryAwayLocked, QueryAwayDryRun, QueryAwayMark
<1>7. (LockExecutes \/ LockReply \/ TurnOffScreen) => ClockTypeOK'
  BY DEF LockExecutes, LockReply, TurnOffScreen
<1>8. (QueryPresentUnlocked \/ QueryPresentWait \/ QueryPresentDryRun \/
      QueryPresentWake) => ClockTypeOK'
  BY DEF QueryPresentUnlocked, QueryPresentWait, QueryPresentDryRun,
     QueryPresentWake
<1>9. (WakeExecutes \/ WakeReply) => ClockTypeOK'
  BY DEF WakeExecutes, WakeReply
<1>10. (ServiceStarts \/ ServiceWrites \/ ServiceAnnounces \/ ServiceStops) =>
      ClockTypeOK'
  BY DEF ServiceStarts, ServiceWrites, ServiceAnnounces, ServiceStops
<1>11. (MonitorStops \/ UserLocks \/ UserUnlocks \/ UserInput) =>
       ClockTypeOK'
  BY DEF MonitorStops, UserLocks, UserUnlocks, UserInput
<1>12. HandleSignal => ClockTypeOK'
  BY DEF HandleSignal, SignalUnavailable, SignalTransition, SignalUnchanged,
     SetDeadlines, PresenceDeadlines
<1>13. Elapse => ClockTypeOK'
  BY DEF Elapse, Older
<1>14. UNCHANGED vars => ClockTypeOK'
  BY DEF vars
<1> QED
  BY <1>1, <1>2, <1>3, <1>4, <1>5, <1>6, <1>7, <1>8, <1>9, <1>10, <1>11,
     <1>12, <1>13, <1>14 DEF Next, AgentStep, EnvStep

\* A step keeps the types of the desktop and the daemon.
LEMMA WorldTypeStep == TypeOK /\ [Next]_vars => WorldTypeOK'
<1> SUFFICES ASSUME TypeOK PROVE [Next]_vars => WorldTypeOK'
  OBVIOUS
<1> USE DEF TypeOK, WorldTypeOK, sensor, requests, osd, clocks, task, bus,
            desktop
<1>1. (Start \/ Connect \/ ReadInitialLock \/ SubscribeSignals \/
      SubscribeOwner) => WorldTypeOK'
  BY DEF Start, Connect, ReadInitialLock, Locked, SubscribeSignals,
     SubscribeOwner
<1>2. (GetStateReply \/ GetStateFails) => WorldTypeOK'
  BY DEF GetStateReply, GetStateFails
<1>3. (TickWithOsd \/ TickQuiet \/ OsdReply) => WorldTypeOK'
  BY DEF TickWithOsd, TickQuiet, OsdReply
<1>4. (QueryFails \/ QueryAwayLocked \/ QueryAwayDryRun \/ QueryAwayMark) =>
      WorldTypeOK'
  BY DEF QueryFails, QueryAwayLocked, Locked, QueryAwayDryRun, QueryAwayMark
<1>5. (LockExecutes \/ LockReply \/ TurnOffScreen) => WorldTypeOK'
  BY DEF LockExecutes, Locked, LockReply, TurnOffScreen
<1>6. (QueryPresentUnlocked \/ QueryPresentWait \/ QueryPresentDryRun \/
      QueryPresentWake) => WorldTypeOK'
  BY DEF QueryPresentUnlocked, Locked, QueryPresentWait, QueryPresentDryRun,
     QueryPresentWake
<1>7. (WakeExecutes \/ WakeReply) => WorldTypeOK'
  BY DEF WakeExecutes, WakeReply
<1>8. (MonitorStops \/ UserLocks \/ UserUnlocks \/ UserInput \/ Elapse) =>
      WorldTypeOK'
  BY DEF MonitorStops, UserLocks, Locked, UserUnlocks, UserInput, Elapse
<1>9. CallFails => WorldTypeOK'
  <2> SUFFICES ASSUME CallFails PROVE WorldTypeOK'
    OBVIOUS
  <2>1. sigQ' \in Seq(Signal) /\ ownQ' \in Seq(OwnerChange)
    BY QueueTypes DEF CallFails, Exit
  <2> QED
    BY <2>1 DEF CallFails, Exit
<1>10. Crash => WorldTypeOK'
  <2> SUFFICES ASSUME Crash PROVE WorldTypeOK'
    OBVIOUS
  <2>1. sigQ' \in Seq(Signal) /\ ownQ' \in Seq(OwnerChange)
    BY QueueTypes DEF Crash, Exit
  <2> QED
    BY <2>1 DEF Crash, Exit
<1>11. Shutdown => WorldTypeOK'
  <2> SUFFICES ASSUME Shutdown PROVE WorldTypeOK'
    OBVIOUS
  <2>1. sigQ' \in Seq(Signal) /\ ownQ' \in Seq(OwnerChange)
    BY QueueTypes DEF Shutdown, Exit
  <2> QED
    BY <2>1 DEF Shutdown, Exit
<1>12. HandleSignal => WorldTypeOK'
  <2> SUFFICES ASSUME HandleSignal PROVE WorldTypeOK'
    OBVIOUS
  <2>1. sigQ' \in Seq(Signal)
    BY QueueTypes DEF HandleSignal
  <2> QED
    BY <2>1 DEF HandleSignal
<1>13. HandleOwnerLost => WorldTypeOK'
  <2> SUFFICES ASSUME HandleOwnerLost PROVE WorldTypeOK'
    OBVIOUS
  <2>1. ownQ' \in Seq(OwnerChange)
    BY QueueTypes DEF HandleOwnerLost
  <2> QED
    BY <2>1 DEF HandleOwnerLost
<1>14. HandleOwnerGained => WorldTypeOK'
  <2> SUFFICES ASSUME HandleOwnerGained PROVE WorldTypeOK'
    OBVIOUS
  <2>1. ownQ' \in Seq(OwnerChange)
    BY QueueTypes DEF HandleOwnerGained
  <2> QED
    BY <2>1 DEF HandleOwnerGained
<1>15. LockFails => WorldTypeOK'
  <2> SUFFICES ASSUME LockFails PROVE WorldTypeOK'
    OBVIOUS
  <2>1. sigQ' \in Seq(Signal) /\ ownQ' \in Seq(OwnerChange)
    BY QueueTypes DEF LockFails, Exit
  <2> QED
    BY <2>1 DEF LockFails, Exit
<1>16. ServiceStarts => WorldTypeOK'
  <2> SUFFICES ASSUME ServiceStarts PROVE WorldTypeOK'
    OBVIOUS
  <2> USE DEF ServiceStarts
  <2>1. ownQ' \in Seq(OwnerChange)
    BY QueueTypes DEF DeliverOwner, OwnerChange
  <2>2. service' \in Presence!Service
    BY DEF Presence!Start, Presence!Service
  <2> QED
    BY <2>1, <2>2
<1>17. ServiceStops => WorldTypeOK'
  <2> SUFFICES ASSUME ServiceStops PROVE WorldTypeOK'
    OBVIOUS
  <2> USE DEF ServiceStops
  <2>1. ownQ' \in Seq(OwnerChange)
    BY QueueTypes DEF DeliverOwner, OwnerChange
  <2>2. service' \in Presence!Service
    BY DEF Presence!Stop, Presence!Service, Presence!NoDaemon
  <2> QED
    BY <2>1, <2>2
<1>18. (ServiceWrites \/ ServiceAnnounces) => WorldTypeOK'
  <2>1. CASE ServiceWrites
    <3>1. service' \in Presence!Service
      BY <2>1 DEF ServiceWrites, Presence!Write, Presence!Service
    <3> QED
      BY <2>1, <3>1 DEF ServiceWrites
  <2>2. CASE ServiceAnnounces
    <3>1. service' \in Presence!Service
      BY <2>2 DEF ServiceAnnounces, Presence!Announce, Presence!Service
    <3>2. [available |-> service.available, present |-> service.present]
            \in Signal
      BY DEF Signal, Presence!Service
    <3>3. sigQ' \in Seq(Signal)
      BY <2>2, <3>2, QueueTypes DEF ServiceAnnounces, Deliver
    <3> QED
      BY <2>2, <3>1, <3>3 DEF ServiceAnnounces
  <2> QED
    BY <2>1, <2>2
<1>19. UNCHANGED vars => WorldTypeOK'
  BY DEF vars
<1> QED
  BY <1>1, <1>2, <1>3, <1>4, <1>5, <1>6, <1>7, <1>8, <1>9, <1>10, <1>11,
     <1>12, <1>13, <1>14, <1>15, <1>16, <1>17, <1>18, <1>19 DEF Next,
     AgentStep, EnvStep

\* Every variable keeps its type, whatever the policies, faults and bounds.
THEOREM TypeCorrect == Spec => []TypeOK
<1>1. Init => TypeOK
  <2> SUFFICES ASSUME Init PROVE TypeOK
    OBVIOUS
  <2> USE DEF Init
  <2>1. MemoryTypeOK
    BY DEF MemoryTypeOK
  <2>2. ClockTypeOK
    BY DEF ClockTypeOK, OptionAge, None
  <2>3. <<>> \in Seq(Signal) /\ <<>> \in Seq(OwnerChange)
    BY QueueTypes
  <2>4. WorldTypeOK
    BY <2>3 DEF WorldTypeOK, Presence!Init, Presence!NoDaemon, Presence!Service
  <2> QED
    BY <2>1, <2>2, <2>4 DEF TypeOK
<1>2. TypeOK /\ [Next]_vars => TypeOK'
  BY MemoryTypeStep, ClockTypeStep, WorldTypeStep DEF TypeOK
<1> QED
  BY <1>1, <1>2, PTL DEF Spec

-----------------------------------------------------------------------------
(* Deadlines *)

\* Every step keeps the deadlines coherent (the four callers of
\* presence_deadlines, and GetState failing, which only clears the belief).
LEMMA DeadlineStep ==
  TypeOK /\ DeadlineCoherence /\ [Next]_vars
    => DeadlineCoherence'
<1> SUFFICES ASSUME TypeOK, DeadlineCoherence
             PROVE  [Next]_vars => DeadlineCoherence'
  OBVIOUS
<1> USE DEF DeadlineCoherence, Running, Parked, sensor, requests, osd,
            clocks, task, bus, desktop
<1>1. Start => DeadlineCoherence'
  BY DEF Start
<1>2. Connect => DeadlineCoherence'
  BY DEF Connect
<1>3. ReadInitialLock => DeadlineCoherence'
  BY DEF ReadInitialLock
<1>4. SubscribeSignals => DeadlineCoherence'
  BY DEF SubscribeSignals
<1>5. SubscribeOwner => DeadlineCoherence'
  BY DEF SubscribeOwner, PresenceDeadlines, None
<1>6. CallFails => DeadlineCoherence'
  BY DEF CallFails, Exit
<1>7. Crash => DeadlineCoherence'
  BY DEF Crash, Exit
<1>8. Shutdown => DeadlineCoherence'
  BY DEF Shutdown, Exit
<1>9. MonitorStops => DeadlineCoherence'
  BY DEF MonitorStops
<1>10. HandleSignal => DeadlineCoherence'
  <2> SUFFICES ASSUME HandleSignal PROVE DeadlineCoherence'
    OBVIOUS
  <2> USE DEF HandleSignal
  <2>1. CASE SignalUnavailable(Head(sigQ))
    BY <2>1 DEF SignalUnavailable, None, SetDeadlines, PresenceDeadlines
  <2>2. CASE SignalTransition(Head(sigQ))
    BY <2>2 DEF SignalTransition, None, SetDeadlines, PresenceDeadlines
  <2>3. CASE SignalUnchanged(Head(sigQ))
    BY <2>3 DEF SignalUnchanged
  <2> QED
    BY <2>1, <2>2, <2>3
<1>11. HandleOwnerLost => DeadlineCoherence'
  BY DEF HandleOwnerLost, SetDeadlines, PresenceDeadlines
<1>12. HandleOwnerGained => DeadlineCoherence'
  BY DEF HandleOwnerGained
<1>13. GetStateReply => DeadlineCoherence'
  BY DEF GetStateReply, SetDeadlines, PresenceDeadlines, None
<1>14. GetStateFails => DeadlineCoherence'
  BY DEF GetStateFails
<1>15. TickWithOsd => DeadlineCoherence'
  BY DEF TickWithOsd, AfterOsd
<1>16. TickQuiet => DeadlineCoherence'
  BY DEF TickQuiet, AfterOsd
<1>17. OsdReply => DeadlineCoherence'
  BY DEF OsdReply, AfterOsd
<1>18. QueryFails => DeadlineCoherence'
  BY DEF QueryFails, Finish
<1>19. QueryAwayLocked => DeadlineCoherence'
  BY DEF QueryAwayLocked, Finish
<1>20. QueryAwayDryRun => DeadlineCoherence'
  BY DEF QueryAwayDryRun, Finish
<1>21. QueryAwayMark => DeadlineCoherence'
  BY DEF QueryAwayMark
<1>22. LockExecutes => DeadlineCoherence'
  BY DEF LockExecutes
<1>23. LockFails => DeadlineCoherence'
  BY DEF LockFails, Exit
<1>24. LockReply => DeadlineCoherence'
  BY DEF LockReply
<1>25. TurnOffScreen => DeadlineCoherence'
  BY DEF TurnOffScreen
<1>26. QueryPresentUnlocked => DeadlineCoherence'
  BY DEF QueryPresentUnlocked, Finish
<1>27. QueryPresentWait => DeadlineCoherence'
  BY DEF QueryPresentWait, Finish
<1>28. QueryPresentDryRun => DeadlineCoherence'
  BY DEF QueryPresentDryRun, Finish
<1>29. QueryPresentWake => DeadlineCoherence'
  BY DEF QueryPresentWake
<1>30. WakeExecutes => DeadlineCoherence'
  BY DEF WakeExecutes
<1>31. WakeReply => DeadlineCoherence'
  BY DEF WakeReply, Finish
<1>32. ServiceStarts => DeadlineCoherence'
  BY DEF ServiceStarts
<1>33. ServiceStops => DeadlineCoherence'
  BY DEF ServiceStops
<1>34. (ServiceWrites \/ ServiceAnnounces) => DeadlineCoherence'
  <2>1. ServiceWrites => DeadlineCoherence'
    BY DEF ServiceWrites
  <2>2. ServiceAnnounces => DeadlineCoherence'
    BY DEF ServiceAnnounces
  <2> QED
    BY <2>1, <2>2
<1>35. UserLocks => DeadlineCoherence'
  BY DEF UserLocks
<1>36. UserUnlocks => DeadlineCoherence'
  BY DEF UserUnlocks
<1>37. UserInput => DeadlineCoherence'
  BY DEF UserInput
<1>38. Elapse => DeadlineCoherence'
  BY DEF Elapse, Older, Running, TypeOK, ClockTypeOK, OptionAge, None
<1>39. UNCHANGED vars => DeadlineCoherence'
  BY DEF vars
<1> QED
  BY <1>1, <1>2, <1>3, <1>4, <1>5, <1>6, <1>7, <1>8, <1>9, <1>10, <1>11,
     <1>12, <1>13, <1>14, <1>15, <1>16, <1>17, <1>18, <1>19, <1>20, <1>21,
     <1>22, <1>23, <1>24, <1>25, <1>26, <1>27, <1>28, <1>29, <1>30, <1>31,
     <1>32, <1>33, <1>34, <1>35, <1>36, <1>37, <1>38, <1>39 DEF Next,
     AgentStep, EnvStep

\* In the loop exactly the deadline of the believed presence is running.
THEOREM DeadlinesCoherent == Spec => []DeadlineCoherence
<1>1. Init => DeadlineCoherence
  BY DEF Init, DeadlineCoherence, Running, Parked
<1>2. TypeOK /\ DeadlineCoherence /\ [Next]_vars => DeadlineCoherence'
  BY DeadlineStep
<1> QED
  BY <1>1, <1>2, TypeCorrect, PTL DEF Spec

-----------------------------------------------------------------------------
(* Lock ownership *)

\* The ownership flag is covered by the marker.  The marker is written before
\* Lock is requested, and a process that does not run holds no flag, so that
\* a restart under another policy starts without one.
Ownership ==
  /\ OwnershipDurable
  /\ pc = "off" => ~locked_by_hpd
  /\ pc \in {"lockCall", "lockDone"} => marker

\* Every step keeps the marker under the ownership flag.
LEMMA OwnershipStep == Ownership /\ [Next]_vars => Ownership'
<1> SUFFICES ASSUME Ownership PROVE [Next]_vars => Ownership'
  OBVIOUS
<1> USE DEF Ownership, OwnershipDurable, sensor, requests, osd, clocks,
            task, bus, desktop
<1>1. Start => Ownership'
  BY DEF Start
<1>2. Connect => Ownership'
  BY DEF Connect
<1>3. ReadInitialLock => Ownership'
  BY DEF ReadInitialLock, Locked
<1>4. SubscribeSignals => Ownership'
  BY DEF SubscribeSignals
<1>5. SubscribeOwner => Ownership'
  BY DEF SubscribeOwner
<1>6. CallFails => Ownership'
  BY DEF CallFails, Exit
<1>7. Crash => Ownership'
  BY DEF Crash, Exit
<1>8. Shutdown => Ownership'
  BY DEF Shutdown, Exit
<1>9. MonitorStops => Ownership'
  BY DEF MonitorStops
<1>10. HandleSignal => Ownership'
  <2> SUFFICES ASSUME HandleSignal PROVE Ownership'
    OBVIOUS
  <2> USE DEF HandleSignal
  <2>1. CASE SignalUnavailable(Head(sigQ))
    BY <2>1 DEF SignalUnavailable
  <2>2. CASE SignalTransition(Head(sigQ))
    BY <2>2 DEF SignalTransition
  <2>3. CASE SignalUnchanged(Head(sigQ))
    BY <2>3 DEF SignalUnchanged
  <2> QED
    BY <2>1, <2>2, <2>3
<1>11. HandleOwnerLost => Ownership'
  BY DEF HandleOwnerLost
<1>12. HandleOwnerGained => Ownership'
  BY DEF HandleOwnerGained
<1>13. GetStateReply => Ownership'
  BY DEF GetStateReply
<1>14. GetStateFails => Ownership'
  BY DEF GetStateFails
<1>15. TickWithOsd => Ownership'
  BY DEF TickWithOsd, AfterOsd
<1>16. TickQuiet => Ownership'
  BY DEF TickQuiet, AfterOsd
<1>17. OsdReply => Ownership'
  BY DEF OsdReply, AfterOsd
<1>18. QueryFails => Ownership'
  BY DEF QueryFails, Finish
<1>19. QueryAwayLocked => Ownership'
  BY DEF QueryAwayLocked, Finish, Locked
<1>20. QueryAwayDryRun => Ownership'
  BY DEF QueryAwayDryRun, Finish, Locked
<1>21. QueryAwayMark => Ownership'
  BY DEF QueryAwayMark, Locked
<1>22. LockExecutes => Ownership'
  BY DEF LockExecutes, Locked
<1>23. LockFails => Ownership'
  BY DEF LockFails, Exit
<1>24. LockReply => Ownership'
  BY DEF LockReply
<1>25. TurnOffScreen => Ownership'
  BY DEF TurnOffScreen
<1>26. QueryPresentUnlocked => Ownership'
  BY DEF QueryPresentUnlocked, CycleComplete, Finish, Locked
<1>27. QueryPresentWait => Ownership'
  BY DEF QueryPresentWait, Finish, Locked
<1>28. QueryPresentDryRun => Ownership'
  BY DEF QueryPresentDryRun, CycleComplete, Finish, Locked
<1>29. QueryPresentWake => Ownership'
  BY DEF QueryPresentWake, Locked
<1>30. WakeExecutes => Ownership'
  BY DEF WakeExecutes
<1>31. WakeReply => Ownership'
  BY DEF WakeReply, CycleComplete, Finish
<1>32. ServiceStarts => Ownership'
  BY DEF ServiceStarts
<1>33. ServiceStops => Ownership'
  BY DEF ServiceStops
<1>34. (ServiceWrites \/ ServiceAnnounces) => Ownership'
  BY DEF ServiceWrites, ServiceAnnounces
<1>35. UserLocks => Ownership'
  BY DEF UserLocks, Locked
<1>36. UserUnlocks => Ownership'
  BY DEF UserUnlocks, Locked
<1>37. UserInput => Ownership'
  BY DEF UserInput
<1>38. Elapse => Ownership'
  BY DEF Elapse
<1>39. UNCHANGED vars => Ownership'
  BY DEF vars
<1> QED
  BY <1>1, <1>2, <1>3, <1>4, <1>5, <1>6, <1>7, <1>8, <1>9, <1>10, <1>11,
     <1>12, <1>13, <1>14, <1>15, <1>16, <1>17, <1>18, <1>19, <1>20, <1>21,
     <1>22, <1>23, <1>24, <1>25, <1>26, <1>27, <1>28, <1>29, <1>30, <1>31,
     <1>32, <1>33, <1>34, <1>35, <1>36, <1>37, <1>38, <1>39 DEF Next,
     AgentStep, EnvStep

\* A live agent that believes it owns the lock has the marker on disk.
THEOREM OwnershipIsDurable == Spec => []OwnershipDurable
<1>1. Init => Ownership
  BY DEF Init, Ownership, OwnershipDurable
<1>2. Ownership /\ [Next]_vars => Ownership'
  BY OwnershipStep
<1>3. Ownership => OwnershipDurable
  BY DEF Ownership
<1> QED
  BY <1>1, <1>2, <1>3, PTL DEF Spec

\* What HpdLockRecorded rests on: nothing is owed while a lock is requested
\* or a wake is being answered, and what is owed is an HPD lock.
Recorded ==
  /\ HpdLockRecorded
  /\ owed => screen = "hpd"
  /\ pc \in {"lockCall", "wakeDone"} => ~owed

\* Every step keeps a lock of HPD recorded.
LEMMA RecordedStep ==
  TypeOK /\ Ownership /\ Recorded /\ [Next]_vars => Recorded'
<1> SUFFICES ASSUME TypeOK, Ownership, Recorded
             PROVE  [Next]_vars => Recorded'
  OBVIOUS
<1> USE DEF Ownership, Recorded, HpdLockRecorded, Locked, sensor, requests,
            osd, clocks, task, bus, desktop
<1>1. Start => Recorded'
  BY DEF Start
<1>2. Connect => Recorded'
  BY DEF Connect
<1>3. ReadInitialLock => Recorded'
  BY DEF ReadInitialLock, TypeOK, WorldTypeOK
<1>4. SubscribeSignals => Recorded'
  BY DEF SubscribeSignals
<1>5. SubscribeOwner => Recorded'
  BY DEF SubscribeOwner
<1>6. CallFails => Recorded'
  BY DEF CallFails, Exit
<1>7. Crash => Recorded'
  BY DEF Crash, Exit
<1>8. Shutdown => Recorded'
  BY DEF Shutdown, Exit
<1>9. MonitorStops => Recorded'
  BY DEF MonitorStops
<1>10. HandleSignal => Recorded'
  BY DEF HandleSignal
<1>11. HandleOwnerLost => Recorded'
  BY DEF HandleOwnerLost
<1>12. HandleOwnerGained => Recorded'
  BY DEF HandleOwnerGained
<1>13. GetStateReply => Recorded'
  BY DEF GetStateReply
<1>14. GetStateFails => Recorded'
  BY DEF GetStateFails
<1>15. TickWithOsd => Recorded'
  BY DEF TickWithOsd, AfterOsd
<1>16. TickQuiet => Recorded'
  BY DEF TickQuiet, AfterOsd
<1>17. OsdReply => Recorded'
  BY DEF OsdReply, AfterOsd
<1>18. QueryFails => Recorded'
  BY DEF QueryFails, Finish
<1>19. QueryAwayLocked => Recorded'
  BY DEF QueryAwayLocked, Finish
<1>20. QueryAwayDryRun => Recorded'
  BY DEF QueryAwayDryRun, Finish
<1>21. QueryAwayMark => Recorded'
  BY DEF QueryAwayMark
<1>22. LockExecutes => Recorded'
  BY DEF LockExecutes, TypeOK, WorldTypeOK
<1>23. LockFails => Recorded'
  BY DEF LockFails, Exit
<1>24. LockReply => Recorded'
  BY DEF LockReply
<1>25. TurnOffScreen => Recorded'
  BY DEF TurnOffScreen
<1>26. QueryPresentUnlocked => Recorded'
  BY DEF QueryPresentUnlocked, CycleComplete, Finish
<1>27. QueryPresentWait => Recorded'
  BY DEF QueryPresentWait, Finish
<1>28. QueryPresentDryRun => Recorded'
  BY DEF QueryPresentDryRun, CycleComplete, Finish
<1>29. QueryPresentWake => Recorded'
  BY DEF QueryPresentWake
<1>30. WakeExecutes => Recorded'
  BY DEF WakeExecutes
<1>31. WakeReply => Recorded'
  BY DEF WakeReply, CycleComplete, Finish
<1>32. ServiceStarts => Recorded'
  BY DEF ServiceStarts
<1>33. ServiceStops => Recorded'
  BY DEF ServiceStops
<1>34. (ServiceWrites \/ ServiceAnnounces) => Recorded'
  BY DEF ServiceWrites, ServiceAnnounces
<1>35. UserLocks => Recorded'
  BY DEF UserLocks
<1>36. UserUnlocks => Recorded'
  BY DEF UserUnlocks
<1>37. UserInput => Recorded'
  BY DEF UserInput
<1>38. Elapse => Recorded'
  BY DEF Elapse
<1>39. UNCHANGED vars => Recorded'
  BY DEF vars
<1> QED
  BY <1>1, <1>2, <1>3, <1>4, <1>5, <1>6, <1>7, <1>8, <1>9, <1>10, <1>11,
     <1>12, <1>13, <1>14, <1>15, <1>16, <1>17, <1>18, <1>19, <1>20, <1>21,
     <1>22, <1>23, <1>24, <1>25, <1>26, <1>27, <1>28, <1>29, <1>30, <1>31,
     <1>32, <1>33, <1>34, <1>35, <1>36, <1>37, <1>38, <1>39 DEF Next,
     AgentStep, EnvStep

\* A screen HPD locked is recorded at every moment until it is woken or
\* unlocked, unless Lock has told the agent that it failed.
THEOREM LocksAreRecorded == Spec => []HpdLockRecorded
<1>1. Init => Ownership /\ Recorded
  BY DEF Init, Ownership, OwnershipDurable, Recorded, HpdLockRecorded
<1>2. TypeOK /\ Ownership /\ Recorded /\ [Next]_vars
        => (Ownership /\ Recorded)'
  BY OwnershipStep, RecordedStep
<1>3. Recorded => HpdLockRecorded
  BY DEF Recorded
<1> QED
  BY <1>1, <1>2, <1>3, TypeCorrect, PTL DEF Spec

-----------------------------------------------------------------------------
(* Wakes *)

WakeGrounds ==
  /\ policy.enabled /\ policy.wake_screen
  /\ locked_by_hpd \/ (policy.wake_manual_lock /\ wake_armed)

\* The grounds of a decision to wake hold until the call is made.
WakePending ==
  /\ pc \in {"osd", "queryPresent"} /\ decision = "wake" => WakeGrounds
  /\ pc \in {"wakeCall", "wakeDone"} => Live(policy) /\ WakeGrounds

\* Every step keeps the reason of a wake that is under way.
LEMMA WakePendingStep ==
  TypeOK /\ WakePending /\ [Next]_vars
    => WakePending'
<1> SUFFICES ASSUME TypeOK, WakePending PROVE [Next]_vars => WakePending'
  OBVIOUS
<1> USE DEF WakePending, WakeGrounds, Live, sensor, requests, osd, clocks,
            task, bus, desktop
<1>1. Start => WakePending'
  BY DEF Start
<1>2. Connect => WakePending'
  BY DEF Connect
<1>3. ReadInitialLock => WakePending'
  BY DEF ReadInitialLock
<1>4. SubscribeSignals => WakePending'
  BY DEF SubscribeSignals
<1>5. SubscribeOwner => WakePending'
  BY DEF SubscribeOwner
<1>6. CallFails => WakePending'
  BY DEF CallFails, Exit
<1>7. Crash => WakePending'
  BY DEF Crash, Exit
<1>8. Shutdown => WakePending'
  BY DEF Shutdown, Exit
<1>9. MonitorStops => WakePending'
  BY DEF MonitorStops
<1>10. HandleSignal => WakePending'
  BY DEF HandleSignal
<1>11. HandleOwnerLost => WakePending'
  BY DEF HandleOwnerLost
<1>12. HandleOwnerGained => WakePending'
  BY DEF HandleOwnerGained
<1>13. GetStateReply => WakePending'
  BY DEF GetStateReply
<1>14. GetStateFails => WakePending'
  BY DEF GetStateFails
<1>15. TickWithOsd => WakePending'
  BY DEF TickWithOsd, ArmWake, Decision, AfterOsd, ShouldWake, TypeOK,
     MemoryTypeOK
<1>16. TickQuiet => WakePending'
  BY DEF TickQuiet, ArmWake, Decision, AfterOsd, ShouldWake, TypeOK,
     MemoryTypeOK
<1>17. OsdReply => WakePending'
  BY DEF OsdReply, AfterOsd
<1>18. QueryFails => WakePending'
  BY DEF QueryFails, Finish
<1>19. QueryAwayLocked => WakePending'
  BY DEF QueryAwayLocked, Finish
<1>20. QueryAwayDryRun => WakePending'
  BY DEF QueryAwayDryRun, Finish
<1>21. QueryAwayMark => WakePending'
  BY DEF QueryAwayMark
<1>22. LockExecutes => WakePending'
  BY DEF LockExecutes
<1>23. LockFails => WakePending'
  BY DEF LockFails, Exit
<1>24. LockReply => WakePending'
  BY DEF LockReply
<1>25. TurnOffScreen => WakePending'
  BY DEF TurnOffScreen
<1>26. QueryPresentUnlocked => WakePending'
  BY DEF QueryPresentUnlocked, CycleComplete, Finish
<1>27. QueryPresentWait => WakePending'
  BY DEF QueryPresentWait, Finish
<1>28. QueryPresentDryRun => WakePending'
  BY DEF QueryPresentDryRun, CycleComplete, Finish
<1>29. QueryPresentWake => WakePending'
  BY DEF QueryPresentWake
<1>30. WakeExecutes => WakePending'
  BY DEF WakeExecutes
<1>31. WakeReply => WakePending'
  BY DEF WakeReply, CycleComplete, Finish
<1>32. ServiceStarts => WakePending'
  BY DEF ServiceStarts
<1>33. ServiceStops => WakePending'
  BY DEF ServiceStops
<1>34. (ServiceWrites \/ ServiceAnnounces) => WakePending'
  BY DEF ServiceWrites, ServiceAnnounces
<1>35. UserLocks => WakePending'
  BY DEF UserLocks
<1>36. UserUnlocks => WakePending'
  BY DEF UserUnlocks
<1>37. UserInput => WakePending'
  BY DEF UserInput
<1>38. Elapse => WakePending'
  BY DEF Elapse
<1>39. UNCHANGED vars => WakePending'
  BY DEF vars
<1> QED
  BY <1>1, <1>2, <1>3, <1>4, <1>5, <1>6, <1>7, <1>8, <1>9, <1>10, <1>11,
     <1>12, <1>13, <1>14, <1>15, <1>16, <1>17, <1>18, <1>19, <1>20, <1>21,
     <1>22, <1>23, <1>24, <1>25, <1>26, <1>27, <1>28, <1>29, <1>30, <1>31,
     <1>32, <1>33, <1>34, <1>35, <1>36, <1>37, <1>38, <1>39 DEF Next,
     AgentStep, EnvStep

\* A wake is made only for a recorded HPD lock or by the armed opt-in.
THEOREM WakesAreAuthorised == Spec => []WakeIsAuthorised
<1>1. Init => Ownership /\ WakePending
  BY DEF Init, Ownership, OwnershipDurable, WakePending
<1>2. TypeOK /\ Ownership /\ WakePending /\ [Next]_vars
        => (Ownership /\ WakePending)'
  BY OwnershipStep, WakePendingStep
<1>3. Ownership /\ WakePending => WakeIsAuthorised
  BY DEF Ownership, OwnershipDurable, WakePending, WakeGrounds, Live,
         WakeIsAuthorised
<1> QED
  BY <1>1, <1>2, <1>3, TypeCorrect, PTL DEF Spec

-----------------------------------------------------------------------------
(* Acting within the policy *)

\* What ActsWithinPolicy rests on, but for the marker of a wake: the policy
\* allows every call and every pending decision, and the process holds no input
\* monitor when another policy is loaded.
PolicyObeyed ==
  /\ pc \in {"lockCall", "lockDone", "offDelay"} =>
       Live(policy) /\ policy.lock_screen
  /\ pc = "offDelay" => policy.turn_off_screen
  /\ pc \in {"wakeCall", "wakeDone"} => Live(policy) /\ policy.wake_screen
  /\ pc = "osd" => Live(policy) /\ policy.show_osd
  /\ monitoring # "none" => policy.enabled /\ policy.lock_screen
  /\ display = "off" => ScreenOffSupported
  /\ pc = "off" => monitoring = "none"
  /\ pc = "queryAway" => decision = "lock"
  /\ pc \in {"osd", "queryAway"} /\ decision = "lock"
       => policy.enabled /\ policy.lock_screen
  /\ pc \in {"osd", "queryPresent"} /\ decision = "wake"
       => policy.enabled /\ policy.wake_screen

\* Every step stays within the policy.
LEMMA PolicyStep == (TypeOK /\ PolicyObeyed) /\ [Next]_vars => PolicyObeyed'
<1> SUFFICES ASSUME TypeOK, PolicyObeyed PROVE [Next]_vars => PolicyObeyed'
  OBVIOUS
<1> USE DEF PolicyObeyed, Live, sensor, requests, osd, clocks, task, bus,
            desktop
<1>1. Start => PolicyObeyed'
  BY DEF Start
<1>2. Connect => PolicyObeyed'
  BY DEF Connect
<1>3. ReadInitialLock => PolicyObeyed'
  BY DEF ReadInitialLock, ShouldMonitorInput
<1>4. SubscribeSignals => PolicyObeyed'
  BY DEF SubscribeSignals
<1>5. SubscribeOwner => PolicyObeyed'
  BY DEF SubscribeOwner
<1>6. CallFails => PolicyObeyed'
  BY DEF CallFails, Exit
<1>7. Crash => PolicyObeyed'
  BY DEF Crash, Exit
<1>8. Shutdown => PolicyObeyed'
  BY DEF Shutdown, Exit
<1>9. MonitorStops => PolicyObeyed'
  BY DEF MonitorStops
<1>10. HandleSignal => PolicyObeyed'
  BY DEF HandleSignal
<1>11. HandleOwnerLost => PolicyObeyed'
  BY DEF HandleOwnerLost
<1>12. HandleOwnerGained => PolicyObeyed'
  BY DEF HandleOwnerGained
<1>13. GetStateReply => PolicyObeyed'
  BY DEF GetStateReply
<1>14. GetStateFails => PolicyObeyed'
  BY DEF GetStateFails
<1>15. TickWithOsd => PolicyObeyed'
  BY DEF TickWithOsd, Decision, AfterOsd, ShouldLock, ShouldWake,
     ShouldShowOsd, OsdDue, TypeOK, MemoryTypeOK
<1>16. TickQuiet => PolicyObeyed'
  BY DEF TickQuiet, Decision, AfterOsd, ShouldLock, ShouldWake,
     ShouldShowOsd, OsdDue, TypeOK, MemoryTypeOK
<1>17. OsdReply => PolicyObeyed'
  BY DEF OsdReply, AfterOsd
<1>18. QueryFails => PolicyObeyed'
  BY DEF QueryFails, Finish
<1>19. QueryAwayLocked => PolicyObeyed'
  BY DEF QueryAwayLocked, Finish
<1>20. QueryAwayDryRun => PolicyObeyed'
  BY DEF QueryAwayDryRun, Finish
<1>21. QueryAwayMark => PolicyObeyed'
  BY DEF QueryAwayMark
<1>22. LockExecutes => PolicyObeyed'
  BY DEF LockExecutes
<1>23. LockFails => PolicyObeyed'
  BY DEF LockFails, Exit
<1>24. LockReply => PolicyObeyed'
  BY DEF LockReply
<1>25. TurnOffScreen => PolicyObeyed'
  BY PolicyAssumption DEF TurnOffScreen, TypeOK, WorldTypeOK
<1>26. QueryPresentUnlocked => PolicyObeyed'
  BY DEF QueryPresentUnlocked, CycleComplete, Finish
<1>27. QueryPresentWait => PolicyObeyed'
  BY DEF QueryPresentWait, Finish
<1>28. QueryPresentDryRun => PolicyObeyed'
  BY DEF QueryPresentDryRun, CycleComplete, Finish
<1>29. QueryPresentWake => PolicyObeyed'
  BY DEF QueryPresentWake
<1>30. WakeExecutes => PolicyObeyed'
  BY DEF WakeExecutes
<1>31. WakeReply => PolicyObeyed'
  BY DEF WakeReply, CycleComplete, Finish
<1>32. ServiceStarts => PolicyObeyed'
  BY DEF ServiceStarts
<1>33. ServiceStops => PolicyObeyed'
  BY DEF ServiceStops
<1>34. (ServiceWrites \/ ServiceAnnounces) => PolicyObeyed'
  BY DEF ServiceWrites, ServiceAnnounces
<1>35. UserLocks => PolicyObeyed'
  BY DEF UserLocks
<1>36. UserUnlocks => PolicyObeyed'
  BY DEF UserUnlocks
<1>37. UserInput => PolicyObeyed'
  BY DEF UserInput
<1>38. Elapse => PolicyObeyed'
  BY DEF Elapse
<1>39. UNCHANGED vars => PolicyObeyed'
  BY DEF vars
<1> QED
  BY <1>1, <1>2, <1>3, <1>4, <1>5, <1>6, <1>7, <1>8, <1>9, <1>10, <1>11,
     <1>12, <1>13, <1>14, <1>15, <1>16, <1>17, <1>18, <1>19, <1>20, <1>21,
     <1>22, <1>23, <1>24, <1>25, <1>26, <1>27, <1>28, <1>29, <1>30, <1>31,
     <1>32, <1>33, <1>34, <1>35, <1>36, <1>37, <1>38, <1>39 DEF Next,
     AgentStep, EnvStep

\* The agent acts on the desktop only as its policy allows.
THEOREM PolicyIsObeyed == Spec => []ActsWithinPolicy
<1>1. Init => Ownership /\ WakePending /\ PolicyObeyed
  BY DEF Init, Ownership, OwnershipDurable, WakePending, PolicyObeyed
<1>2. TypeOK /\ Ownership /\ WakePending /\ PolicyObeyed /\ [Next]_vars
        => (Ownership /\ WakePending /\ PolicyObeyed)'
  BY OwnershipStep, WakePendingStep, PolicyStep
<1>3. Ownership /\ WakePending /\ PolicyObeyed => ActsWithinPolicy
  BY DEF Ownership, OwnershipDurable, WakePending, WakeGrounds, PolicyObeyed,
         ActsWithinPolicy, EffectivePolicy, ShouldMonitorInput, Live
<1> QED
  BY <1>1, <1>2, <1>3, TypeCorrect, PTL DEF Spec

-----------------------------------------------------------------------------
(* Input *)

\* While the monitor lives the channel tells the age of the last real input,
\* and it was started by every agent that may lock.
InputSeen ==
  /\ pc \in {"subscribe", "subOwner"} \cup Parked
       => (monitoring # "none" <=> ShouldMonitorInput(policy))
  /\ monitoring = "running" => last_activity = input_age

\* Every step keeps the agent's view of the input no older than the input.
LEMMA InputStep ==
  TypeOK /\ InputSeen /\ [Next]_vars => InputSeen'
<1> SUFFICES ASSUME TypeOK, InputSeen
             PROVE  [Next]_vars => InputSeen'
  OBVIOUS
<1> USE DEF InputSeen, Parked, sensor, requests, osd, clocks, task, bus,
            desktop
<1>1. Start => InputSeen'
  BY DEF Start
<1>2. Connect => InputSeen'
  BY DEF Connect
<1>3. ReadInitialLock => InputSeen'
  BY DEF ReadInitialLock
<1>4. SubscribeSignals => InputSeen'
  BY DEF SubscribeSignals
<1>5. SubscribeOwner => InputSeen'
  BY DEF SubscribeOwner
<1>6. CallFails => InputSeen'
  BY DEF CallFails, Exit
<1>7. Crash => InputSeen'
  BY DEF Crash, Exit
<1>8. Shutdown => InputSeen'
  BY DEF Shutdown, Exit
<1>9. MonitorStops => InputSeen'
  BY DEF MonitorStops
<1>10. HandleSignal => InputSeen'
  BY DEF HandleSignal
<1>11. HandleOwnerLost => InputSeen'
  BY DEF HandleOwnerLost
<1>12. HandleOwnerGained => InputSeen'
  BY DEF HandleOwnerGained
<1>13. GetStateReply => InputSeen'
  BY DEF GetStateReply
<1>14. GetStateFails => InputSeen'
  BY DEF GetStateFails
<1>15. TickWithOsd => InputSeen'
  BY DEF TickWithOsd, Decision, AfterOsd
<1>16. TickQuiet => InputSeen'
  BY DEF TickQuiet, Decision, AfterOsd
<1>17. OsdReply => InputSeen'
  BY DEF OsdReply, AfterOsd
<1>18. QueryFails => InputSeen'
  BY DEF QueryFails, Finish
<1>19. QueryAwayLocked => InputSeen'
  BY DEF QueryAwayLocked, Finish
<1>20. QueryAwayDryRun => InputSeen'
  BY DEF QueryAwayDryRun, Finish
<1>21. QueryAwayMark => InputSeen'
  BY DEF QueryAwayMark
<1>22. LockExecutes => InputSeen'
  BY DEF LockExecutes
<1>23. LockFails => InputSeen'
  BY DEF LockFails, Exit
<1>24. LockReply => InputSeen'
  BY DEF LockReply
<1>25. TurnOffScreen => InputSeen'
  BY DEF TurnOffScreen
<1>26. QueryPresentUnlocked => InputSeen'
  BY DEF QueryPresentUnlocked, CycleComplete, Finish
<1>27. QueryPresentWait => InputSeen'
  BY DEF QueryPresentWait, Finish
<1>28. QueryPresentDryRun => InputSeen'
  BY DEF QueryPresentDryRun, CycleComplete, Finish
<1>29. QueryPresentWake => InputSeen'
  BY DEF QueryPresentWake
<1>30. WakeExecutes => InputSeen'
  BY DEF WakeExecutes
<1>31. WakeReply => InputSeen'
  BY DEF WakeReply, CycleComplete, Finish
<1>32. ServiceStarts => InputSeen'
  BY DEF ServiceStarts
<1>33. ServiceStops => InputSeen'
  BY DEF ServiceStops
<1>34. (ServiceWrites \/ ServiceAnnounces) => InputSeen'
  BY DEF ServiceWrites, ServiceAnnounces
<1>35. UserLocks => InputSeen'
  BY DEF UserLocks
<1>36. UserUnlocks => InputSeen'
  BY DEF UserUnlocks
<1>37. UserInput => InputSeen'
  BY DEF UserInput
<1>38. Elapse => InputSeen'
  BY DEF Elapse, Older
<1>39. UNCHANGED vars => InputSeen'
  BY DEF vars
<1> QED
  BY <1>1, <1>2, <1>3, <1>4, <1>5, <1>6, <1>7, <1>8, <1>9, <1>10, <1>11,
     <1>12, <1>13, <1>14, <1>15, <1>16, <1>17, <1>18, <1>19, <1>20, <1>21,
     <1>22, <1>23, <1>24, <1>25, <1>26, <1>27, <1>28, <1>29, <1>30, <1>31,
     <1>32, <1>33, <1>34, <1>35, <1>36, <1>37, <1>38, <1>39 DEF Next,
     AgentStep, EnvStep

\* A tick decides to lock only after the confirmed time without real input,
\* provided that the input monitor has not failed.
THEOREM LocksAreDecidedIdle == Spec => LockDecidedIdle
<1>1. Init => InputSeen
  BY DEF Init, InputSeen, Parked
<1>2. TypeOK /\ InputSeen /\ [Next]_vars => InputSeen'
  BY InputStep
<1>3. TypeOK /\ InputSeen /\ [Next]_vars
        => [decision # "lock" /\ decision' = "lock" /\ monitoring # "ended"
              => input_age >= policy.idle_confirm]_vars
  <2> SUFFICES ASSUME TypeOK, InputSeen, [Next]_vars,
                      decision # "lock", decision' = "lock",
                      monitoring # "ended"
               PROVE  input_age >= policy.idle_confirm \/ UNCHANGED vars
    OBVIOUS
  <2>1. CASE TickWithOsd \/ TickQuiet
    <3>1. pc = "select" /\ Decision = "lock"
      BY <2>1 DEF TickWithOsd, TickQuiet
    <3>2. /\ last_activity >= policy.idle_confirm
          /\ policy.enabled /\ policy.lock_screen
      BY <3>1 DEF Decision, ShouldLock
    <3>3. monitoring = "running"
      BY <3>1, <3>2
         DEF InputSeen, Parked, ShouldMonitorInput, TypeOK, MemoryTypeOK
    <3> QED
      BY <3>2, <3>3 DEF InputSeen
  <2>2. CASE ~(TickWithOsd \/ TickQuiet)
    <3> DEFINE Kept == decision' \in {decision, "none"}
    <3>1. Start => Kept
      BY DEF Start, task
    <3>2. Connect => Kept
      BY DEF Connect, task
    <3>3. ReadInitialLock => Kept
      BY DEF ReadInitialLock, task
    <3>4. SubscribeSignals => Kept
      BY DEF SubscribeSignals, task
    <3>5. SubscribeOwner => Kept
      BY DEF SubscribeOwner, task
    <3>6. CallFails => Kept
      BY DEF CallFails, Exit, task
    <3>7. Crash => Kept
      BY DEF Crash, Exit, task
    <3>8. Shutdown => Kept
      BY DEF Shutdown, Exit, task
    <3>9. MonitorStops => Kept
      BY DEF MonitorStops, task
    <3>10. HandleSignal => Kept
      BY DEF HandleSignal, task
    <3>11. HandleOwnerLost => Kept
      BY DEF HandleOwnerLost, task
    <3>12. HandleOwnerGained => Kept
      BY DEF HandleOwnerGained, task
    <3>13. GetStateReply => Kept
      BY DEF GetStateReply, task
    <3>14. GetStateFails => Kept
      BY DEF GetStateFails, task
    <3>15. OsdReply => Kept
      BY DEF OsdReply, task
    <3>16. QueryFails => Kept
      BY DEF QueryFails, Finish, task
    <3>17. QueryAwayLocked => Kept
      BY DEF QueryAwayLocked, Finish, task
    <3>18. QueryAwayDryRun => Kept
      BY DEF QueryAwayDryRun, Finish, task
    <3>19. QueryAwayMark => Kept
      BY DEF QueryAwayMark, task
    <3>20. LockExecutes => Kept
      BY DEF LockExecutes, task
    <3>21. LockFails => Kept
      BY DEF LockFails, Exit, task
    <3>22. LockReply => Kept
      BY DEF LockReply, task
    <3>23. TurnOffScreen => Kept
      BY DEF TurnOffScreen, task
    <3>24. QueryPresentUnlocked => Kept
      BY DEF QueryPresentUnlocked, CycleComplete, Finish, task
    <3>25. QueryPresentWait => Kept
      BY DEF QueryPresentWait, Finish, task
    <3>26. QueryPresentDryRun => Kept
      BY DEF QueryPresentDryRun, CycleComplete, Finish, task
    <3>27. QueryPresentWake => Kept
      BY DEF QueryPresentWake, task
    <3>28. WakeExecutes => Kept
      BY DEF WakeExecutes, task
    <3>29. WakeReply => Kept
      BY DEF WakeReply, CycleComplete, Finish, task
    <3>30. ServiceStarts => Kept
      BY DEF ServiceStarts, task
    <3>31. ServiceStops => Kept
      BY DEF ServiceStops, task
    <3>32. (ServiceWrites \/ ServiceAnnounces) => Kept
      BY DEF ServiceWrites, ServiceAnnounces, task
    <3>33. UserLocks => Kept
      BY DEF UserLocks, task
    <3>34. UserUnlocks => Kept
      BY DEF UserUnlocks, task
    <3>35. UserInput => Kept
      BY DEF UserInput, task
    <3>36. Elapse => Kept
      BY DEF Elapse, task
    <3>37. UNCHANGED vars => Kept
      BY DEF vars, task
    <3> HIDE DEF Kept
    <3>38. Kept
      BY <2>2, <3>1, <3>2, <3>3, <3>4, <3>5, <3>6, <3>7, <3>8, <3>9, <3>10,
         <3>11, <3>12, <3>13, <3>14, <3>15, <3>16, <3>17, <3>18, <3>19,
         <3>20, <3>21, <3>22, <3>23, <3>24, <3>25, <3>26, <3>27, <3>28,
         <3>29, <3>30, <3>31, <3>32, <3>33, <3>34, <3>35, <3>36, <3>37 DEF
         Next, AgentStep, EnvStep
    <3> QED
      BY <3>38 DEF Kept
  <2> QED
    BY <2>1, <2>2
<1> QED
  BY <1>1, <1>2, <1>3, TypeCorrect, PTL DEF Spec, LockDecidedIdle

-----------------------------------------------------------------------------
(* The simulation of the command line *)

\* A pending request only holds the same decision back.
LEMMA RequestsHoldBack ==
  ASSUME NEW p, NEW away, NEW idle, NEW running, NEW armed, NEW owned,
         NEW requested \in BOOLEAN
  PROVE  /\ ShouldLock(requested, away, idle, running, p) <=>
              ShouldLock(FALSE, away, idle, running, p) /\ ~requested
         /\ ShouldWake(requested, armed, owned, away, p) <=>
              ShouldWake(FALSE, armed, owned, away, p) /\ ~requested
BY DEF ShouldLock, ShouldWake

\* Every tick, with or without a message on the screen, decides to lock, to
\* wake and to show the message exactly when `simulate` answers so for its
\* state, apart from what this absence or return has already requested.
THEOREM TicksDecideAsSimulated == Spec => DecidesAsSimulated
<1> DEFINE State ==
             [ present |-> present, stable_for |-> StableFor,
               idle_for |-> last_activity, running_for |-> started_at,
               screen_locked |-> Locked, locked_by_hpd |-> locked_by_hpd,
               wake_armed |-> wake_armed,
               announced_present |-> osd_announced_present,
               last_osd_at |-> last_osd_at ]
           Simulated == SimulatePolicy(policy, State)
           Agrees ==
             /\ decision' = "lock" <=> Simulated.lock /\ ~lock_requested
             /\ decision' = "wake" /\ Locked <=>
                  Simulated.wake /\ ~wake_requested
             /\ osd' # osd <=> Simulated.show_osd
<1>1. ASSUME TypeOK, TickWithOsd \/ TickQuiet PROVE Agrees
  <2>1. decision' = Decision
    BY <1>1 DEF TickWithOsd, TickQuiet
  <2>2. /\ Simulated.lock <=>
             /\ ~present
             /\ ShouldLock(FALSE, StableFor, last_activity, started_at, policy)
        /\ Simulated.wake <=>
             /\ present /\ Locked
             /\ ShouldWake(FALSE, wake_armed, locked_by_hpd, StableFor, policy)
        /\ Simulated.show_osd <=> OsdDue
    BY DEF SimulatePolicy, OsdDue
  <2>3. /\ ShouldLock(lock_requested, StableFor, last_activity, started_at,
                      policy) <=>
             /\ ShouldLock(FALSE, StableFor, last_activity, started_at, policy)
             /\ ~lock_requested
        /\ ShouldWake(wake_requested, wake_armed, locked_by_hpd, StableFor,
                      policy) <=>
             /\ ShouldWake(FALSE, wake_armed, locked_by_hpd, StableFor, policy)
             /\ ~wake_requested
    BY <1>1, RequestsHoldBack DEF TypeOK, MemoryTypeOK
  <2>4. osd' # osd <=> OsdDue
    <3>1. CASE TickWithOsd
      BY <3>1 DEF TickWithOsd, OsdDue, ShouldShowOsd, osd
    <3>2. CASE TickQuiet
      BY <3>2 DEF TickQuiet, osd
    <3> QED
      BY <1>1, <3>1, <3>2
  <2>5. CASE present
    <3>1. StableFor = Elapsed(present_since)
      BY <2>5 DEF StableFor
    <3>2. decision' = IF wake_requested THEN "none"
                      ELSE IF ShouldWake(wake_requested, wake_armed,
                                         locked_by_hpd, StableFor, policy)
                           THEN "wake" ELSE "observe"
      BY <2>1, <2>5, <3>1 DEF Decision
    <3> QED
      BY <2>2, <2>3, <2>4, <2>5, <3>2
  <2>6. CASE ~present
    <3>1. StableFor = Elapsed(away_since)
      BY <2>6 DEF StableFor
    <3>2. decision' = IF ShouldLock(lock_requested, StableFor, last_activity,
                                    started_at, policy)
                      THEN "lock" ELSE "none"
      BY <2>1, <2>6, <3>1 DEF Decision
    <3> QED
      BY <2>2, <2>3, <2>4, <2>6, <3>2
  <2> QED
    BY <2>5, <2>6
<1>2. TypeOK => [TickWithOsd \/ TickQuiet => Agrees]_vars
  BY <1>1
<1> QED
  BY <1>2, TypeCorrect, PTL DEF DecidesAsSimulated
-----------------------------------------------------------------------------
(* What a tick has decided still holds at its awaits *)

Absence == sensor_available /\ ~present

\* The sensor's view changes only at the select: at the awaits of a tick the
\* agent still sees the absence, or the return, that the tick decided on.
PlaceSeen ==
  /\ pc \in {"queryAway", "lockCall", "lockDone"} => Absence
  /\ pc \in {"queryPresent", "wakeCall", "wakeDone"} => present
  /\ pc = "osd" /\ decision = "lock" => Absence
  /\ pc = "osd" /\ decision \in {"wake", "observe"} => present

\* Every step of the agent and of the world keeps it.
LEMMA PlaceSeenStep ==
  TypeOK /\ PlaceSeen /\ [Next]_vars => PlaceSeen'
<1> SUFFICES ASSUME TypeOK, PlaceSeen, [Next]_vars
             PROVE  PlaceSeen'
  OBVIOUS
<1> USE DEF TypeOK, MemoryTypeOK, PlaceSeen, Absence, sensor, requests, osd,
            clocks, task, bus, desktop
<1>1. ASSUME Start \/ SubscribeSignals PROVE PlaceSeen'
  BY <1>1 DEF Start, SubscribeSignals
<1>2. ASSUME Connect PROVE PlaceSeen'
  BY <1>2 DEF Connect
<1>3. ASSUME ReadInitialLock PROVE PlaceSeen'
  BY <1>3 DEF ReadInitialLock
<1>4. ASSUME SubscribeOwner PROVE PlaceSeen'
  BY <1>4 DEF SubscribeOwner, PresenceDeadlines
<1>5. ASSUME CallFails \/ Crash \/ Shutdown \/ LockFails PROVE PlaceSeen'
  BY <1>5 DEF CallFails, Exit, Crash, Shutdown, LockFails
<1>6. ASSUME HandleSignal PROVE PlaceSeen'
  BY <1>6 DEF HandleSignal, SignalUnavailable, SignalTransition,
     SignalUnchanged, SetDeadlines, PresenceDeadlines
<1>7. ASSUME HandleOwnerLost \/ HandleOwnerGained PROVE PlaceSeen'
  BY <1>7 DEF HandleOwnerLost, SetDeadlines, PresenceDeadlines,
     HandleOwnerGained
<1>8. ASSUME GetStateReply \/ GetStateFails PROVE PlaceSeen'
  BY <1>8 DEF GetStateReply, SetDeadlines, PresenceDeadlines, GetStateFails
<1>9. ASSUME TickWithOsd PROVE PlaceSeen'
  BY <1>9 DEF TickWithOsd, ArmWake, Decision, AfterOsd
<1>10. ASSUME TickQuiet PROVE PlaceSeen'
  BY <1>10 DEF TickQuiet, ArmWake, Decision, AfterOsd
<1>11. ASSUME OsdReply PROVE PlaceSeen'
  BY <1>11 DEF OsdReply, AfterOsd
<1>12. ASSUME QueryFails \/ QueryAwayLocked PROVE PlaceSeen'
  BY <1>12 DEF QueryFails, Finish, QueryAwayLocked
<1>13. ASSUME QueryAwayDryRun PROVE PlaceSeen'
  BY <1>13 DEF QueryAwayDryRun, Finish
<1>14. ASSUME QueryAwayMark PROVE PlaceSeen'
  BY <1>14 DEF QueryAwayMark
<1>15. ASSUME LockExecutes \/ TurnOffScreen PROVE PlaceSeen'
  BY <1>15 DEF LockExecutes, TurnOffScreen
<1>16. ASSUME LockReply PROVE PlaceSeen'
  BY <1>16 DEF LockReply
<1>17. ASSUME QueryPresentUnlocked PROVE PlaceSeen'
  BY <1>17 DEF QueryPresentUnlocked, CycleComplete, Finish
<1>18. ASSUME QueryPresentWait PROVE PlaceSeen'
  BY <1>18 DEF QueryPresentWait, Finish
<1>19. ASSUME QueryPresentDryRun PROVE PlaceSeen'
  BY <1>19 DEF QueryPresentDryRun, CycleComplete, Finish
<1>20. ASSUME QueryPresentWake PROVE PlaceSeen'
  BY <1>20 DEF QueryPresentWake
<1>21. ASSUME WakeExecutes PROVE PlaceSeen'
  BY <1>21 DEF WakeExecutes
<1>22. ASSUME WakeReply PROVE PlaceSeen'
  BY <1>22 DEF WakeReply, CycleComplete, Finish
<1>23. ASSUME MonitorStops \/ UserLocks \/ UserUnlocks \/ UserInput
      PROVE  PlaceSeen'
  BY <1>23 DEF MonitorStops, UserLocks, UserUnlocks, UserInput
<1>24. ASSUME ServiceStarts \/ ServiceWrites \/ ServiceAnnounces \/
              ServiceStops
      PROVE  PlaceSeen'
  BY <1>24 DEF ServiceStarts, ServiceWrites, ServiceAnnounces, ServiceStops
<1>25. ASSUME Elapse PROVE PlaceSeen'
  BY <1>25 DEF Elapse, Older
<1>26. ASSUME UNCHANGED vars PROVE PlaceSeen'
  BY <1>26 DEF vars
<1> QED
  BY <1>1, <1>2, <1>3, <1>4, <1>5, <1>6, <1>7, <1>8, <1>9, <1>10, <1>11,
     <1>12, <1>13, <1>14, <1>15, <1>16, <1>17, <1>18, <1>19, <1>20, <1>21,
     <1>22, <1>23, <1>24, <1>25, <1>26 DEF Next, AgentStep, EnvStep

-----------------------------------------------------------------------------
(* A wake that is owed is due *)

\* A return is dealt with only in front of the sensor, and a process begins
\* with none dealt with; from the initial lock query on, what is owed is known
\* to be the agent's own lock, except while its reply is awaited.
WakeDue ==
  /\ wake_requested => present
  /\ pc \in {"off"} \cup Startup => ~wake_requested
  /\ pc \in {"subscribe", "subOwner"} \cup Parked /\ owed /\ ~policy.dry_run
       => /\ locked_by_hpd \/ pc = "lockDone"
          /\ ~wake_requested

\* Every step keeps an owed wake due: the lock begins a cycle that is not dealt
\* with, because the agent sees the absence at that await, and a cycle ends
\* only with the wake or without a lock to wake.
LEMMA WakeDueStep ==
  TypeOK /\ Recorded /\ PlaceSeen /\ WakeDue /\ [Next]_vars => WakeDue'
<1> SUFFICES ASSUME TypeOK, Recorded, PlaceSeen, WakeDue
             PROVE  [Next]_vars => WakeDue'
  OBVIOUS
<1> USE DEF TypeOK, MemoryTypeOK, Recorded, HpdLockRecorded, PlaceSeen,
            Absence, WakeDue, Startup, Parked, Locked, sensor, requests, osd,
            clocks, task, bus, desktop
<1>1. Start => WakeDue'
  BY DEF Start
<1>2. Connect => WakeDue'
  BY DEF Connect
<1>3. ReadInitialLock => WakeDue'
  <2> SUFFICES ASSUME ReadInitialLock PROVE WakeDue'
    OBVIOUS
  <2>1. owed => Locked /\ marker
    OBVIOUS
  <2>2. owed' => locked_by_hpd'
    BY <2>1 DEF ReadInitialLock
  <2> QED
    BY <2>2 DEF ReadInitialLock
<1>4. SubscribeSignals => WakeDue'
  BY DEF SubscribeSignals
<1>5. SubscribeOwner => WakeDue'
  BY DEF SubscribeOwner
<1>6. CallFails => WakeDue'
  BY DEF CallFails, Exit
<1>7. Crash => WakeDue'
  BY DEF Crash, Exit
<1>8. Shutdown => WakeDue'
  BY DEF Shutdown, Exit
<1>9. MonitorStops => WakeDue'
  BY DEF MonitorStops
<1>10. HandleSignal => WakeDue'
  <2> SUFFICES ASSUME HandleSignal PROVE WakeDue'
    OBVIOUS
  <2>1. pc = "select" /\ UNCHANGED <<pc, policy, owed>>
    BY DEF HandleSignal
  <2>2. CASE SignalUnavailable(Head(sigQ)) \/ SignalTransition(Head(sigQ))
    BY <2>1, <2>2 DEF SignalUnavailable, SignalTransition
  <2>3. CASE SignalUnchanged(Head(sigQ))
    BY <2>1, <2>3 DEF SignalUnchanged
  <2> QED
    BY <2>2, <2>3 DEF HandleSignal
<1>11. HandleOwnerLost => WakeDue'
  BY DEF HandleOwnerLost
<1>12. HandleOwnerGained => WakeDue'
  BY DEF HandleOwnerGained
<1>13. GetStateReply => WakeDue'
  BY DEF GetStateReply
<1>14. GetStateFails => WakeDue'
  BY DEF GetStateFails
<1>15. TickWithOsd => WakeDue'
  BY DEF TickWithOsd, AfterOsd
<1>16. TickQuiet => WakeDue'
  BY DEF TickQuiet, AfterOsd
<1>17. OsdReply => WakeDue'
  BY DEF OsdReply, AfterOsd
<1>18. QueryFails => WakeDue'
  BY DEF QueryFails, Finish
<1>19. QueryAwayLocked => WakeDue'
  BY DEF QueryAwayLocked, Finish
<1>20. QueryAwayDryRun => WakeDue'
  BY DEF QueryAwayDryRun, Finish
<1>21. QueryAwayMark => WakeDue'
  BY DEF QueryAwayMark
<1>22. LockExecutes => WakeDue'
  BY DEF LockExecutes
<1>23. LockFails => WakeDue'
  BY DEF LockFails, Exit
<1>24. LockReply => WakeDue'
  BY DEF LockReply
<1>25. TurnOffScreen => WakeDue'
  BY DEF TurnOffScreen
<1>26. QueryPresentUnlocked => WakeDue'
  BY DEF QueryPresentUnlocked, CycleComplete, Finish
<1>27. QueryPresentWait => WakeDue'
  BY DEF QueryPresentWait, Finish
<1>28. QueryPresentDryRun => WakeDue'
  BY DEF QueryPresentDryRun, CycleComplete, Finish
<1>29. QueryPresentWake => WakeDue'
  BY DEF QueryPresentWake
<1>30. WakeExecutes => WakeDue'
  BY DEF WakeExecutes
<1>31. WakeReply => WakeDue'
  BY DEF WakeReply, CycleComplete, Finish
<1>32. ServiceStarts => WakeDue'
  BY DEF ServiceStarts
<1>33. ServiceStops => WakeDue'
  BY DEF ServiceStops
<1>34. (ServiceWrites \/ ServiceAnnounces) => WakeDue'
  BY DEF ServiceWrites, ServiceAnnounces
<1>35. UserLocks => WakeDue'
  BY DEF UserLocks
<1>36. UserUnlocks => WakeDue'
  BY DEF UserUnlocks
<1>37. UserInput => WakeDue'
  BY DEF UserInput
<1>38. Elapse => WakeDue'
  BY DEF Elapse
<1>39. UNCHANGED vars => WakeDue'
  BY DEF vars
<1> QED
  BY <1>1, <1>2, <1>3, <1>4, <1>5, <1>6, <1>7, <1>8, <1>9, <1>10, <1>11,
     <1>12, <1>13, <1>14, <1>15, <1>16, <1>17, <1>18, <1>19, <1>20, <1>21,
     <1>22, <1>23, <1>24, <1>25, <1>26, <1>27, <1>28, <1>29, <1>30, <1>31,
     <1>32, <1>33, <1>34, <1>35, <1>36, <1>37, <1>38, <1>39 DEF Next,
     AgentStep, EnvStep

\* While a wake is owed, the running agent knows that the lock is its own and
\* has not dealt with the return, whatever crashed, failed or restarted since
\* the lock, and however often the sensor and the daemon came and went.
THEOREM OwedWakesAreDue == Spec => []OwedWakeIsDue
<1>1. Init => Ownership /\ Recorded /\ PlaceSeen /\ WakeDue
  BY DEF Init, Ownership, OwnershipDurable, Recorded, HpdLockRecorded,
         PlaceSeen, WakeDue, Startup, Parked
<1>2. /\ TypeOK /\ Ownership /\ Recorded /\ PlaceSeen /\ WakeDue
      /\ [Next]_vars
      => (Ownership /\ Recorded /\ PlaceSeen /\ WakeDue)'
  BY OwnershipStep, RecordedStep, PlaceSeenStep, WakeDueStep
<1>3. WakeDue => OwedWakeIsDue
  BY DEF WakeDue, OwedWakeIsDue, Running
<1> QED
  BY <1>1, <1>2, <1>3, TypeCorrect, PTL DEF Spec

-----------------------------------------------------------------------------
(* Keeping up with the daemon *)

\* The last element of a queue is the last of its tail, if there is one, and
\* what was appended last.
LEMMA LastOfTail ==
  ASSUME NEW S, NEW q \in Seq(S), q # <<>>
  PROVE  /\ Tail(q) # <<>> => Tail(q)[Len(Tail(q))] = q[Len(q)]
         /\ Tail(q) = <<>> => q[Len(q)] = Head(q)
<1>1. /\ Len(q) \in Nat \ {0}
      /\ Tail(q) \in Seq(S) /\ Len(Tail(q)) = Len(q) - 1
      /\ \A i \in 1..Len(Tail(q)) : Tail(q)[i] = q[i + 1]
  OBVIOUS
<1>2. Tail(q) # <<>> => Len(Tail(q)) \in 1..Len(Tail(q))
  BY <1>1
<1>3. Tail(q) = <<>> => Len(q) = 1
  <2>1. Tail(q) = <<>> => Len(Tail(q)) = 0
    <3>1. Len(<<>>) = 0
      OBVIOUS
    <3> QED
      BY <3>1, Zenon
  <2> QED
    BY <1>1, <2>1
<1> QED
  BY <1>1, <1>2, <1>3

LEMMA LastOfAppend ==
  ASSUME NEW S, NEW q \in Seq(S), NEW x \in S
  PROVE  Append(q, x) # <<>> /\ Append(q, x)[Len(Append(q, x))] = x
OBVIOUS

\* The newest message of each stream is about the daemon that is up: the last
\* signal carries its state once that is told, and the last owner change is
\* that it came.
MessagesCurrent ==
  /\ sigQ # <<>> /\ service.up /\ service.told => sigQ[Len(sigQ)] = Current
  /\ ownQ # <<>> /\ service.up => ownQ[Len(ownQ)] = "gained"
  /\ ~SignalsSubscribed => sigQ = <<>>
  /\ ~OwnerSubscribed => ownQ = <<>>

\* Every step keeps the newest messages current.
LEMMA MessagesStep ==
  TypeOK /\ MessagesCurrent /\ [Next]_vars => MessagesCurrent'
<1> SUFFICES ASSUME TypeOK, MessagesCurrent
             PROVE  [Next]_vars => MessagesCurrent'
  OBVIOUS
<1> USE DEF MessagesCurrent, Current, SignalsSubscribed, OwnerSubscribed,
            Startup, Parked, sensor, requests, osd, clocks, task, bus,
            desktop
<1>1. Start => MessagesCurrent'
  BY DEF Start
<1>2. Connect => MessagesCurrent'
  BY DEF Connect
<1>3. ReadInitialLock => MessagesCurrent'
  BY DEF ReadInitialLock
<1>4. SubscribeSignals => MessagesCurrent'
  BY DEF SubscribeSignals
<1>5. SubscribeOwner => MessagesCurrent'
  BY DEF SubscribeOwner
<1>6. CallFails => MessagesCurrent'
  BY DEF CallFails, Exit
<1>7. Crash => MessagesCurrent'
  BY DEF Crash, Exit
<1>8. Shutdown => MessagesCurrent'
  BY DEF Shutdown, Exit
<1>9. MonitorStops => MessagesCurrent'
  BY DEF MonitorStops
<1>10. HandleSignal => MessagesCurrent'
  BY LastOfTail DEF HandleSignal, TypeOK, WorldTypeOK
<1>11. HandleOwnerLost => MessagesCurrent'
  BY LastOfTail DEF HandleOwnerLost, TypeOK, WorldTypeOK
<1>12. HandleOwnerGained => MessagesCurrent'
  BY LastOfTail DEF HandleOwnerGained, TypeOK, WorldTypeOK
<1>13. GetStateReply => MessagesCurrent'
  BY DEF GetStateReply
<1>14. GetStateFails => MessagesCurrent'
  BY DEF GetStateFails
<1>15. TickWithOsd => MessagesCurrent'
  BY DEF TickWithOsd, AfterOsd
<1>16. TickQuiet => MessagesCurrent'
  BY DEF TickQuiet, AfterOsd
<1>17. OsdReply => MessagesCurrent'
  BY DEF OsdReply, AfterOsd
<1>18. QueryFails => MessagesCurrent'
  BY DEF QueryFails, Finish
<1>19. QueryAwayLocked => MessagesCurrent'
  BY DEF QueryAwayLocked, Finish
<1>20. QueryAwayDryRun => MessagesCurrent'
  BY DEF QueryAwayDryRun, Finish
<1>21. QueryAwayMark => MessagesCurrent'
  BY DEF QueryAwayMark
<1>22. LockExecutes => MessagesCurrent'
  BY DEF LockExecutes
<1>23. LockFails => MessagesCurrent'
  BY DEF LockFails, Exit
<1>24. LockReply => MessagesCurrent'
  BY DEF LockReply
<1>25. TurnOffScreen => MessagesCurrent'
  BY DEF TurnOffScreen
<1>26. QueryPresentUnlocked => MessagesCurrent'
  BY DEF QueryPresentUnlocked, CycleComplete, Finish
<1>27. QueryPresentWait => MessagesCurrent'
  BY DEF QueryPresentWait, Finish
<1>28. QueryPresentDryRun => MessagesCurrent'
  BY DEF QueryPresentDryRun, CycleComplete, Finish
<1>29. QueryPresentWake => MessagesCurrent'
  BY DEF QueryPresentWake
<1>30. WakeExecutes => MessagesCurrent'
  BY DEF WakeExecutes
<1>31. WakeReply => MessagesCurrent'
  BY DEF WakeReply, CycleComplete, Finish
<1>32. ServiceStarts => MessagesCurrent'
  <2> SUFFICES ASSUME ServiceStarts PROVE MessagesCurrent'
    OBVIOUS
  <2>1. ~service'.told /\ sigQ' = sigQ /\ pc' = pc
    BY DEF ServiceStarts, Presence!Start
  <2>2. CASE pc \in Parked
    <3>1. ownQ' = Append(ownQ, "gained")
      BY <2>2 DEF ServiceStarts, DeliverOwner
    <3>2. ownQ'[Len(ownQ')] = "gained"
      BY <3>1, LastOfAppend DEF TypeOK, WorldTypeOK, OwnerChange
    <3> QED
      BY <2>1, <2>2, <3>2
  <2>3. CASE pc \notin Parked
    BY <2>1, <2>3 DEF ServiceStarts, DeliverOwner
  <2> QED
    BY <2>2, <2>3
<1>33. ServiceStops => MessagesCurrent'
  <2> SUFFICES ASSUME ServiceStops PROVE MessagesCurrent'
    OBVIOUS
  <2>1. ~service'.up
    BY DEF ServiceStops, Presence!Stop, Presence!NoDaemon
  <2>2. pc \notin Parked => ownQ' = ownQ /\ pc' = pc
    BY DEF ServiceStops, DeliverOwner
  <2> QED
    BY <2>1, <2>2 DEF ServiceStops
<1>34. (ServiceWrites \/ ServiceAnnounces) => MessagesCurrent'
  <2>1. CASE ServiceWrites
    BY <2>1 DEF ServiceWrites, Presence!Write
  <2>2. CASE ServiceAnnounces
    <3>1. /\ service.up /\ service'.up /\ Current' = Current
          /\ ownQ' = ownQ /\ pc' = pc
      BY <2>2 DEF ServiceAnnounces, Presence!Announce
    <3>2. CASE SignalsSubscribed
      <4>1. sigQ' = Append(sigQ, Current)
        BY <2>2, <3>2 DEF ServiceAnnounces, Deliver
      <4>2. Current \in Signal
        BY DEF TypeOK, WorldTypeOK, Presence!Service, Signal
      <4>3. sigQ'[Len(sigQ')] = Current
        BY <4>1, <4>2, LastOfAppend DEF TypeOK, WorldTypeOK
      <4> QED
        BY <3>1, <3>2, <4>3
    <3>3. CASE ~SignalsSubscribed
      BY <2>2, <3>1, <3>3 DEF ServiceAnnounces, Deliver
    <3> QED
      BY <3>2, <3>3
  <2> QED
    BY <2>1, <2>2
<1>35. UserLocks => MessagesCurrent'
  BY DEF UserLocks
<1>36. UserUnlocks => MessagesCurrent'
  BY DEF UserUnlocks
<1>37. UserInput => MessagesCurrent'
  BY DEF UserInput
<1>38. Elapse => MessagesCurrent'
  BY DEF Elapse
<1>39. UNCHANGED vars => MessagesCurrent'
  BY DEF vars
<1> QED
  BY <1>1, <1>2, <1>3, <1>4, <1>5, <1>6, <1>7, <1>8, <1>9, <1>10, <1>11,
     <1>12, <1>13, <1>14, <1>15, <1>16, <1>17, <1>18, <1>19, <1>20, <1>21,
     <1>22, <1>23, <1>24, <1>25, <1>26, <1>27, <1>28, <1>29, <1>30, <1>31,
     <1>32, <1>33, <1>34, <1>35, <1>36, <1>37, <1>38, <1>39 DEF Next,
     AgentStep, EnvStep

\* Every step of an agent in its loop leaves it up to date.
LEMMA KeepsUpStep ==
  /\ TypeOK /\ MessagesCurrent
  /\ Running /\ UpToDate /\ [Next]_vars /\ Running'
  => UpToDate'
<1> SUFFICES ASSUME TypeOK, MessagesCurrent, Running, UpToDate, Running'
             PROVE  [Next]_vars => UpToDate'
  OBVIOUS
<1> USE DEF Running, Startup, Parked, sensor, requests, osd, clocks, task,
            bus, desktop
<1>1. Start => UpToDate'
  BY DEF Start
<1>2. Connect => UpToDate'
  BY DEF Connect
<1>3. ReadInitialLock => UpToDate'
  BY DEF ReadInitialLock
<1>4. SubscribeSignals => UpToDate'
  BY DEF SubscribeSignals
<1>5. SubscribeOwner => UpToDate'
  BY DEF SubscribeOwner
<1>6. CallFails => UpToDate'
  BY DEF CallFails, Exit
<1>7. Crash => UpToDate'
  BY DEF Crash, Exit
<1>8. Shutdown => UpToDate'
  BY DEF Shutdown, Exit
<1>9. MonitorStops => UpToDate'
  BY DEF MonitorStops, UpToDate, Believed, Current
<1>10. HandleSignal => UpToDate'
  <2> SUFFICES ASSUME HandleSignal, service'.up /\ service'.told
               PROVE  UpToDate'
    BY DEF UpToDate
  <2>1. /\ pc = "select" /\ sigQ # <<>> /\ sigQ' = Tail(sigQ)
        /\ UNCHANGED <<service, ownQ>> /\ sigQ \in Seq(Signal)
    BY DEF HandleSignal, TypeOK, WorldTypeOK
  <2>2. sigQ[Len(sigQ)] = Current
    BY <2>1 DEF MessagesCurrent
  <2>3. CASE Tail(sigQ) # <<>>
    BY <2>1, <2>2, <2>3, LastOfTail DEF UpToDate, Believed, Current
  <2>4. CASE Tail(sigQ) = <<>>
    <3>1. Head(sigQ) = Current /\ Current \in Signal
      BY <2>1, <2>2, <2>4, LastOfTail, QueueTypes
    <3>2. \/ SignalUnavailable(Current) \/ SignalTransition(Current)
          \/ SignalUnchanged(Current)
      BY <3>1 DEF HandleSignal
    <3>3. /\ sensor_available' = Current.available
          /\ Current.available => present' = Current.present
      BY <3>1, <3>2
         DEF SignalUnavailable, SignalTransition, SignalUnchanged, Signal,
             TypeOK, MemoryTypeOK
    <3>4. /\ Believed' = [available |-> sensor_available',
                          present |-> present']
          /\ Current' = Current
      BY <2>1, <2>4 DEF Believed, Current
    <3> HIDE DEF Current, Believed
    <3> QED
      BY <3>3, <3>4 DEF UpToDate
  <2> QED
    BY <2>3, <2>4
<1>11. HandleOwnerLost => UpToDate'
  <2> SUFFICES ASSUME HandleOwnerLost, service'.up /\ service'.told
               PROVE  UpToDate'
    BY DEF UpToDate
  <2>1. /\ ownQ # <<>> /\ ownQ \in Seq(OwnerChange) /\ ownQ' = Tail(ownQ)
        /\ Head(ownQ) = "lost" /\ service' = service
    BY DEF HandleOwnerLost, TypeOK, WorldTypeOK
  <2>2. ownQ[Len(ownQ)] = "gained"
    BY <2>1 DEF MessagesCurrent
  <2>3. Tail(ownQ) # <<>> /\ Tail(ownQ)[Len(Tail(ownQ))] = "gained"
    BY <2>1, <2>2, LastOfTail
  <2>4. Len(Tail(ownQ)) \in 1..Len(Tail(ownQ))
    BY <2>1, <2>3
  <2> QED
    BY <2>1, <2>3, <2>4 DEF UpToDate
<1>12. HandleOwnerGained => UpToDate'
  BY DEF HandleOwnerGained, UpToDate
<1>13. GetStateReply => UpToDate'
  <2> SUFFICES ASSUME GetStateReply, service'.up /\ service'.told
               PROVE  UpToDate'
    BY DEF UpToDate
  <2>1. /\ UNCHANGED <<service, sigQ, ownQ>>
        /\ sensor_available' = service.available
        /\ present' = service.present
    BY DEF GetStateReply
  <2>2. CASE sigQ = <<>>
    BY <2>1, <2>2 DEF UpToDate, Believed, Current
  <2>3. CASE sigQ # <<>>
    <3>1. sigQ[Len(sigQ)] = Current
      BY <2>1, <2>3 DEF MessagesCurrent
    <3> QED
      BY <2>1, <2>3, <3>1 DEF UpToDate, Believed, Current
  <2> QED
    BY <2>2, <2>3
<1>14. GetStateFails => UpToDate'
  BY DEF GetStateFails, UpToDate
<1>15. TickWithOsd => UpToDate'
  BY DEF TickWithOsd, AfterOsd, UpToDate, Believed, Current
<1>16. TickQuiet => UpToDate'
  BY DEF TickQuiet, AfterOsd, UpToDate, Believed, Current
<1>17. OsdReply => UpToDate'
  BY DEF OsdReply, AfterOsd, UpToDate, Believed, Current
<1>18. QueryFails => UpToDate'
  BY DEF QueryFails, Finish, UpToDate, Believed, Current
<1>19. QueryAwayLocked => UpToDate'
  BY DEF QueryAwayLocked, Finish, UpToDate, Believed, Current
<1>20. QueryAwayDryRun => UpToDate'
  BY DEF QueryAwayDryRun, Finish, UpToDate, Believed, Current
<1>21. QueryAwayMark => UpToDate'
  BY DEF QueryAwayMark, UpToDate, Believed, Current
<1>22. LockExecutes => UpToDate'
  BY DEF LockExecutes, UpToDate, Believed, Current
<1>23. LockFails => UpToDate'
  BY DEF LockFails, Exit
<1>24. LockReply => UpToDate'
  BY DEF LockReply, UpToDate, Believed, Current
<1>25. TurnOffScreen => UpToDate'
  BY DEF TurnOffScreen, UpToDate, Believed, Current
<1>26. QueryPresentUnlocked => UpToDate'
  BY DEF QueryPresentUnlocked, CycleComplete, Finish, UpToDate, Believed,
         Current
<1>27. QueryPresentWait => UpToDate'
  BY DEF QueryPresentWait, Finish, UpToDate, Believed, Current
<1>28. QueryPresentDryRun => UpToDate'
  BY DEF QueryPresentDryRun, CycleComplete, Finish, UpToDate, Believed, Current
<1>29. QueryPresentWake => UpToDate'
  BY DEF QueryPresentWake, UpToDate, Believed, Current
<1>30. WakeExecutes => UpToDate'
  BY DEF WakeExecutes, UpToDate, Believed, Current
<1>31. WakeReply => UpToDate'
  BY DEF WakeReply, CycleComplete, Finish, UpToDate, Believed, Current
<1>32. ServiceStarts => UpToDate'
  BY DEF ServiceStarts, Presence!Start, UpToDate
<1>33. ServiceStops => UpToDate'
  BY DEF ServiceStops, Presence!Stop, Presence!NoDaemon, UpToDate
<1>34. (ServiceWrites \/ ServiceAnnounces) => UpToDate'
  <2>1. CASE ServiceWrites
    BY <2>1 DEF ServiceWrites, Presence!Write, UpToDate
  <2>2. CASE ServiceAnnounces
    <3>1. sigQ' = Append(sigQ, Current) /\ Current' = Current
      BY <2>2 DEF ServiceAnnounces, Presence!Announce, Deliver, Current,
                  SignalsSubscribed
    <3>2. Current \in Signal
      BY DEF TypeOK, WorldTypeOK, Presence!Service, Signal, Current
    <3>3. sigQ' # <<>> /\ sigQ'[Len(sigQ')] = Current
      BY <3>1, <3>2, LastOfAppend DEF TypeOK, WorldTypeOK
    <3>4. Believed' = Current'
      BY <3>1, <3>3 DEF Believed
    <3> QED
      BY <3>4 DEF UpToDate
  <2> QED
    BY <2>1, <2>2
<1>35. UserLocks => UpToDate'
  BY DEF UserLocks, UpToDate, Believed, Current
<1>36. UserUnlocks => UpToDate'
  BY DEF UserUnlocks, UpToDate, Believed, Current
<1>37. UserInput => UpToDate'
  BY DEF UserInput, UpToDate, Believed, Current
<1>38. Elapse => UpToDate'
  BY DEF Elapse, UpToDate, Believed, Current
<1>39. UNCHANGED vars => UpToDate'
  BY DEF vars, UpToDate, Believed, Current
<1> QED
  BY <1>1, <1>2, <1>3, <1>4, <1>5, <1>6, <1>7, <1>8, <1>9, <1>10, <1>11,
     <1>12, <1>13, <1>14, <1>15, <1>16, <1>17, <1>18, <1>19, <1>20, <1>21,
     <1>22, <1>23, <1>24, <1>25, <1>26, <1>27, <1>28, <1>29, <1>30, <1>31,
     <1>32, <1>33, <1>34, <1>35, <1>36, <1>37, <1>38, <1>39 DEF Next,
     AgentStep, EnvStep

\* An agent in its loop that is up to date with the daemon stays so: no order
\* in which old and new signals, owner changes and GetState answers reach it,
\* and no await they reach it at, leaves it with a value nothing will correct.
THEOREM AgentKeepsUp == Spec => KeepsUp
<1>1. Init => MessagesCurrent
  BY DEF Init, MessagesCurrent
<1>2. TypeOK /\ MessagesCurrent /\ [Next]_vars => MessagesCurrent'
  BY MessagesStep
<1>3. TypeOK /\ MessagesCurrent /\ [Next]_vars
        => [Running /\ UpToDate /\ Running' => UpToDate']_vars
  BY KeepsUpStep
<1> QED
  BY <1>1, <1>2, <1>3, TypeCorrect, PTL DEF Spec, KeepsUp

-----------------------------------------------------------------------------
(* Ages that stop growing *)

\* The age that the model keeps stands for the time since the Instant: it is
\* that time, or both have passed every threshold.
StandsFor(age, elapsed, thresholds) ==
  \/ age \in OptionAge /\ elapsed = age
  \/ /\ age \in Nat /\ elapsed \in Nat
     /\ \A t \in thresholds : t <= age /\ t <= elapsed

\* As time passes it goes on standing for it.
LEMMA AgesGrow ==
  ASSUME NEW thresholds \in SUBSET Nat, NEW age, NEW elapsed,
         StandsFor(age, elapsed, thresholds)
  PROVE  StandsFor(Older(age, thresholds),
                   IF elapsed = None THEN None ELSE elapsed + 1, thresholds)
<1> USE DEF StandsFor, OptionAge, None
<1>1. CASE age = None
  BY <1>1 DEF Older
<1>2. CASE age \in Nat /\ \E t \in thresholds : age < t
  <2>1. elapsed = age /\ Older(age, thresholds) = age + 1
    BY <1>2 DEF Older
  <2> QED
    BY <1>2, <2>1
<1>3. CASE age \in Nat /\ ~\E t \in thresholds : age < t
  <2>1. Older(age, thresholds) = age
    BY <1>3 DEF Older
  <2>2. elapsed \in Nat /\ \A t \in thresholds : t <= age /\ t <= elapsed + 1
    BY <1>3
  <2> QED
    BY <1>3, <2>1, <2>2
<1> QED
  BY <1>1, <1>2, <1>3

\* It compares with each threshold as that time does.
LEMMA AgesCompare ==
  ASSUME NEW thresholds \in SUBSET Nat, NEW age, NEW elapsed,
         StandsFor(age, elapsed, thresholds), NEW t \in thresholds
  PROVE  /\ age = None <=> elapsed = None
         /\ age >= t <=> elapsed >= t
         /\ Elapsed(age) >= t <=> Elapsed(elapsed) >= t
BY DEF StandsFor, OptionAge, None, Elapsed

\* The ages that stop growing lose no decision: with the thresholds that Elapse
\* gives them, every comparison the agent makes comes out as it does for the
\* unbounded times since the Instants of the code.
THEOREM AgesLoseNoDecision ==
  ASSUME NEW p \in Policy,
         NEW away, NEW awayFor,
         StandsFor(away, awayFor,
                   {p.away_confirm, p.wake_rearm, p.osd_confirm}),
         NEW back, NEW backFor,
         StandsFor(back, backFor, {p.present_confirm, p.osd_confirm}),
         NEW shown, NEW shownFor, StandsFor(shown, shownFor, {p.osd_cooldown}),
         NEW run, NEW runFor, StandsFor(run, runFor, {p.startup_grace}),
         NEW idle, NEW idleFor, StandsFor(idle, idleFor, {p.idle_confirm}),
         NEW requested, NEW armed, NEW owned, NEW told, NEW seen
  PROVE  /\ ShouldLock(requested, Elapsed(away), idle, run, p) <=>
              ShouldLock(requested, Elapsed(awayFor), idleFor, runFor, p)
         /\ ShouldArmWake(armed, Elapsed(away), p) <=>
              ShouldArmWake(armed, Elapsed(awayFor), p)
         /\ ShouldWake(requested, armed, owned, Elapsed(back), p) <=>
              ShouldWake(requested, armed, owned, Elapsed(backFor), p)
         /\ ShouldShowOsd(told, seen, Elapsed(IF seen THEN back ELSE away),
                          shown, p) <=>
              ShouldShowOsd(told, seen,
                            Elapsed(IF seen THEN backFor ELSE awayFor),
                            shownFor, p)
<1>1. /\ {p.away_confirm, p.wake_rearm, p.osd_confirm} \in SUBSET Nat
      /\ {p.present_confirm, p.osd_confirm} \in SUBSET Nat
      /\ {p.osd_cooldown} \in SUBSET Nat /\ {p.startup_grace} \in SUBSET Nat
      /\ {p.idle_confirm} \in SUBSET Nat
  BY DEF Policy
<1>2. /\ Elapsed(away) >= p.away_confirm <=> Elapsed(awayFor) >= p.away_confirm
      /\ Elapsed(away) >= p.wake_rearm <=> Elapsed(awayFor) >= p.wake_rearm
      /\ Elapsed(away) >= p.osd_confirm <=> Elapsed(awayFor) >= p.osd_confirm
  BY <1>1, AgesCompare
<1>3. /\ Elapsed(back) >= p.present_confirm <=>
           Elapsed(backFor) >= p.present_confirm
      /\ Elapsed(back) >= p.osd_confirm <=> Elapsed(backFor) >= p.osd_confirm
  BY <1>1, AgesCompare
<1>4. /\ shown = None <=> shownFor = None
      /\ shown >= p.osd_cooldown <=> shownFor >= p.osd_cooldown
  BY <1>1, AgesCompare
<1>5. run >= p.startup_grace <=> runFor >= p.startup_grace
  BY <1>1, AgesCompare
<1>6. idle >= p.idle_confirm <=> idleFor >= p.idle_confirm
  BY <1>1, AgesCompare
<1>7. ShouldLock(requested, Elapsed(away), idle, run, p) <=>
        ShouldLock(requested, Elapsed(awayFor), idleFor, runFor, p)
  BY <1>2, <1>5, <1>6 DEF ShouldLock
<1>8. ShouldArmWake(armed, Elapsed(away), p) <=>
        ShouldArmWake(armed, Elapsed(awayFor), p)
  BY <1>2 DEF ShouldArmWake
<1>9. ShouldWake(requested, armed, owned, Elapsed(back), p) <=>
        ShouldWake(requested, armed, owned, Elapsed(backFor), p)
  BY <1>3 DEF ShouldWake
<1>10. ShouldShowOsd(told, seen, Elapsed(IF seen THEN back ELSE away), shown,
                     p) <=>
         ShouldShowOsd(told, seen, Elapsed(IF seen THEN backFor ELSE awayFor),
                       shownFor, p)
  BY <1>2, <1>3, <1>4 DEF ShouldShowOsd
<1> QED
  BY <1>7, <1>8, <1>9, <1>10
=============================================================================
