----------------------------- MODULE InputProofs -----------------------------
(***************************************************************************)
(* Proofs about InputMonitor for every set of paths, every finite set of   *)
(* devices with any capabilities, and every set of faults.                 *)
(***************************************************************************)
EXTENDS InputMonitor, FiniteSetTheorems, TLAPS

-----------------------------------------------------------------------------
(* Types *)

\* The type of everything but the bound of the events.
Typed ==
  /\ place \in [Devices -> Paths \cup {"boxed", "gone"}]
  /\ readable \subseteq Devices
  /\ events \in Nat
  /\ loop \in {"start", "select", "enumerate", "ended"}
  /\ todo \subseteq Paths
  /\ monitors \in [Paths -> UserDevices \cup {None}]
  /\ task \in [Devices -> Live \cup {"none", "ended", "aborted"}]
  /\ input \in [Devices -> {"none", "buffered", "forwarded"}]
  /\ failures \in 0..MaxFailures

\* Reconciling the map with the directory keeps the types.
LEMMA ReconcileTypes ==
  ASSUME Typed, Reconcile
  PROVE  /\ monitors' \in [Paths -> UserDevices \cup {None}]
         /\ task' \in [Devices -> Live \cup {"none", "ended", "aborted"}]
         /\ todo' \subseteq Paths
         /\ loop' \in {"select", "enumerate"}
BY DEF Typed, Reconcile, Occupied

\* Every step keeps the types.
LEMMA TypedStep == Typed /\ [Next]_vars => Typed'
<1> SUFFICES ASSUME Typed PROVE [Next]_vars => Typed'
  OBVIOUS
<1> USE InputAssumption DEF kernel, map
<1>1. ASSUME StartLoop PROVE Typed'
  BY <1>1, ReconcileTypes DEF StartLoop, Typed
<1>2. ASSUME HandleEvent PROVE Typed'
  BY <1>2, ReconcileTypes DEF HandleEvent, Typed
<1>3. ASSUME Audit PROVE Typed'
  BY <1>3, ReconcileTypes DEF Audit, Typed
<1>4. ASSUME Enumerate PROVE Typed'
  <2>1. PICK p \in todo :
          /\ todo' = todo \ {p}
          /\ loop' = IF todo = {p} THEN "select" ELSE "enumerate"
          /\ \/ \E d \in Devices :
                  /\ Unwatched(d, p)
                  /\ monitors' = [monitors EXCEPT ![p] = d]
                  /\ task' = [task EXCEPT ![d] = "spawned"]
                  /\ input' = [input EXCEPT ![d] = "none"]
             \/ UNCHANGED <<monitors, task, input>>
    BY <1>4 DEF Enumerate
  <2> QED
    BY <1>4, <2>1 DEF Enumerate, Typed, Unwatched, Live
<1>5. ASSUME LoopFails PROVE Typed'
  BY <1>5 DEF LoopFails, Typed, Live
<1>6. ASSUME NEW d \in Devices, OpenStream(d) PROVE Typed'
  BY <1>6 DEF OpenStream, Typed, Live
<1>7. ASSUME NEW d \in Devices, Forward(d) PROVE Typed'
  BY <1>7 DEF Forward, Typed, Live
<1>8. ASSUME NEW d \in Devices, DeviceGone(d) PROVE Typed'
  BY <1>8 DEF DeviceGone, Typed, Live
<1>9. ASSUME NEW d \in Devices, StreamFails(d) PROVE Typed'
  BY <1>9 DEF StreamFails, Typed, Live
<1>10. ASSUME NEW d \in Devices, Plug(d) PROVE Typed'
  BY <1>10 DEF Plug, Hotplug, Typed, Live
<1>11. ASSUME NEW d \in Devices, Permit(d) PROVE Typed'
  BY <1>11 DEF Permit, Typed, Live
<1>12. ASSUME NEW d \in Devices, Unplug(d) PROVE Typed'
  BY <1>12 DEF Unplug, Hotplug, Typed, Live
<1>13. ASSUME NEW d \in Devices, Input(d) PROVE Typed'
  BY <1>13 DEF Input, Typed, Live
<1>14. ASSUME UNCHANGED vars PROVE Typed'
  BY <1>14 DEF vars, Typed
<1> QED
  BY <1>1, <1>2, <1>3, <1>4, <1>5, <1>6, <1>7, <1>8, <1>9, <1>10,
     <1>11, <1>12, <1>13, <1>14
     DEF Next, LoopStep, TaskStep, KernelStep

-----------------------------------------------------------------------------
(* The bound of the event stream *)

Boxed == {d \in Devices : place[d] = "boxed"}
Alive == {d \in Devices : place[d] # "gone"}

\* A device still in its box has two changes to come, one that is plugged in
\* has one, and the events waiting are changes that have happened.
EventsCounted ==
  events + Cardinality(Boxed) + Cardinality(Alive) <= 2 * Cardinality(Devices)

\* The sets that are counted are finite.
LEMMA Counts ==
  /\ Cardinality(Devices) \in Nat
  /\ IsFiniteSet(Boxed) /\ Cardinality(Boxed) \in Nat
  /\ Cardinality(Boxed) <= Cardinality(Devices)
  /\ IsFiniteSet(Alive) /\ Cardinality(Alive) \in Nat
  /\ Cardinality(Alive) <= Cardinality(Devices)
<1>1. Boxed \subseteq Devices /\ Alive \subseteq Devices
  BY DEF Boxed, Alive
<1> QED
  BY <1>1, InputAssumption, FS_Subset, FS_CardinalityType

\* A step that is not one of the kernel's adds no event and moves no device.
LEMMA CountedElsewhere ==
  ASSUME EventsCounted, Typed, Typed', place' = place, events' <= events
  PROVE  EventsCounted'
<1>1. Boxed' = Boxed /\ Alive' = Alive
  BY DEF Boxed, Alive
<1> QED
  BY <1>1, Counts DEF EventsCounted, Typed

\* Every step keeps the count.
LEMMA CountStep == EventsCounted /\ Typed /\ [Next]_vars => EventsCounted'
<1> SUFFICES ASSUME EventsCounted, Typed PROVE [Next]_vars => EventsCounted'
  OBVIOUS
<1> USE DEF kernel, map
<1>typed. [Next]_vars => Typed'
  BY TypedStep
<1>same. [Next]_vars /\ place' = place /\ events' <= events => EventsCounted'
  BY <1>typed, CountedElsewhere
<1>nat. events \in Nat /\ events <= events
  BY DEF Typed
<1>1. ASSUME StartLoop PROVE EventsCounted'
  <2>1. Next
    BY <1>1 DEF Next, LoopStep, TaskStep, KernelStep
  <2>2. place' = place /\ events' <= events
    BY <1>1, <1>nat DEF StartLoop
  <2> QED
    BY <2>1, <2>2, <1>same
<1>2. ASSUME HandleEvent PROVE EventsCounted'
  <2>1. Next
    BY <1>2 DEF Next, LoopStep, TaskStep, KernelStep
  <2>2. place' = place /\ events' <= events
    BY <1>2, <1>nat DEF HandleEvent
  <2> QED
    BY <2>1, <2>2, <1>same
<1>3. ASSUME Audit PROVE EventsCounted'
  <2>1. Next
    BY <1>3 DEF Next, LoopStep, TaskStep, KernelStep
  <2>2. place' = place /\ events' <= events
    BY <1>3, <1>nat DEF Audit
  <2> QED
    BY <2>1, <2>2, <1>same
<1>4. ASSUME Enumerate PROVE EventsCounted'
  <2>1. Next
    BY <1>4 DEF Next, LoopStep, TaskStep, KernelStep
  <2>2. place' = place /\ events' <= events
    BY <1>4, <1>nat DEF Enumerate
  <2> QED
    BY <2>1, <2>2, <1>same
<1>5. ASSUME LoopFails PROVE EventsCounted'
  <2>1. Next
    BY <1>5 DEF Next, LoopStep, TaskStep, KernelStep
  <2>2. place' = place /\ events' <= events
    BY <1>5, <1>nat DEF LoopFails
  <2> QED
    BY <2>1, <2>2, <1>same
<1>6. ASSUME NEW d \in Devices, OpenStream(d) PROVE EventsCounted'
  <2>1. Next
    BY <1>6 DEF Next, LoopStep, TaskStep, KernelStep
  <2>2. place' = place /\ events' <= events
    BY <1>6, <1>nat DEF OpenStream
  <2> QED
    BY <2>1, <2>2, <1>same
<1>7. ASSUME NEW d \in Devices, Forward(d) PROVE EventsCounted'
  <2>1. Next
    BY <1>7 DEF Next, LoopStep, TaskStep, KernelStep
  <2>2. place' = place /\ events' <= events
    BY <1>7, <1>nat DEF Forward
  <2> QED
    BY <2>1, <2>2, <1>same
<1>8. ASSUME NEW d \in Devices, DeviceGone(d) PROVE EventsCounted'
  <2>1. Next
    BY <1>8 DEF Next, LoopStep, TaskStep, KernelStep
  <2>2. place' = place /\ events' <= events
    BY <1>8, <1>nat DEF DeviceGone
  <2> QED
    BY <2>1, <2>2, <1>same
<1>9. ASSUME NEW d \in Devices, StreamFails(d) PROVE EventsCounted'
  <2>1. Next
    BY <1>9 DEF Next, LoopStep, TaskStep, KernelStep
  <2>2. place' = place /\ events' <= events
    BY <1>9, <1>nat DEF StreamFails
  <2> QED
    BY <2>1, <2>2, <1>same
<1>10. ASSUME NEW d \in Devices, Plug(d) PROVE EventsCounted'
  <2>1. PICK p \in Paths : place' = [place EXCEPT ![d] = p]
    BY <1>10 DEF Plug
  <2>2. place[d] = "boxed" /\ place'[d] = p /\ p \notin {"boxed", "gone"}
    BY <1>10, <2>1, InputAssumption DEF Plug, Typed
  <2>3. \A e \in Devices \ {d} : place'[e] = place[e]
    BY <2>1 DEF Typed
  <2>4. Boxed' = Boxed \ {d} /\ d \in Boxed /\ Alive' = Alive
    BY <2>2, <2>3 DEF Boxed, Alive
  <2>5. Cardinality(Boxed') = Cardinality(Boxed) - 1
    BY <2>4, Counts, FS_RemoveElement
  <2>6. events' <= events + 1 /\ events' \in Nat
    BY <1>10, <1>nat DEF Plug, Hotplug
  <2> QED
    BY <2>4, <2>5, <2>6, <1>nat, Counts DEF EventsCounted
<1>11. ASSUME NEW d \in Devices, Permit(d) PROVE EventsCounted'
  <2>1. Next
    BY <1>11 DEF Next, LoopStep, TaskStep, KernelStep
  <2>2. place' = place /\ events' <= events
    BY <1>11, <1>nat DEF Permit
  <2> QED
    BY <2>1, <2>2, <1>same
<1>12. ASSUME NEW d \in Devices, Unplug(d) PROVE EventsCounted'
  <2>1. place[d] \notin {"boxed", "gone"} /\ place'[d] = "gone"
    BY <1>12, InputAssumption DEF Unplug, Typed
  <2>2. \A e \in Devices \ {d} : place'[e] = place[e]
    BY <1>12 DEF Unplug, Typed
  <2>3. Alive' = Alive \ {d} /\ d \in Alive /\ Boxed' = Boxed
    BY <2>1, <2>2 DEF Boxed, Alive
  <2>4. Cardinality(Alive') = Cardinality(Alive) - 1
    BY <2>3, Counts, FS_RemoveElement
  <2>5. events' <= events + 1 /\ events' \in Nat
    BY <1>12, <1>nat DEF Unplug, Hotplug
  <2> QED
    BY <2>3, <2>4, <2>5, <1>nat, Counts DEF EventsCounted
<1>13. ASSUME NEW d \in Devices, Input(d) PROVE EventsCounted'
  <2>1. Next
    BY <1>13 DEF Next, LoopStep, TaskStep, KernelStep
  <2>2. place' = place /\ events' <= events
    BY <1>13, <1>nat DEF Input
  <2> QED
    BY <2>1, <2>2, <1>same
<1>14. ASSUME UNCHANGED vars PROVE EventsCounted'
  BY <1>14, <1>same, <1>nat DEF vars
<1> QED
  BY <1>1, <1>2, <1>3, <1>4, <1>5, <1>6, <1>7, <1>8, <1>9, <1>10,
     <1>11, <1>12, <1>13, <1>14
     DEF Next, LoopStep, TaskStep, KernelStep

\* Typed and the count are the type invariant.
LEMMA TypedIsTypeOK == Typed /\ EventsCounted => TypeOK
<1> SUFFICES ASSUME Typed, EventsCounted PROVE TypeOK
  OBVIOUS
<1>1. events \in 0..(2 * Cardinality(Devices))
  BY Counts DEF Typed, EventsCounted
<1> QED
  BY <1>1 DEF Typed, TypeOK

\* The variables keep their types, and the inotify stream never holds more
\* events than two for each device: one of its arrival and one of its removal.
THEOREM TypeCorrect == Spec => []TypeOK
<1>1. Init => Typed
  BY InputAssumption DEF Init, Typed
<1>2. Init => EventsCounted
  BY Counts DEF Init, EventsCounted
<1>3. Typed /\ EventsCounted /\ [Next]_vars => (Typed /\ EventsCounted)'
  BY TypedStep, CountStep
<1> QED
  BY <1>1, <1>2, <1>3, TypedIsTypeOK, PTL DEF Spec

-----------------------------------------------------------------------------
(* The map of tasks *)

\* Before the loop begins there are no tasks.
QuietStart == loop = "start" => \A d \in Devices : task[d] \notin Live

Kept == TasksAreKept /\ QuietStart

\* Reconciling loses no task that works: an entry that is dropped takes the
\* task of its device with it.
LEMMA ReconcileKeeps ==
  ASSUME Typed, Kept, loop \in {"start", "select"}, Reconcile, place' = place
  PROVE  Kept'
<1> SUFFICES ASSUME NEW d \in Devices, task'[d] \in Live
             PROVE  \E p \in Paths :
                      monitors'[p] = d /\ place[d] \in {p, "gone"}
  BY DEF Reconcile, Kept, TasksAreKept, QuietStart
<1> DEFINE dropped == {monitors[p] : p \in {q \in Paths : ~Keep(q)}}
<1>1. task[d] \in Live /\ d \notin dropped
  BY DEF Reconcile, Typed, Live
<1>2. PICK p \in Paths : monitors[p] = d /\ place[d] \in {p, "gone"}
  BY <1>1 DEF Kept, TasksAreKept, QuietStart
<1>3. Keep(p)
  BY <1>1, <1>2
<1>4. monitors'[p] = d
  BY <1>2, <1>3 DEF Reconcile
<1> QED
  BY <1>2, <1>4

\* Every step keeps the tasks in the map.
LEMMA KeptStep == Typed /\ Kept /\ [Next]_vars => Kept'
<1> SUFFICES ASSUME Typed, Kept PROVE [Next]_vars => Kept'
  OBVIOUS
<1> USE InputAssumption DEF kernel, map
<1>1. ASSUME StartLoop PROVE Kept'
  BY <1>1, ReconcileKeeps DEF StartLoop
<1>2. ASSUME HandleEvent PROVE Kept'
  BY <1>2, ReconcileKeeps DEF HandleEvent
<1>3. ASSUME Audit PROVE Kept'
  BY <1>3, ReconcileKeeps DEF Audit
<1>4. ASSUME Enumerate PROVE Kept'
  <2>1. PICK p \in todo :
          \/ \E d \in Devices :
               /\ Unwatched(d, p)
               /\ monitors' = [monitors EXCEPT ![p] = d]
               /\ task' = [task EXCEPT ![d] = "spawned"]
          \/ UNCHANGED <<monitors, task>>
    BY <1>4 DEF Enumerate
  <2>2. p \in Paths /\ loop = "enumerate" /\ loop' # "start" /\ place' = place
    BY <1>4, <2>1 DEF Enumerate, Typed
  <2>3. CASE UNCHANGED <<monitors, task>>
    BY <2>2, <2>3 DEF Kept, TasksAreKept, QuietStart
  <2>4. CASE \E d \in Devices :
               /\ Unwatched(d, p)
               /\ monitors' = [monitors EXCEPT ![p] = d]
               /\ task' = [task EXCEPT ![d] = "spawned"]
    <3>1. PICK d \in Devices :
            /\ Unwatched(d, p)
            /\ monitors' = [monitors EXCEPT ![p] = d]
            /\ task' = [task EXCEPT ![d] = "spawned"]
      BY <2>4
    <3> SUFFICES ASSUME NEW e \in Devices, task'[e] \in Live
                 PROVE  \E q \in Paths :
                          monitors'[q] = e /\ place[e] \in {q, "gone"}
      BY <2>2 DEF Kept, TasksAreKept, QuietStart
    <3>2. CASE e = d
      BY <2>2, <3>1, <3>2 DEF Unwatched, Typed
    <3>3. CASE e # d
      <4>1. task[e] \in Live
        BY <3>1, <3>3 DEF Typed
      <4>2. PICK q \in Paths : monitors[q] = e /\ place[e] \in {q, "gone"}
        BY <2>2, <4>1 DEF Kept, TasksAreKept
      <4>3. q # p
        BY <3>1, <4>2 DEF Unwatched
      <4> QED
        BY <3>1, <4>2, <4>3 DEF Typed
    <3> QED
      BY <3>2, <3>3
  <2> QED
    BY <2>1, <2>3, <2>4
<1>5. ASSUME LoopFails PROVE Kept'
  BY <1>5 DEF LoopFails, Kept, TasksAreKept, QuietStart, Typed, Live
<1>6. ASSUME NEW d \in Devices, OpenStream(d) PROVE Kept'
  BY <1>6 DEF OpenStream, Kept, TasksAreKept, QuietStart, Typed, Live
<1>7. ASSUME NEW d \in Devices, Forward(d) PROVE Kept'
  BY <1>7 DEF Forward, Kept, TasksAreKept, QuietStart, Typed, Live
<1>8. ASSUME NEW d \in Devices, DeviceGone(d) PROVE Kept'
  BY <1>8 DEF DeviceGone, Kept, TasksAreKept, QuietStart, Typed, Live
<1>9. ASSUME NEW d \in Devices, StreamFails(d) PROVE Kept'
  BY <1>9 DEF StreamFails, Kept, TasksAreKept, QuietStart, Typed, Live
<1>10. ASSUME NEW d \in Devices, Plug(d) PROVE Kept'
  BY <1>10 DEF Plug, Hotplug, Kept, TasksAreKept, QuietStart, Typed, Live
<1>11. ASSUME NEW d \in Devices, Permit(d) PROVE Kept'
  BY <1>11 DEF Permit, Kept, TasksAreKept, QuietStart, Typed, Live
<1>12. ASSUME NEW d \in Devices, Unplug(d) PROVE Kept'
  BY <1>12 DEF Unplug, Hotplug, Kept, TasksAreKept, QuietStart, Typed, Live
<1>13. ASSUME NEW d \in Devices, Input(d) PROVE Kept'
  BY <1>13 DEF Input, Kept, TasksAreKept, QuietStart, Typed, Live
<1>14. ASSUME UNCHANGED vars PROVE Kept'
  BY <1>14 DEF vars, Kept, TasksAreKept, QuietStart
<1> QED
  BY <1>1, <1>2, <1>3, <1>4, <1>5, <1>6, <1>7, <1>8, <1>9, <1>10,
     <1>11, <1>12, <1>13, <1>14
     DEF Next, LoopStep, TaskStep, KernelStep

\* No working task is out of the map's reach while the loop runs, whatever the
\* devices, udev and the streams do between two steps of an enumeration.
THEOREM TasksStayInMap == Spec => []TasksAreKept
<1>1. Init => Typed /\ Kept
  BY InputAssumption DEF Init, Typed, Kept, TasksAreKept, QuietStart, Live
<1>2. Typed /\ Kept /\ [Next]_vars => (Typed /\ Kept)'
  BY TypedStep, KeptStep
<1>3. Kept => TasksAreKept
  BY DEF Kept
<1> QED
  BY <1>1, <1>2, <1>3, PTL DEF Spec

\* The device that an enumeration opens has no task yet.
NoSecondTask ==
  loop = "enumerate" =>
    \A d \in Devices, p \in Paths : Unwatched(d, p) => task[d] \notin Live

\* reconcile_devices never starts a second task for a device, although it asks
\* the map for the path only and devices change paths.
THEOREM OneTaskPerDevice == Spec => []NoSecondTask
<1>1. Init => Typed /\ Kept
  BY InputAssumption DEF Init, Typed, Kept, TasksAreKept, QuietStart, Live
<1>2. Typed /\ Kept /\ [Next]_vars => (Typed /\ Kept)'
  BY TypedStep, KeptStep
<1>3. Typed /\ Kept => NoSecondTask
  <2> SUFFICES ASSUME Typed, Kept, loop = "enumerate",
                      NEW d \in Devices, NEW p \in Paths, Unwatched(d, p),
                      task[d] \in Live
               PROVE  FALSE
    BY DEF NoSecondTask
  <2>1. PICK q \in Paths : monitors[q] = d /\ place[d] \in {q, "gone"}
    BY DEF Kept, TasksAreKept
  <2>2. place[d] = p /\ monitors[p] = None
    BY DEF Unwatched
  <2>3. q = p
    BY <2>1, <2>2, InputAssumption
  <2> QED
    BY <2>1, <2>2, <2>3, InputAssumption
<1> QED
  BY <1>1, <1>2, <1>3, PTL DEF Spec
=============================================================================
