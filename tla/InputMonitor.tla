----------------------------- MODULE InputMonitor -----------------------------
(***************************************************************************)
(* The agent's input monitor (src/src/activity.rs): a loop that keeps one  *)
(* task per user input device of /dev/input, and the tasks, which forward  *)
(* input to the agent.                                                     *)
(*                                                                         *)
(* A device is one life of a piece of hardware: plugged in again, it is    *)
(* another device, possibly at the path of the old one.  Its node exists   *)
(* before udev has made it readable, and that change of mode is not among  *)
(* the events the loop watches for.                                        *)
(***************************************************************************)
EXTENDS Naturals, FiniteSets

CONSTANTS
  Paths,        \* the names /dev/input/event*
  Devices,      \* the devices, each plugged in at most once
  Supports,     \* the keys and axes a device supports
  None,         \* no device
  MaxFailures,  \* bound of the failing streams
  Faults        \* a subset of Fault

Fault == {"inotify",   \* the hotplug watcher cannot be set up, or fails
          "stream"}    \* a device cannot be read, although it is there

Capability == {"KEY_A", "KEY_ENTER", "KEY_SPACE", "BTN_LEFT", "BTN_TOUCH",
               "REL_X", "REL_Y", "ABS_X", "ABS_Y", "KEY_POWER"}

ASSUME InputAssumption ==
  /\ Supports \in [Devices -> SUBSET Capability] /\ None \notin Devices
  /\ IsFiniteSet(Devices) /\ {"boxed", "gone"} \cap Paths = {}
  /\ MaxFailures \in Nat /\ Faults \subseteq Fault

VARIABLES
  place,      \* where a device is: a path, "boxed" or "gone"
  readable,   \* the devices whose node the agent may open
  events,     \* hotplug events in the inotify stream
  loop,       \* where the loop is
  todo,       \* the paths that the enumeration has still to look at
  monitors,   \* the map: the device whose task is kept for a path, or None
  task,       \* the task of a device
  input,      \* the last input of a device that an open task could read
  failures    \* streams that have failed

kernel == <<place, readable>>
map    == <<loop, todo, monitors>>
vars   == <<kernel, events, map, task, input, failures>>

\* A keyboard, buttons of a pointer, a relative or an absolute pointer.
IsUserInput(capabilities) ==
  \/ {"KEY_A", "KEY_ENTER", "KEY_SPACE"} \subseteq capabilities
  \/ {"BTN_LEFT", "BTN_TOUCH", "REL_X", "REL_Y"} \cap capabilities # {}
  \/ {"ABS_X", "ABS_Y"} \subseteq capabilities

UserDevices == {d \in Devices : IsUserInput(Supports[d])}

Live == {"spawned", "watching"}

TypeOK ==
  /\ place \in [Devices -> Paths \cup {"boxed", "gone"}]
  /\ readable \subseteq Devices
  /\ events \in 0..(2 * Cardinality(Devices))
  /\ loop \in {"start", "select", "enumerate", "ended"}
  /\ todo \subseteq Paths
  /\ monitors \in [Paths -> UserDevices \cup {None}]
  /\ task \in [Devices -> Live \cup {"none", "ended", "aborted"}]
  /\ input \in [Devices -> {"none", "buffered", "forwarded"}]
  /\ failures \in 0..MaxFailures

Present(p) == \E d \in Devices : place[d] = p
Occupied   == {p \in Paths : Present(p)}

Init ==
  /\ place \in [Devices -> Paths \cup {"boxed"}]
  /\ \A d, e \in Devices : place[d] = place[e] /\ place[d] # "boxed" => d = e
  /\ readable \in SUBSET {d \in Devices : place[d] # "boxed"}
  /\ events = 0 /\ loop = "start" /\ todo = {}
  /\ monitors = [p \in Paths |-> None]
  /\ task = [d \in Devices |-> "none"]
  /\ input = [d \in Devices |-> "none"]
  /\ failures = 0

-----------------------------------------------------------------------------
(* The hardware, the kernel and udev *)

\* The watch exists from the first step of the loop to its end.
Hotplug ==
  events' = IF loop \in {"select", "enumerate"} THEN events + 1 ELSE events

Plug(d) ==
  /\ place[d] = "boxed"
  /\ \E p \in Paths \ Occupied : place' = [place EXCEPT ![d] = p]
  /\ Hotplug
  /\ UNCHANGED <<readable, map, task, input, failures>>

\* IN_ATTRIB is not watched.
Permit(d) ==
  /\ place[d] \in Paths
  /\ readable' = readable \cup {d}
  /\ UNCHANGED <<place, events, map, task, input, failures>>

Unplug(d) ==
  /\ place[d] \in Paths
  /\ place' = [place EXCEPT ![d] = "gone"]
  /\ readable' = readable \ {d}
  /\ Hotplug
  /\ UNCHANGED <<map, task, input, failures>>

\* The kernel keeps input for the clients that have the device open.
Input(d) ==
  /\ place[d] \in Paths /\ task[d] \in Live
  /\ input' = [input EXCEPT ![d] = "buffered"]
  /\ UNCHANGED <<kernel, events, map, task, failures>>

-----------------------------------------------------------------------------
(* The loop *)

\* Slip: an entry is kept for as long as its path exists.
KeepExisting(p) ==
  monitors[p] # None /\ Present(p)

\* The condition of retain: the path exists, be it another device's by now,
\* and the task has not ended.
Keep(p) ==
  monitors[p] # None /\ Present(p) /\ task[monitors[p]] \in Live

\* reconcile_devices drops the entries that are not kept, aborts their tasks,
\* and reads the directory.
Reconcile ==
  LET dropped == {monitors[p] : p \in {q \in Paths : ~Keep(q)}}
  IN /\ monitors' = [p \in Paths |-> IF Keep(p) THEN monitors[p] ELSE None]
     /\ task' = [d \in Devices |-> IF d \in dropped /\ task[d] \in Live
                                     THEN "aborted" ELSE task[d]]
     /\ todo' = Occupied
     /\ loop' = IF Occupied = {} THEN "select" ELSE "enumerate"

StartLoop ==
  /\ loop = "start"
  /\ Reconcile
  /\ UNCHANGED <<kernel, events, input, failures>>

HandleEvent ==
  /\ loop = "select" /\ events > 0
  /\ events' = events - 1
  /\ Reconcile
  /\ UNCHANGED <<kernel, input, failures>>

Audit ==
  /\ loop = "select"
  /\ Reconcile
  /\ UNCHANGED <<kernel, events, input, failures>>

\* Slip: the map is not asked for an entry at the path.
UnwatchedByMap(d, p) ==
  place[d] = p /\ d \in readable /\ d \in UserDevices /\ task[d] \notin Live

\* Slip: devices of every kind are watched.
UnwatchedOfAnyKind(d, p) ==
  place[d] = p /\ d \in readable /\ monitors[p] = None

\* Whether the device now at the path is opened and gets a task.
Unwatched(d, p) ==
  /\ place[d] = p /\ d \in readable
  /\ monitors[p] = None /\ d \in UserDevices

\* One device of the enumeration.
Enumerate ==
  /\ loop = "enumerate"
  /\ \E p \in todo :
       /\ todo' = todo \ {p}
       /\ loop' = IF todo = {p} THEN "select" ELSE "enumerate"
       /\ \/ \E d \in Devices :
               /\ Unwatched(d, p)
               /\ monitors' = [monitors EXCEPT ![p] = d]
               /\ task' = [task EXCEPT ![d] = "spawned"]
               /\ input' = [input EXCEPT ![d] = "none"]
          \/ /\ \A d \in Devices : ~Unwatched(d, p)
             /\ UNCHANGED <<monitors, task, input>>
  /\ UNCHANGED <<kernel, events, failures>>

\* Slip: the tasks end with the loop.
LoopFailsAborting ==
  /\ loop \in {"start", "select"}
  /\ "inotify" \in Faults
  /\ loop' = "ended"
  /\ monitors' = [p \in Paths |-> None]
  /\ events' = 0
  /\ task' = [d \in Devices |-> IF task[d] \in Live THEN "aborted" ELSE task[d]]
  /\ UNCHANGED <<kernel, todo, input, failures>>

\* The watcher cannot be set up, or its stream fails or ends.  The map is
\* dropped with its handles, which detaches the tasks and does not end them.
LoopFails ==
  /\ loop \in {"start", "select"}
  /\ "inotify" \in Faults
  /\ loop' = "ended"
  /\ monitors' = [p \in Paths |-> None]
  /\ events' = 0
  /\ UNCHANGED <<kernel, todo, task, input, failures>>

-----------------------------------------------------------------------------
(* The task of a device *)

OpenStream(d) ==
  /\ task[d] = "spawned"
  /\ task' = [task EXCEPT ![d] = "watching"]
  /\ UNCHANGED <<kernel, events, map, input, failures>>

\* An event other than a synchronization is sent on as the last activity.
Forward(d) ==
  /\ task[d] = "watching" /\ place[d] \in Paths /\ input[d] = "buffered"
  /\ input' = [input EXCEPT ![d] = "forwarded"]
  /\ UNCHANGED <<kernel, events, map, task, failures>>

\* Reading from a device that is gone is an error.
DeviceGone(d) ==
  /\ task[d] = "watching" /\ place[d] = "gone"
  /\ task' = [task EXCEPT ![d] = "ended"]
  /\ UNCHANGED <<kernel, events, map, input, failures>>

\* The stream cannot be opened, or reading fails.
StreamFails(d) ==
  /\ task[d] \in Live
  /\ "stream" \in Faults /\ failures < MaxFailures
  /\ task' = [task EXCEPT ![d] = "ended"]
  /\ failures' = failures + 1
  /\ UNCHANGED <<kernel, events, map, input>>

-----------------------------------------------------------------------------
LoopStep    == StartLoop \/ HandleEvent \/ Audit \/ Enumerate
TaskStep(d) == OpenStream(d) \/ Forward(d) \/ DeviceGone(d)
KernelStep(d) == Plug(d) \/ Permit(d) \/ Unplug(d) \/ Input(d)

Next ==
  \/ LoopStep \/ LoopFails
  \/ \E d \in Devices : TaskStep(d) \/ StreamFails(d) \/ KernelStep(d)

Spec == Init /\ [][Next]_vars

(* The runtime schedules the loop and every task, and the audit timer ticks. *)
FairSpec ==
  /\ Spec
  /\ WF_vars(LoopStep)
  /\ \A d \in Devices : WF_vars(TaskStep(d))

-----------------------------------------------------------------------------
\* A user input device that stays is watched in the end: also if it was made
\* readable after its hotplug event was handled, took over the path of a
\* device whose task had not noticed yet that it is gone, came while another
\* reconcile was running, or its task failed.
DevicesGetWatched ==
  \A d \in UserDevices :
    <>[](place[d] \in Paths /\ d \in readable /\ loop # "ended")
      => <>[](task[d] = "watching")

\* Input that an opened device has reaches the agent unless the device goes or
\* its stream fails: no reconcile cuts off a task that works, and the tasks
\* outlive the loop that started them.
InputIsForwarded ==
  \A d \in UserDevices :
    input[d] = "buffered"
      ~> input[d] = "forwarded" \/ place[d] = "gone" \/ task[d] = "ended"

\* While the loop runs every working task of a device is in the map, under the
\* path of that device: a path that is taken over cannot push the task of its
\* first device out of reach, and no device has a second task.
TasksAreKept ==
  loop \in {"select", "enumerate"} =>
    \A d \in Devices :
      task[d] \in Live =>
        \E p \in Paths : monitors[p] = d /\ place[d] \in {p, "gone"}
=============================================================================
