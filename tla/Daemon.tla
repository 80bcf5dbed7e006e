-------------------------------- MODULE Daemon --------------------------------
(***************************************************************************)
(* The system daemon (src/src/service.rs, run_daemon) with its IIO reader  *)
(* thread (src/src/iio.rs) and the kernel's sample buffer.                 *)
(*                                                                         *)
(* Two flows run concurrently: the async main task, at `main`, and the     *)
(* blocking reader thread, at `reader`.  They share the channel of sample  *)
(* results and the flag `running`.  The sensor, systemd and I/O failures   *)
(* interleave with both.                                                   *)
(*                                                                         *)
(* The main task listens for SIGTERM only while it waits at the select.    *)
(* shutdown_signal() is created anew by every iteration and a new listener *)
(* sees only later signals, so a SIGTERM that arrives while a sample is    *)
(* being announced, or together with a sample that is taken first, is      *)
(* forgotten; the installed handler has replaced the default action.  A    *)
(* SIGINT is heard by the same listener and is not told apart.             *)
(***************************************************************************)
EXTENDS Integers, Sequences

CONSTANTS
  Raws,            \* raw sensor values
  PresentValues,   \* config.sensor.present_values
  AwayValues,      \* config.sensor.away_values
  BufferLength,    \* config.sensor.buffer_length
  ChannelCap,      \* capacity of the sample channel, 32 in the code
  Faults           \* the faults that may happen, a subset of Fault

Fault ==
  { "discover",   \* sensor discovery, the first read or D-Bus setup fails
    "open",       \* IioBuffer::open fails and undoes what it did
    "length",     \* ... fails where it writes buffer0/length
    "cleanup",    \* a write of "0" that undoes open or closes the buffer fails
    "read",       \* poll or read of the device fails
    "dbus",       \* a signal cannot be sent
    "sigterm",    \* systemd stops the daemon
    "kill" }      \* the daemon is killed

\* What SensorConfig::validate checks of the mappings and the length.
ASSUME DaemonAssumption ==
  /\ PresentValues \subseteq Raws /\ PresentValues # {}
  /\ AwayValues \subseteq Raws /\ AwayValues # {}
  /\ PresentValues \cap AwayValues = {}
  /\ BufferLength \in 2..4096 /\ ChannelCap \in Nat \ {0}
  /\ Faults \subseteq Fault

VARIABLES
  main,        \* where the main task is, "off" without a process
  state,       \* the PresenceState that GetState and the properties show
  announced,   \* the PresenceState clients heard last in PresenceChanged
  running,     \* the flag the reader polls
  name,        \* the bus name is owned
  reader,      \* where the reader thread is
  item,        \* the result the reader is sending
  chan,        \* the channel of results
  open,        \* the receiver of the channel exists
  buffer,      \* buffer0/enable
  scan,        \* the scan element is enabled
  excused,     \* history: the last process was killed, could not write the
               \* buffer length, or failed to write its clean-up, and nobody
               \* has closed or opened sysfs in full since
  kbuf,        \* samples in the kernel buffer
  accepted,    \* the newest sample the kernel buffer took, or `Nothing`
  asked,       \* systemd has asked this process to stop
  term         \* a SIGTERM is held by the listener of the select

thread == <<reader, item>>
iio    == <<buffer, scan, excused, kbuf, accepted>>
stop   == <<asked, term>>

vars == <<main, state, announced, running, name, thread, chan, open,
          iio, stop>>

Nothing  == [kind |-> "nothing"]
Sample(raw) == [kind |-> "sample", raw |-> raw]
Error    == [kind |-> "error"]
Result   == {Error} \cup {Sample(raw) : raw \in Raws}

PresenceState == [available : BOOLEAN, present : BOOLEAN, raw : Raws]

Startup == {"discover", "publish", "announce"}
Serving == {"select", "emit"}

TypeOK ==
  /\ main \in {"off", "stopping", "drain"} \cup Startup \cup Serving
  /\ state \in PresenceState /\ announced \in PresenceState
  /\ running \in BOOLEAN /\ name \in BOOLEAN /\ open \in BOOLEAN
  /\ reader \in {"none", "open", "check", "poll", "send", "sendLast",
                 "sendFailure", "close", "done"}
  /\ item \in Result \cup {Nothing}
  /\ chan \in Seq(Result) /\ Len(chan) <= ChannelCap
  /\ buffer \in BOOLEAN /\ scan \in BOOLEAN /\ excused \in BOOLEAN
  /\ kbuf \in Seq(Raws) /\ Len(kbuf) <= BufferLength
  /\ accepted \in {Sample(raw) : raw \in Raws} \cup {Nothing}
  /\ asked \in BOOLEAN /\ term \in BOOLEAN

\* The clients have heard the state that GetState answers.
Told == main # "announce" /\ announced = state

\* What the clients see: nothing without the bus name.
Seen ==
  IF name
  THEN [up |-> TRUE, available |-> state.available,
        present |-> state.present, told |-> Told]
  ELSE [up |-> FALSE, available |-> FALSE, present |-> FALSE, told |-> FALSE]

\* The service this daemon is to them.
Published == INSTANCE PresenceService WITH service <- Seen

-----------------------------------------------------------------------------
(* Classification *)

Mapped(raw) == raw \in PresentValues \cup AwayValues

\* Slip: the first value counts as available whether it is mapped or not.
FromInitialTrusted(raw) ==
  [available |-> TRUE, present |-> raw \in PresentValues, raw |-> raw]

\* PresenceState::from_initial of the classified first value.
FromInitial(raw) ==
  [available |-> Mapped(raw), present |-> raw \in PresentValues, raw |-> raw]

\* PresenceState::apply_classified: the new state and whether it changed.
Applied(raw) == [available |-> TRUE, present |-> raw \in PresentValues,
                 raw |-> raw]

\* Slip: a new raw value of the same presence is no change.
ChangedPresence(raw) ==
  \/ ~state.available
  \/ state.present # (raw \in PresentValues)

Changed(raw) ==
  \/ ~state.available
  \/ state.raw # raw
  \/ state.present # (raw \in PresentValues)

-----------------------------------------------------------------------------
(* Start and end of the process *)

Blank == CHOOSE s \in PresenceState : ~s.available /\ ~s.present

Init ==
  /\ main = "off" /\ state = Blank /\ announced = Blank
  /\ running = FALSE /\ name = FALSE /\ open = FALSE
  /\ reader = "none" /\ item = Nothing /\ chan = <<>>
  /\ buffer = FALSE /\ scan = FALSE /\ excused = FALSE
  /\ kbuf = <<>> /\ accepted = Nothing
  /\ asked = FALSE /\ term = FALSE

\* The process is gone; what it left in sysfs stays.
Gone ==
  /\ main' = "off" /\ state' = Blank /\ announced' = Blank
  /\ running' = FALSE /\ name' = FALSE /\ open' = FALSE
  /\ reader' = "none" /\ item' = Nothing /\ chan' = <<>>
  /\ kbuf' = <<>> /\ accepted' = Nothing
  /\ asked' = FALSE /\ term' = FALSE
  /\ UNCHANGED <<buffer, scan>>

Start ==
  /\ main = "off"
  /\ main' = "discover"
  /\ UNCHANGED <<state, announced, running, name, thread, chan, open,
                 iio, stop>>

\* discover and read_current: the state before the buffer is open.
ReadCurrent ==
  /\ main = "discover"
  /\ \E raw \in Raws : state' = FromInitial(raw)
  /\ main' = "publish"
  /\ UNCHANGED <<announced, running, name, thread, chan, open, iio,
                 stop>>

Publish ==
  /\ main = "publish"
  /\ name' = TRUE
  /\ main' = "announce"
  /\ UNCHANGED <<state, announced, running, thread, chan, open, iio,
                 stop>>

\* Slip: the loop begins without the initial signal.
AnnounceSilently ==
  /\ main = "announce"
  /\ running' = TRUE /\ open' = TRUE
  /\ reader' = "open"
  /\ main' = "select"
  /\ UNCHANGED <<state, announced, name, item, chan, iio, stop>>

\* The initial signal, then the reader thread starts and the loop begins.
Announce ==
  /\ main = "announce"
  /\ announced' = state
  /\ running' = TRUE /\ open' = TRUE
  /\ reader' = "open"
  /\ main' = "select"
  /\ UNCHANGED <<state, name, item, chan, iio, stop>>

StartupFails ==
  /\ main \in Startup
  /\ "discover" \in Faults
  /\ Gone /\ UNCHANGED excused

Kill ==
  /\ main # "off"
  /\ "kill" \in Faults
  /\ Gone /\ excused' = TRUE

-----------------------------------------------------------------------------
(* The main task *)

\* A branch of the select completes: the listener for SIGTERM is dropped with
\* what it holds.
DropListener == term' = FALSE

\* The loop ends: `running` is cleared and the reader is waited for.  recv()
\* never returns None in the loop: see ReaderEndIsHeard.
EndLoop ==
  /\ main' = "stopping"
  /\ running' = FALSE

ReceiveError ==
  /\ main = "select" /\ chan # <<>> /\ Head(chan) = Error
  /\ chan' = Tail(chan)
  /\ EndLoop /\ DropListener
  /\ UNCHANGED <<state, announced, name, thread, open, iio, asked>>

ReceiveUnmapped ==
  /\ main = "select" /\ chan # <<>>
  /\ \E raw \in Raws : Head(chan) = Sample(raw) /\ ~Mapped(raw)
  /\ chan' = Tail(chan)
  /\ DropListener
  /\ UNCHANGED <<main, state, announced, running, name, thread, open,
                 iio, asked>>

\* The state is written in any case, and announced if that changed it.
ReceiveMapped ==
  /\ main = "select" /\ chan # <<>>
  /\ \E raw \in Raws :
       /\ Head(chan) = Sample(raw) /\ Mapped(raw)
       /\ state' = Applied(raw)
       /\ main' = IF Changed(raw) THEN "emit" ELSE "select"
  /\ chan' = Tail(chan)
  /\ DropListener
  /\ UNCHANGED <<announced, running, name, thread, open, iio, asked>>

\* The property signals and PresenceChanged have been sent.
Emit ==
  /\ main = "emit"
  /\ announced' = state
  /\ main' = "select"
  /\ UNCHANGED <<state, running, name, thread, chan, open, iio, stop>>

EmitFails ==
  /\ main = "emit"
  /\ "dbus" \in Faults
  /\ EndLoop
  /\ UNCHANGED <<state, announced, name, thread, chan, open, iio, stop>>

ShutdownRequested ==
  /\ main = "select" /\ term
  /\ EndLoop /\ DropListener
  /\ UNCHANGED <<state, announced, name, thread, chan, open, iio,
                 asked>>

\* What can hold up the reader longer than two seconds: the device, while it is
\* opened or closed, or a full channel that nobody empties any more.  A reader
\* that waits for samples sees `running` within 250 ms.
ReaderIsLate ==
  \/ reader \in {"open", "close"}
  \/ reader \in {"send", "sendLast", "sendFailure"} /\ Len(chan) = ChannelCap

\* Slip: the reader is awaited without a time limit.
ReaderAwaitedForEver ==
  /\ main = "stopping"
  /\ reader = "done"
  /\ name' = FALSE
  /\ open' = FALSE
  /\ main' = "drain"
  /\ UNCHANGED <<state, announced, running, thread, chan, iio, stop>>

\* Slip: the receiver lives as long as the process.
ReaderAwaitedKeepsReceiver ==
  /\ main = "stopping"
  /\ reader = "done" \/ ReaderIsLate
  /\ name' = FALSE
  /\ main' = "drain"
  /\ UNCHANGED <<state, announced, running, thread, chan, open, iio, stop>>

\* time_out_reader returns because the reader has ended, or after two seconds.
\* The connection is dropped and run_daemon returns, which drops the receiver.
ReaderAwaited ==
  /\ main = "stopping"
  /\ reader = "done" \/ ReaderIsLate
  /\ name' = FALSE
  /\ open' = FALSE
  /\ main' = "drain"
  /\ UNCHANGED <<state, announced, running, thread, chan, iio, stop>>

\* Slip: the process exits without its reader thread.
RuntimeAborts ==
  /\ main = "drain"
  /\ Gone /\ UNCHANGED excused

\* The runtime is dropped when its blocking threads have ended.
RuntimeEnds ==
  /\ main = "drain" /\ reader = "done"
  /\ Gone /\ UNCHANGED excused

\* SIGTERM: before the loop the default action applies; at the select the
\* listener takes it; elsewhere no listener exists.
Sigterm ==
  /\ "sigterm" \in Faults
  /\ main # "off" /\ ~asked
  /\ \/ main \in Startup /\ Gone /\ UNCHANGED excused
     \/ /\ main \notin Startup
        /\ asked' = TRUE
        /\ term' = (main = "select")
        /\ UNCHANGED <<main, state, announced, running, name, thread, chan,
                       open, iio>>

-----------------------------------------------------------------------------
(* The reader thread *)

\* IioBuffer::open starts from a disabled buffer, whatever an earlier process
\* left behind.
OpenBuffer ==
  /\ reader = "open"
  /\ buffer' = TRUE /\ scan' = TRUE /\ excused' = FALSE
  /\ kbuf' = <<>> /\ accepted' = Nothing
  /\ reader' = "check"
  /\ UNCHANGED <<main, state, announced, running, name, item, chan, open,
                 stop>>

\* The writes of "0" by which a failed open is undone and a buffer closed.
\* Their results are ignored: when one fails, what it should have switched off
\* may stay enabled, and the process goes on as if it were not.
SwitchOff ==
  \/ buffer' = FALSE /\ scan' = FALSE /\ excused' = FALSE
  \/ /\ "cleanup" \in Faults
     /\ buffer' \in BOOLEAN /\ scan' \in BOOLEAN /\ excused' = TRUE

\* The first write fails, or the second, and the scan element is as it was;
\* enabling the buffer or opening the device fails and what was enabled is
\* switched off again; writing the length fails and the scan element stays
\* enabled.
OpenFails ==
  /\ reader = "open"
  /\ \/ /\ "open" \in Faults
        /\ buffer' \in {buffer, FALSE} /\ UNCHANGED <<scan, excused>>
     \/ "open" \in Faults /\ SwitchOff
     \/ /\ "length" \in Faults
        /\ buffer' = FALSE /\ scan' = TRUE /\ excused' = TRUE
  /\ item' = Error
  /\ reader' = "sendFailure"
  /\ UNCHANGED <<main, state, announced, running, name, chan, open,
                 kbuf, accepted, stop>>

CheckRunning ==
  /\ reader = "check"
  /\ reader' = IF running THEN "poll" ELSE "close"
  /\ UNCHANGED <<main, state, announced, running, name, item, chan, open,
                 iio, stop>>

PollTimesOut ==
  /\ reader = "poll" /\ kbuf = <<>>
  /\ reader' = "check"
  /\ UNCHANGED <<main, state, announced, running, name, item, chan, open,
                 iio, stop>>

ReadSample ==
  /\ reader = "poll" /\ kbuf # <<>>
  /\ item' = Sample(Head(kbuf))
  /\ kbuf' = Tail(kbuf)
  /\ reader' = "send"
  /\ UNCHANGED <<main, state, announced, running, name, chan, open,
                 buffer, scan, excused, accepted, stop>>

\* Slip: the reader ends without handing on its error.
ReadFailsSilently ==
  /\ reader = "poll"
  /\ "read" \in Faults
  /\ reader' = "close"
  /\ UNCHANGED <<main, state, announced, running, name, item, chan, open,
                 iio, stop>>

ReadFails ==
  /\ reader = "poll"
  /\ "read" \in Faults
  /\ item' = Error
  /\ reader' = "sendLast"
  /\ UNCHANGED <<main, state, announced, running, name, chan, open,
                 iio, stop>>

\* Slip: the channel takes results beyond its capacity.
SendUnbounded ==
  /\ reader \in {"send", "sendLast", "sendFailure"}
  /\ chan' = IF open THEN Append(chan, item) ELSE chan
  /\ item' = Nothing
  /\ reader' = IF reader = "sendFailure" THEN "done"
               ELSE IF reader = "send" /\ open THEN "check" ELSE "close"
  /\ UNCHANGED <<main, state, announced, running, name, open, iio,
                 stop>>

\* Slip: a result that finds the channel full is dropped (try_send).
SendLossy ==
  /\ reader \in {"send", "sendLast", "sendFailure"}
  /\ chan' = IF open /\ Len(chan) < ChannelCap THEN Append(chan, item)
                                              ELSE chan
  /\ item' = Nothing
  /\ reader' = IF reader = "sendFailure" THEN "done"
               ELSE IF reader = "send" /\ open THEN "check" ELSE "close"
  /\ UNCHANGED <<main, state, announced, running, name, open, iio,
                 stop>>

\* blocking_send waits for room and fails when the receiver is gone.  After
\* an error, and after a failed send, the reader ends; a reader that never
\* opened the buffer has none to close.
Send ==
  /\ reader \in {"send", "sendLast", "sendFailure"}
  /\ IF open THEN Len(chan) < ChannelCap /\ chan' = Append(chan, item)
             ELSE chan' = chan
  /\ item' = Nothing
  /\ reader' = IF reader = "sendFailure" THEN "done"
               ELSE IF reader = "send" /\ open THEN "check" ELSE "close"
  /\ UNCHANGED <<main, state, announced, running, name, open, iio,
                 stop>>

\* Drop of IioBuffer, then the thread ends and drops the sender.
CloseBuffer ==
  /\ reader = "close"
  /\ SwitchOff
  /\ kbuf' = <<>> /\ accepted' = Nothing
  /\ reader' = "done"
  /\ UNCHANGED <<main, state, announced, running, name, item, chan, open,
                 stop>>

-----------------------------------------------------------------------------
(* The sensor *)

\* A measurement; the kernel drops it when its buffer is full.
Measure ==
  /\ buffer /\ reader # "none" /\ Len(kbuf) < BufferLength
  /\ \E raw \in Raws : kbuf' = Append(kbuf, raw) /\ accepted' = Sample(raw)
  /\ UNCHANGED <<main, state, announced, running, name, thread, chan, open,
                 buffer, scan, excused, stop>>

-----------------------------------------------------------------------------
MainStep ==
  \/ ReadCurrent \/ Publish \/ Announce
  \/ ReceiveError \/ ReceiveUnmapped \/ ReceiveMapped \/ Emit
  \/ ReaderAwaited \/ RuntimeEnds

ReaderStep ==
  \/ OpenBuffer \/ CheckRunning \/ PollTimesOut \/ ReadSample \/ Send
  \/ CloseBuffer

Next ==
  \/ Start \/ StartupFails \/ Kill \/ Sigterm
  \/ MainStep \/ ShutdownRequested \/ EmitFails
  \/ ReaderStep \/ OpenFails \/ ReadFails
  \/ Measure

Spec == Init /\ [][Next]_vars

(* The main task and the reader thread are both scheduled, and a SIGTERM that *)
(* the listener holds is taken unless a sample is taken first.  Nothing is    *)
(* assumed of the sensor, of systemd or of the faults.                        *)
FairSpec ==
  /\ Spec
  /\ WF_vars(MainStep) /\ WF_vars(ReaderStep) /\ WF_vars(ShutdownRequested)

-----------------------------------------------------------------------------
\* Between two samples the clients have been told the state GetState answers:
\* no change of it stays unannounced, whichever of availability, presence and
\* raw value it was.
AnnouncedIsState == main = "select" => announced = state

\* Unmapped values "are logged for diagnostics but never published as a
\* presence transition" (README.md:85): what clients hear as available is a
\* mapped value with its own presence.
AnnouncedIsMapped ==
  announced.available =>
    /\ Mapped(announced.raw)
    /\ announced.present <=> announced.raw \in PresentValues

\* A reader that has ended while the loop runs has left an error in the
\* channel, behind whatever samples it sent: the loop ends with that error and
\* never with the None of a closed channel, after which the daemon would exit
\* with success and systemd would not restart it.
ReaderEndIsHeard ==
  main \in Serving /\ reader = "done" =>
    \E i \in 1..Len(chan) : chan[i] = Error

\* After every exit, on every error path, with the reader late or blocked and
\* whatever an earlier process left behind, buffer and scan element are disabled
\* (Drop of IioBuffer), unless the process was killed, could not write the
\* buffer length, or saw a write of its clean-up fail.
CleanExit == main = "off" /\ ~excused => ~buffer /\ ~scan

\* Nothing is on its way from the sensor to the state; or else the newest
\* sample that is, in the kernel buffer, with the reader, or in the channel.
Settled == kbuf = <<>> /\ item = Nothing /\ chan = <<>>
Newest  ==
  IF kbuf # <<>> THEN Sample(kbuf[Len(kbuf)])
  ELSE IF item # Nothing THEN item ELSE chan[Len(chan)]

\* While the reader works, the last sample the kernel took is neither lost nor
\* overtaken between the two flows: it is the newest on its way, and once
\* nothing is, the state is made of it, unless it is unmapped.
NewestSampleKept ==
  main \in Serving /\ reader \in {"check", "poll", "send"} /\ accepted # Nothing
    => IF Settled THEN Mapped(accepted.raw) => state = Applied(accepted.raw)
                  ELSE Newest = accepted

\* The reader has a step that waits for nobody.
ReaderMoves ==
  \/ reader \in {"open", "check", "poll", "close"}
  \/ /\ reader \in {"send", "sendLast", "sendFailure"}
     /\ open => Len(chan) < ChannelCap

\* Main task and reader never wait for each other: a main task without a
\* sample has a reader that works; one that stops has a reader to await, whose
\* blocking the time limit ends; and the runtime that is dropped waits only for
\* a reader that has ended or can.
FlowsAdvance ==
  /\ main = "select" => chan # <<>> \/ ReaderMoves
  /\ main = "stopping" => reader # "none"
  /\ main = "drain" => ReaderMoves \/ reader = "done"

\* The daemon is the service that Agent.tla takes it for: its name comes with a
\* state, every change of the state is told before the next one is made, and
\* nothing stays untold while the daemon runs.
ImplementsPresence == Published!FairSpec

\* Once the loop has ended the process ends, even when the reader is blocked on
\* a full channel or still opening the device: main and reader do not wait for
\* each other for ever.
StopCompletes == main = "stopping" ~> main = "off"

\* When the samples settle on a mapped value the published state settles on it,
\* whatever was queued in the kernel buffer and the channel before.
StateFollowsSensor ==
  \A raw \in PresentValues \cup AwayValues :
    <>[](main \in Serving /\ accepted = Sample(raw))
      => <>[](state = Applied(raw))

-----------------------------------------------------------------------------
(* Statements of the documentation *)

\* "RAII cleanup disables both buffer0/enable and the scan element before the
\* daemon exits" (docs/analysis.md:101), with no exception.
LeavesSysfsClean == main = "off" => ~buffer /\ ~scan

\* "The IIO reader uses a bounded poll timeout so SIGTERM can stop it cleanly"
\* (docs/analysis.md:101).
SigtermStops == asked ~> main = "off"
=============================================================================
