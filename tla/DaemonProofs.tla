----------------------------- MODULE DaemonProofs -----------------------------
(***************************************************************************)
(* Proofs about Daemon for every set of raw values and mappings, every     *)
(* buffer length and every channel capacity, and that it implements        *)
(* PresenceService: the safety part of ImplementsPresence.                 *)
(***************************************************************************)
EXTENDS Daemon, TLAPS

\* The CHOOSE of the blank state has something to choose.
LEMMA BlankState ==
  Blank \in PresenceState /\ ~Blank.available /\ ~Blank.present
<1>1. PICK raw \in Raws : TRUE
  BY DaemonAssumption
<1>2. /\ [available |-> FALSE, present |-> FALSE, raw |-> raw] \in PresenceState
      /\ ~[available |-> FALSE, present |-> FALSE, raw |-> raw].available
      /\ ~[available |-> FALSE, present |-> FALSE, raw |-> raw].present
  BY <1>1 DEF PresenceState
<1> QED
  BY <1>2 DEF Blank

-----------------------------------------------------------------------------
(* Types *)

\* The capacities are positive.
LEMMA Limits == BufferLength \in Nat \ {0} /\ ChannelCap \in Nat \ {0}
  BY DaemonAssumption

\* What the reader sends are results.
LEMMA Results == Error \in Result /\ \A raw \in Raws : Sample(raw) \in Result
  BY DEF Result

\* Empty queues are within their bounds.
LEMMA EmptyQueues ==
  /\ <<>> \in Seq(Result) /\ Len(<<>>) <= ChannelCap
  /\ <<>> \in Seq(Raws) /\ Len(<<>>) <= BufferLength
  BY Limits

\* Taking from a queue keeps its type and its bound.
LEMMA Dequeue ==
  ASSUME NEW S, NEW q \in Seq(S), q # <<>>, NEW n \in Nat, Len(q) <= n
  PROVE  Head(q) \in S /\ Tail(q) \in Seq(S) /\ Len(Tail(q)) <= n
  OBVIOUS

\* Adding to a queue with room keeps its type and its bound.
LEMMA Enqueue ==
  ASSUME NEW S, NEW q \in Seq(S), NEW x \in S, NEW n \in Nat, Len(q) < n
  PROVE  Append(q, x) \in Seq(S) /\ Len(Append(q, x)) <= n
  OBVIOUS

\* A reader that is about to send holds a result.
Typed ==
  /\ TypeOK
  /\ reader \in {"send", "sendLast", "sendFailure"} => item \in Result

\* Every step keeps the types.
LEMMA TypeStep == Typed /\ [Next]_vars => Typed'
<1> SUFFICES ASSUME Typed PROVE [Next]_vars => Typed'
  OBVIOUS
<1> USE DEF Typed, TypeOK, Startup, Serving, thread, iio, stop
<1>1. Start => Typed'
  BY DEF Start
<1>2. StartupFails => Typed'
  BY BlankState, EmptyQueues DEF StartupFails, Gone
<1>3. Kill => Typed'
  BY BlankState, EmptyQueues DEF Kill, Gone
<1>4. Sigterm => Typed'
  BY BlankState, EmptyQueues DEF Sigterm, Gone
<1>5. ReadCurrent => Typed'
  BY DEF ReadCurrent, FromInitial, Mapped, PresenceState
<1>6. Publish => Typed'
  BY DEF Publish
<1>7. Announce => Typed'
  BY DEF Announce
<1>8. ReceiveError => Typed'
  <2>1. chan # <<>> => Tail(chan) \in Seq(Result) /\ Len(Tail(chan)) <= ChannelCap
    BY Dequeue, Limits
  <2> QED
    BY <2>1 DEF ReceiveError, EndLoop, DropListener
<1>9. ReceiveUnmapped => Typed'
  <2>1. chan # <<>> => Tail(chan) \in Seq(Result) /\ Len(Tail(chan)) <= ChannelCap
    BY Dequeue, Limits
  <2> QED
    BY <2>1 DEF ReceiveUnmapped, DropListener
<1>10. ReceiveMapped => Typed'
  <2> SUFFICES ASSUME ReceiveMapped PROVE Typed'
    OBVIOUS
  <2>1. Tail(chan) \in Seq(Result) /\ Len(Tail(chan)) <= ChannelCap
    BY Dequeue, Limits DEF ReceiveMapped
  <2>2. state' \in PresenceState
    BY DEF ReceiveMapped, Applied, PresenceState
  <2>3. main' \in {"emit", "select"}
    BY DEF ReceiveMapped
  <2>4. chan' = Tail(chan) /\ term' = FALSE
    BY DEF ReceiveMapped, DropListener
  <2>5. UNCHANGED <<announced, running, name, reader, item, open, buffer,
                    scan, excused, kbuf, accepted, asked>>
    BY DEF ReceiveMapped
  <2>6. TypeOK'
    <3>1. /\ main' \in Startup \cup Serving /\ state' \in PresenceState
          /\ chan' \in Seq(Result) /\ Len(chan') <= ChannelCap
          /\ term' \in BOOLEAN
      BY <2>1, <2>2, <2>3, <2>4
    <3>2. /\ announced' \in PresenceState /\ running' \in BOOLEAN
          /\ name' \in BOOLEAN /\ open' \in BOOLEAN
          /\ asked' \in BOOLEAN /\ excused' \in BOOLEAN
          /\ buffer' \in BOOLEAN /\ scan' \in BOOLEAN
          /\ kbuf' \in Seq(Raws) /\ Len(kbuf') <= BufferLength
      BY <2>5
    <3>3. /\ reader' = reader /\ item' = item /\ accepted' = accepted
      BY <2>5
    <3> QED
      BY <3>1, <3>2, <3>3
  <2> QED
    BY <2>5, <2>6
<1>11. Emit => Typed'
  BY DEF Emit
<1>12. ReaderAwaited => Typed'
  BY DEF ReaderAwaited
<1>13. RuntimeEnds => Typed'
  BY BlankState, EmptyQueues DEF RuntimeEnds, Gone
<1>14. ShutdownRequested => Typed'
  BY DEF ShutdownRequested, EndLoop, DropListener
<1>15. EmitFails => Typed'
  BY DEF EmitFails, EndLoop
<1>16. OpenBuffer => Typed'
  BY EmptyQueues DEF OpenBuffer
<1>17. CheckRunning => Typed'
  BY DEF CheckRunning
<1>18. PollTimesOut => Typed'
  BY DEF PollTimesOut
<1>19. ReadSample => Typed'
  <2> SUFFICES ASSUME ReadSample PROVE Typed'
    OBVIOUS
  <2>1. /\ Head(kbuf) \in Raws
        /\ Tail(kbuf) \in Seq(Raws) /\ Len(Tail(kbuf)) <= BufferLength
    BY Dequeue, Limits DEF ReadSample
  <2> QED
    BY <2>1, Results DEF ReadSample
<1>20. Send => Typed'
  <2> SUFFICES ASSUME Send PROVE Typed'
    OBVIOUS
  <2>1. item \in Result
    BY DEF Send
  <2>2. chan' \in Seq(Result) /\ Len(chan') <= ChannelCap
    <3>1. CASE open
      BY <2>1, <3>1, Enqueue, Limits DEF Send
    <3>2. CASE ~open
      BY <3>2 DEF Send
    <3> QED
      BY <3>1, <3>2
  <2> QED
    BY <2>2 DEF Send
<1>21. CloseBuffer => Typed'
  BY EmptyQueues DEF CloseBuffer, SwitchOff
<1>22. OpenFails => Typed'
  BY Results DEF OpenFails, SwitchOff
<1>23. ReadFails => Typed'
  BY Results DEF ReadFails
<1>24. Measure => Typed'
  <2> SUFFICES ASSUME Measure PROVE Typed'
    OBVIOUS
  <2>1. PICK raw \in Raws :
          /\ Len(kbuf) < BufferLength
          /\ kbuf' = Append(kbuf, raw) /\ accepted' = Sample(raw)
    BY DEF Measure
  <2>2. kbuf' \in Seq(Raws) /\ Len(kbuf') <= BufferLength
    BY <2>1, Enqueue, Limits
  <2>3. accepted' \in {Sample(r) : r \in Raws} \cup {Nothing}
    BY <2>1
  <2> QED
    BY <2>1, <2>2, <2>3 DEF Measure
<1>25. UNCHANGED vars => Typed'
  BY DEF vars
<1> QED
  BY <1>1, <1>2, <1>3, <1>4, <1>5, <1>6, <1>7, <1>8, <1>9, <1>10, <1>11,
     <1>12, <1>13, <1>14, <1>15, <1>16, <1>17, <1>18, <1>19, <1>20,
     <1>21, <1>22, <1>23, <1>24, <1>25 DEF Next, MainStep, ReaderStep

\* The variables keep their types: the queues their bounds, the published
\* states their fields.
THEOREM TypeCorrect == Spec => []TypeOK
<1>1. Init => Typed
  BY BlankState, EmptyQueues DEF Init, Typed, TypeOK
<1>2. Typed /\ [Next]_vars => Typed'
  BY TypeStep
<1>3. Typed => TypeOK
  BY DEF Typed
<1> QED
  BY <1>1, <1>2, <1>3, PTL DEF Spec

-----------------------------------------------------------------------------
(* Announcements *)

\* Every step keeps the clients informed.
LEMMA AnnounceStep ==
  TypeOK /\ AnnouncedIsState /\ [Next]_vars
    => AnnouncedIsState'
<1> SUFFICES ASSUME TypeOK, AnnouncedIsState
             PROVE  [Next]_vars => AnnouncedIsState'
  OBVIOUS
<1> USE DEF AnnouncedIsState, thread, iio, stop
<1>1. Start => AnnouncedIsState'
  BY DEF Start
<1>2. StartupFails => AnnouncedIsState'
  BY DEF StartupFails, Gone, Startup
<1>3. Kill => AnnouncedIsState'
  BY DEF Kill, Gone
<1>4. Sigterm => AnnouncedIsState'
  BY DEF Sigterm, Gone, Startup
<1>5. ReadCurrent => AnnouncedIsState'
  BY DEF ReadCurrent
<1>6. Publish => AnnouncedIsState'
  BY DEF Publish
<1>7. Announce => AnnouncedIsState'
  BY DEF Announce
<1>8. ReceiveError => AnnouncedIsState'
  BY DEF ReceiveError, EndLoop
<1>9. ReceiveUnmapped => AnnouncedIsState'
  BY DEF ReceiveUnmapped
<1>10. ReceiveMapped => AnnouncedIsState'
  <2> SUFFICES ASSUME ReceiveMapped, main' = "select"
               PROVE  announced' = state'
    OBVIOUS
  <2>1. PICK raw \in Raws : state' = Applied(raw) /\ ~Changed(raw)
    BY DEF ReceiveMapped
  <2>2. state \in PresenceState /\ announced' = state
    BY DEF ReceiveMapped, TypeOK
  <2>3. state = [available |-> state.available, present |-> state.present,
                 raw |-> state.raw]
    BY <2>2 DEF PresenceState
  <2>4. /\ state.available = TRUE /\ state.raw = raw
        /\ state.present = (raw \in PresentValues)
    BY <2>1, <2>2 DEF Changed, PresenceState
  <2> QED
    BY <2>1, <2>2, <2>3, <2>4 DEF Applied
<1>11. Emit => AnnouncedIsState'
  BY DEF Emit
<1>12. ReaderAwaited => AnnouncedIsState'
  BY DEF ReaderAwaited
<1>13. RuntimeEnds => AnnouncedIsState'
  BY DEF RuntimeEnds, Gone
<1>14. ShutdownRequested => AnnouncedIsState'
  BY DEF ShutdownRequested, EndLoop
<1>15. EmitFails => AnnouncedIsState'
  BY DEF EmitFails, EndLoop
<1>16. OpenBuffer => AnnouncedIsState'
  BY DEF OpenBuffer
<1>17. CheckRunning => AnnouncedIsState'
  BY DEF CheckRunning
<1>18. PollTimesOut => AnnouncedIsState'
  BY DEF PollTimesOut
<1>19. ReadSample => AnnouncedIsState'
  BY DEF ReadSample
<1>20. Send => AnnouncedIsState'
  BY DEF Send
<1>21. CloseBuffer => AnnouncedIsState'
  BY DEF CloseBuffer
<1>22. OpenFails => AnnouncedIsState'
  BY DEF OpenFails
<1>23. ReadFails => AnnouncedIsState'
  BY DEF ReadFails
<1>24. Measure => AnnouncedIsState'
  BY DEF Measure
<1>25. UNCHANGED vars => AnnouncedIsState'
  BY DEF vars
<1> QED
  BY <1>1, <1>2, <1>3, <1>4, <1>5, <1>6, <1>7, <1>8, <1>9, <1>10, <1>11,
     <1>12, <1>13, <1>14, <1>15, <1>16, <1>17, <1>18, <1>19, <1>20,
     <1>21, <1>22, <1>23, <1>24, <1>25 DEF Next, MainStep, ReaderStep

\* At every select the clients know the state GetState answers.
THEOREM StateIsAnnounced == Spec => []AnnouncedIsState
<1>1. Init => AnnouncedIsState
  BY DEF Init, AnnouncedIsState
<1>2. TypeOK /\ AnnouncedIsState /\ [Next]_vars => AnnouncedIsState'
  BY AnnounceStep
<1> QED
  BY <1>1, <1>2, TypeCorrect, PTL DEF Spec

MappedState(s) ==
  s.available => /\ Mapped(s.raw)
                 /\ s.present <=> s.raw \in PresentValues

\* What is announced was the state, so the state is mapped as well.
StatesMapped == MappedState(state) /\ MappedState(announced)

\* Every step keeps the states mapped.
LEMMA MappedStep == StatesMapped /\ [Next]_vars => StatesMapped'
<1> SUFFICES ASSUME StatesMapped PROVE [Next]_vars => StatesMapped'
  OBVIOUS
<1> USE DEF StatesMapped, MappedState, thread, iio, stop
<1>1. Start => StatesMapped'
  BY DEF Start
<1>2. StartupFails => StatesMapped'
  BY BlankState DEF StartupFails, Gone
<1>3. Kill => StatesMapped'
  BY BlankState DEF Kill, Gone
<1>4. Sigterm => StatesMapped'
  BY BlankState DEF Sigterm, Gone
<1>5. ReadCurrent => StatesMapped'
  <2> SUFFICES ASSUME ReadCurrent PROVE StatesMapped'
    OBVIOUS
  <2>1. PICK raw \in Raws : state' = FromInitial(raw)
    BY DEF ReadCurrent
  <2>2. /\ state'.available => Mapped(raw)
        /\ state'.raw = raw
        /\ state'.present <=> raw \in PresentValues
    BY <2>1 DEF FromInitial
  <2>3. MappedState(announced)'
    BY DEF ReadCurrent
  <2> QED
    BY <2>1, <2>2, <2>3
<1>6. Publish => StatesMapped'
  BY DEF Publish
<1>7. Announce => StatesMapped'
  BY DEF Announce
<1>8. ReceiveError => StatesMapped'
  BY DEF ReceiveError, EndLoop
<1>9. ReceiveUnmapped => StatesMapped'
  BY DEF ReceiveUnmapped
<1>10. ReceiveMapped => StatesMapped'
  <2> SUFFICES ASSUME ReceiveMapped PROVE StatesMapped'
    OBVIOUS
  <2>1. PICK raw \in Raws : state' = Applied(raw) /\ Mapped(raw)
    BY DEF ReceiveMapped
  <2>2. MappedState(announced)'
    BY DEF ReceiveMapped
  <2>3. state'.raw = raw /\ (state'.present <=> raw \in PresentValues)
    BY <2>1 DEF Applied
  <2> QED
    BY <2>1, <2>2, <2>3
<1>11. Emit => StatesMapped'
  BY DEF Emit
<1>12. ReaderAwaited => StatesMapped'
  BY DEF ReaderAwaited
<1>13. RuntimeEnds => StatesMapped'
  BY BlankState DEF RuntimeEnds, Gone
<1>14. ShutdownRequested => StatesMapped'
  BY DEF ShutdownRequested, EndLoop
<1>15. EmitFails => StatesMapped'
  BY DEF EmitFails, EndLoop
<1>16. OpenBuffer => StatesMapped'
  BY DEF OpenBuffer
<1>17. CheckRunning => StatesMapped'
  BY DEF CheckRunning
<1>18. PollTimesOut => StatesMapped'
  BY DEF PollTimesOut
<1>19. ReadSample => StatesMapped'
  BY DEF ReadSample
<1>20. Send => StatesMapped'
  BY DEF Send
<1>21. CloseBuffer => StatesMapped'
  BY DEF CloseBuffer
<1>22. OpenFails => StatesMapped'
  BY DEF OpenFails
<1>23. ReadFails => StatesMapped'
  BY DEF ReadFails
<1>24. Measure => StatesMapped'
  BY DEF Measure
<1>25. UNCHANGED vars => StatesMapped'
  BY DEF vars
<1> QED
  BY <1>1, <1>2, <1>3, <1>4, <1>5, <1>6, <1>7, <1>8, <1>9, <1>10, <1>11,
     <1>12, <1>13, <1>14, <1>15, <1>16, <1>17, <1>18, <1>19, <1>20,
     <1>21, <1>22, <1>23, <1>24, <1>25 DEF Next, MainStep, ReaderStep

\* Only mapped values are heard as available, with their own presence.
THEOREM OnlyMappedIsAnnounced == Spec => []AnnouncedIsMapped
<1>1. Init => StatesMapped
  BY BlankState DEF Init, StatesMapped, MappedState
<1>2. StatesMapped /\ [Next]_vars => StatesMapped'
  BY MappedStep
<1>3. StatesMapped => AnnouncedIsMapped
  BY DEF StatesMapped, MappedState, AnnouncedIsMapped
<1> QED
  BY <1>1, <1>2, <1>3, PTL DEF Spec

-----------------------------------------------------------------------------
(* The end of the reader *)

ErrorQueued == \E i \in 1..Len(chan) : chan[i] = Error

\* While the loop runs the reader is asked to run and can send, and it leaves
\* its loop only with an error behind it in the channel.
EndHeard ==
  /\ main \in Serving => running /\ open
  /\ reader \in {"sendLast", "sendFailure"} => item = Error
  /\ main \in Serving /\ reader \in {"close", "done"} => ErrorQueued

\* Taking a sample leaves an error that waits behind it.
LEMMA SampleDequeued ==
  ASSUME NEW q \in Seq(Result), q # <<>>, NEW raw \in Raws,
         Head(q) = Sample(raw), \E i \in 1..Len(q) : q[i] = Error
  PROVE  \E i \in 1..Len(Tail(q)) : Tail(q)[i] = Error
<1>1. PICK i \in 1..Len(q) : q[i] = Error
  OBVIOUS
<1>2. Sample(raw) # Error
  <2>1. Sample(raw).kind # Error.kind
    BY DEF Sample, Error
  <2> QED
    BY <2>1
<1>3. i # 1
  BY <1>1, <1>2
<1>4. i - 1 \in 1..Len(Tail(q)) /\ Tail(q)[i - 1] = q[i]
  BY <1>3
<1> QED
  BY <1>1, <1>4

\* Every step keeps the error of a reader that ends.
LEMMA EndStep == Typed /\ EndHeard /\ [Next]_vars => EndHeard'
<1> SUFFICES ASSUME Typed, EndHeard PROVE [Next]_vars => EndHeard'
  OBVIOUS
<1> USE DEF EndHeard, Serving, Startup, thread, iio, stop
<1>1. Start => EndHeard'
  BY DEF Start, ErrorQueued
<1>2. StartupFails => EndHeard'
  BY DEF StartupFails, Gone, ErrorQueued
<1>3. Kill => EndHeard'
  BY DEF Kill, Gone, ErrorQueued
<1>4. Sigterm => EndHeard'
  BY DEF Sigterm, Gone, ErrorQueued
<1>5. ReadCurrent => EndHeard'
  BY DEF ReadCurrent, ErrorQueued
<1>6. Publish => EndHeard'
  BY DEF Publish, ErrorQueued
<1>7. Announce => EndHeard'
  BY DEF Announce, ErrorQueued
<1>8. ReceiveError => EndHeard'
  BY DEF ReceiveError, EndLoop, ErrorQueued
<1>9. ReceiveUnmapped => EndHeard'
  <2> SUFFICES ASSUME ReceiveUnmapped PROVE EndHeard'
    OBVIOUS
  <2>1. PICK raw \in Raws : chan # <<>> /\ Head(chan) = Sample(raw)
    BY DEF ReceiveUnmapped
  <2>2. ErrorQueued => ErrorQueued'
    BY <2>1, SampleDequeued DEF ReceiveUnmapped, ErrorQueued, Typed, TypeOK
  <2> QED
    BY <2>2 DEF ReceiveUnmapped
<1>10. ReceiveMapped => EndHeard'
  <2> SUFFICES ASSUME ReceiveMapped PROVE EndHeard'
    OBVIOUS
  <2>1. PICK raw \in Raws : chan # <<>> /\ Head(chan) = Sample(raw)
    BY DEF ReceiveMapped
  <2>2. ErrorQueued => ErrorQueued'
    BY <2>1, SampleDequeued DEF ReceiveMapped, ErrorQueued, Typed, TypeOK
  <2>3. main = "select" /\ main' \in Serving
    BY DEF ReceiveMapped
  <2> QED
    BY <2>2, <2>3 DEF ReceiveMapped
<1>11. Emit => EndHeard'
  BY DEF Emit, ErrorQueued
<1>12. ReaderAwaited => EndHeard'
  BY DEF ReaderAwaited, ErrorQueued
<1>13. RuntimeEnds => EndHeard'
  BY DEF RuntimeEnds, Gone, ErrorQueued
<1>14. ShutdownRequested => EndHeard'
  BY DEF ShutdownRequested, EndLoop, ErrorQueued
<1>15. EmitFails => EndHeard'
  BY DEF EmitFails, EndLoop, ErrorQueued
<1>16. OpenBuffer => EndHeard'
  BY DEF OpenBuffer, ErrorQueued
<1>17. CheckRunning => EndHeard'
  BY DEF CheckRunning, ErrorQueued
<1>18. PollTimesOut => EndHeard'
  BY DEF PollTimesOut, ErrorQueued
<1>19. ReadSample => EndHeard'
  BY DEF ReadSample, ErrorQueued
<1>20. Send => EndHeard'
  <2> SUFFICES ASSUME Send, main \in Serving PROVE EndHeard'
    BY DEF Send
  <2>1. open /\ chan' = Append(chan, item)
    BY DEF Send
  <2>2. chan \in Seq(Result) /\ item \in Result
    BY DEF Send, Typed, TypeOK
  <2>3. ErrorQueued => ErrorQueued'
    BY <2>1, <2>2 DEF ErrorQueued
  <2>4. item = Error => ErrorQueued'
    BY <2>1, <2>2 DEF ErrorQueued
  <2>5. reader' \in {"close", "done"} => item = Error
    BY <2>1 DEF Send
  <2> QED
    BY <2>1, <2>4, <2>5 DEF Send
<1>21. CloseBuffer => EndHeard'
  BY DEF CloseBuffer, ErrorQueued
<1>22. OpenFails => EndHeard'
  BY DEF OpenFails, ErrorQueued
<1>23. ReadFails => EndHeard'
  BY DEF ReadFails, ErrorQueued
<1>24. Measure => EndHeard'
  BY DEF Measure, ErrorQueued
<1>25. UNCHANGED vars => EndHeard'
  BY DEF vars, ErrorQueued
<1> QED
  BY <1>1, <1>2, <1>3, <1>4, <1>5, <1>6, <1>7, <1>8, <1>9, <1>10, <1>11,
     <1>12, <1>13, <1>14, <1>15, <1>16, <1>17, <1>18, <1>19, <1>20, <1>21, <1>22,
     <1>23, <1>24, <1>25 DEF Next, MainStep, ReaderStep

\* A reader that ends while the daemon serves has left its error in the
\* channel, so that the loop never meets a closed channel.
THEOREM ReaderEndHeard == Spec => []ReaderEndIsHeard
<1>1. Init => Typed /\ EndHeard
  BY BlankState, EmptyQueues DEF Init, EndHeard, Serving, Typed, TypeOK
<1>2. Typed /\ EndHeard /\ [Next]_vars => Typed' /\ EndHeard'
  BY TypeStep, EndStep
<1>3. EndHeard => ReaderEndIsHeard
  BY DEF EndHeard, ErrorQueued, ReaderEndIsHeard
<1> QED
  BY <1>1, <1>2, <1>3, PTL DEF Spec

-----------------------------------------------------------------------------
(* The clean exit *)

\* Whatever is enabled is an excused left-over or belongs to a reader that will
\* close it, and there is no reader before the loop and none without a process.
BufferHasReader ==
  /\ (buffer \/ scan) /\ ~excused
       => reader \in {"check", "poll", "send", "sendLast", "close"}
  /\ main \in {"off"} \cup Startup => reader = "none"

\* Every step leaves what is enabled to a reader that closes it.
LEMMA ReaderStepsClean ==
  TypeOK /\ BufferHasReader /\ [Next]_vars => BufferHasReader'
<1> SUFFICES ASSUME TypeOK, BufferHasReader
             PROVE  [Next]_vars => BufferHasReader'
  OBVIOUS
<1> USE DEF BufferHasReader, Startup, thread, iio, stop
<1>1. Start => BufferHasReader'
  BY DEF Start
<1>2. StartupFails => BufferHasReader'
  BY DEF StartupFails, Gone
<1>3. Kill => BufferHasReader'
  BY DEF Kill, Gone
<1>4. Sigterm => BufferHasReader'
  BY DEF Sigterm, Gone
<1>5. ReadCurrent => BufferHasReader'
  BY DEF ReadCurrent
<1>6. Publish => BufferHasReader'
  BY DEF Publish
<1>7. Announce => BufferHasReader'
  BY DEF Announce
<1>8. ReceiveError => BufferHasReader'
  BY DEF ReceiveError, EndLoop
<1>9. ReceiveUnmapped => BufferHasReader'
  BY DEF ReceiveUnmapped
<1>10. ReceiveMapped => BufferHasReader'
  BY DEF ReceiveMapped
<1>11. Emit => BufferHasReader'
  BY DEF Emit
<1>12. ReaderAwaited => BufferHasReader'
  BY DEF ReaderAwaited
<1>13. RuntimeEnds => BufferHasReader'
  BY DEF RuntimeEnds, Gone
<1>14. ShutdownRequested => BufferHasReader'
  BY DEF ShutdownRequested, EndLoop
<1>15. EmitFails => BufferHasReader'
  BY DEF EmitFails, EndLoop
<1>16. OpenBuffer => BufferHasReader'
  BY DEF OpenBuffer
<1>17. CheckRunning => BufferHasReader'
  BY DEF CheckRunning
<1>18. PollTimesOut => BufferHasReader'
  BY DEF PollTimesOut
<1>19. ReadSample => BufferHasReader'
  BY DEF ReadSample
<1>20. Send => BufferHasReader'
  BY DEF Send
<1>21. CloseBuffer => BufferHasReader'
  BY DEF CloseBuffer, SwitchOff
<1>22. OpenFails => BufferHasReader'
  <2>1. SUFFICES ASSUME OpenFails PROVE BufferHasReader'
    OBVIOUS
  <2>2. reader = "open" /\ reader' = "sendFailure" /\ main' = main
    BY <2>1 DEF OpenFails
  <2>3. \/ buffer' \in {buffer, FALSE} /\ scan' = scan /\ excused' = excused
        \/ ~buffer' /\ ~scan'
        \/ excused'
    BY <2>1 DEF OpenFails, SwitchOff
  <2>4. CASE buffer' \in {buffer, FALSE} /\ scan' = scan /\ excused' = excused
    <3>1. (buffer' \/ scan') => (buffer \/ scan)
      BY <2>4, Zenon
    <3>2. ~excused' => ~excused
      BY <2>4, Zenon
    <3>3. ~((buffer \/ scan) /\ ~excused)
      BY <2>2
    <3> QED
      BY <2>2, <3>1, <3>2, <3>3
  <2> QED
    BY <2>2, <2>3, <2>4
<1>23. ReadFails => BufferHasReader'
  BY DEF ReadFails
<1>24. Measure => BufferHasReader'
  BY DEF Measure
<1>25. UNCHANGED vars => BufferHasReader'
  BY DEF vars
<1> QED
  BY <1>1, <1>2, <1>3, <1>4, <1>5, <1>6, <1>7, <1>8, <1>9, <1>10, <1>11,
     <1>12, <1>13, <1>14, <1>15, <1>16, <1>17, <1>18, <1>19, <1>20,
     <1>21, <1>22, <1>23, <1>24, <1>25 DEF Next, MainStep, ReaderStep

\* The process leaves sysfs clean on every path on which its writes of the
\* clean-up, if it lives to make them, succeed: whatever else fails, whoever
\* waits for whom, and whatever an earlier process left behind.  The exception
\* that no clean-up covers is a failing write of the buffer length.
THEOREM ExitsClean == Spec => []CleanExit
<1>1. Init => BufferHasReader
  BY DEF Init, BufferHasReader
<1>2. TypeOK /\ BufferHasReader /\ [Next]_vars => BufferHasReader'
  BY ReaderStepsClean
<1>3. BufferHasReader => CleanExit
  BY DEF BufferHasReader, CleanExit
<1> QED
  BY <1>1, <1>2, <1>3, TypeCorrect, PTL DEF Spec
-----------------------------------------------------------------------------
(* Main task and reader never wait for each other *)

\* From the loop on there is a reader, and a runtime that is dropped has no
\* receiver left to block it.
ReaderAwaitable ==
  /\ main \in Serving \cup {"stopping", "drain"} => reader # "none"
  /\ main = "drain" => ~open

\* Every step keeps the reader there for the main task.
LEMMA AwaitableStep ==
  TypeOK /\ ReaderAwaitable /\ [Next]_vars => ReaderAwaitable'
<1> SUFFICES ASSUME TypeOK, ReaderAwaitable
             PROVE  [Next]_vars => ReaderAwaitable'
  OBVIOUS
<1> USE DEF TypeOK, ReaderAwaitable, Serving, Startup, thread, iio, stop
<1>1. Start => ReaderAwaitable'
  BY DEF Start
<1>2. StartupFails => ReaderAwaitable'
  BY DEF StartupFails, Gone
<1>3. Kill => ReaderAwaitable'
  BY DEF Kill, Gone
<1>4. Sigterm => ReaderAwaitable'
  BY DEF Sigterm, Gone
<1>5. ReadCurrent => ReaderAwaitable'
  BY DEF ReadCurrent
<1>6. Publish => ReaderAwaitable'
  BY DEF Publish
<1>7. Announce => ReaderAwaitable'
  BY DEF Announce
<1>8. ReceiveError => ReaderAwaitable'
  BY DEF ReceiveError, EndLoop
<1>9. ReceiveUnmapped => ReaderAwaitable'
  BY DEF ReceiveUnmapped
<1>10. ReceiveMapped => ReaderAwaitable'
  BY DEF ReceiveMapped
<1>11. Emit => ReaderAwaitable'
  BY DEF Emit
<1>12. ReaderAwaited => ReaderAwaitable'
  BY DEF ReaderAwaited
<1>13. RuntimeEnds => ReaderAwaitable'
  BY DEF RuntimeEnds, Gone
<1>14. ShutdownRequested => ReaderAwaitable'
  BY DEF ShutdownRequested, EndLoop
<1>15. EmitFails => ReaderAwaitable'
  BY DEF EmitFails, EndLoop
<1>16. OpenBuffer => ReaderAwaitable'
  BY DEF OpenBuffer
<1>17. CheckRunning => ReaderAwaitable'
  BY DEF CheckRunning
<1>18. PollTimesOut => ReaderAwaitable'
  BY DEF PollTimesOut
<1>19. ReadSample => ReaderAwaitable'
  BY DEF ReadSample
<1>20. Send => ReaderAwaitable'
  BY DEF Send
<1>21. CloseBuffer => ReaderAwaitable'
  BY DEF CloseBuffer
<1>22. OpenFails => ReaderAwaitable'
  BY DEF OpenFails
<1>23. ReadFails => ReaderAwaitable'
  BY DEF ReadFails
<1>24. Measure => ReaderAwaitable'
  BY DEF Measure
<1>25. UNCHANGED vars => ReaderAwaitable'
  BY DEF vars
<1> QED
  BY <1>1, <1>2, <1>3, <1>4, <1>5, <1>6, <1>7, <1>8, <1>9, <1>10, <1>11,
     <1>12, <1>13, <1>14, <1>15, <1>16, <1>17, <1>18, <1>19, <1>20,
     <1>21, <1>22, <1>23, <1>24, <1>25 DEF Next, MainStep, ReaderStep

\* No reachable state has the two flows waiting for each other: a channel that
\* is empty with its sender gone, a reader that is awaited and was never
\* started, or one that the dropped runtime would wait for while it is blocked.
THEOREM FlowsDoNotBlock == Spec => []FlowsAdvance
<1>1. Init => Typed /\ EndHeard /\ ReaderAwaitable
  BY BlankState, EmptyQueues
     DEF Init, EndHeard, ReaderAwaitable, Serving, Typed, TypeOK
<1>2. Typed /\ EndHeard /\ ReaderAwaitable /\ [Next]_vars
        => Typed' /\ EndHeard' /\ ReaderAwaitable'
  BY TypeStep, EndStep, AwaitableStep DEF Typed
<1>3. Typed /\ EndHeard /\ ReaderAwaitable => FlowsAdvance
  <2> SUFFICES ASSUME Typed, EndHeard, ReaderAwaitable PROVE FlowsAdvance
    OBVIOUS
  <2>1. main = "select" => chan # <<>> \/ ReaderMoves
    <3> SUFFICES ASSUME main = "select", chan = <<>> PROVE ReaderMoves
      OBVIOUS
    <3>1. Len(chan) < ChannelCap
      BY Limits
    <3>2. ~ErrorQueued
      BY DEF ErrorQueued
    <3>3. reader \notin {"none", "done"}
      BY <3>2 DEF EndHeard, ReaderAwaitable, Serving
    <3> QED
      BY <3>1, <3>3 DEF ReaderMoves, Typed, TypeOK
  <2>2. main = "stopping" => reader # "none"
    BY DEF ReaderAwaitable
  <2>3. main = "drain" => ReaderMoves \/ reader = "done"
    BY DEF ReaderAwaitable, ReaderMoves, Typed, TypeOK
  <2> QED
    BY <2>1, <2>2, <2>3 DEF FlowsAdvance
<1> QED
  BY <1>1, <1>2, <1>3, PTL DEF Spec

-----------------------------------------------------------------------------
(* The newest sample on its way *)

\* The last element of a queue is the last of its tail, if there is one, and
\* what was appended last.
LEMMA LastOfTail ==
  ASSUME NEW S, NEW q \in Seq(S), q # <<>>
  PROVE  /\ Len(q) \in Nat \ {0}
         /\ Tail(q) # <<>> => Tail(q)[Len(Tail(q))] = q[Len(q)]
         /\ Tail(q) = <<>> => q[Len(q)] = Head(q)
<1>1. /\ Len(q) \in Nat \ {0}
      /\ Tail(q) \in Seq(S) /\ Len(Tail(q)) = Len(q) - 1
      /\ \A i \in 1..Len(Tail(q)) : Tail(q)[i] = q[i + 1]
  OBVIOUS
<1>2. Tail(q) # <<>> => Len(Tail(q)) \in 1..Len(Tail(q))
  BY <1>1
<1>3. Tail(q) = <<>> => Len(q) = 1
  <2>1. Tail(q) = <<>> => Len(Tail(q)) = 0
    <3>1. Len(<<>>) = 0
      OBVIOUS
    <3> QED
      BY <3>1, Zenon
  <2> QED
    BY <1>1, <2>1
<1> QED
  BY <1>1, <1>2, <1>3

LEMMA LastOfAppend ==
  ASSUME NEW S, NEW q \in Seq(S), NEW x \in S
  PROVE  Append(q, x) # <<>> /\ Append(q, x)[Len(Append(q, x))] = x
OBVIOUS

\* A sample tells its raw value, and is neither the absence of a result nor an
\* error.
LEMMA SampleFields ==
  ASSUME NEW raw
  PROVE  /\ Sample(raw).raw = raw
         /\ Sample(raw) # Nothing /\ Sample(raw) # Error
<1>1. /\ Sample(raw).kind = "sample"
      /\ Nothing.kind = "nothing" /\ Error.kind = "error"
  BY DEF Sample, Nothing, Error
<1> QED
  BY <1>1 DEF Sample

\* The reader holds an item only from reading it to sending it.
ItemHeld ==
  /\ reader \in {"none", "open", "check", "poll"} => item = Nothing
  /\ reader = "send" => item \in {Sample(raw) : raw \in Raws}

\* Every step keeps the item with the place of the reader.
LEMMA ItemStep ==
  Typed /\ BufferHasReader /\ ItemHeld /\ [Next]_vars => ItemHeld'
<1> SUFFICES ASSUME Typed, BufferHasReader, ItemHeld
             PROVE  [Next]_vars => ItemHeld'
  OBVIOUS
<1> USE DEF ItemHeld, thread, iio, stop
<1>1. Start => ItemHeld'
  BY DEF Start
<1>2. StartupFails => ItemHeld'
  BY DEF StartupFails, Gone
<1>3. Kill => ItemHeld'
  BY DEF Kill, Gone
<1>4. Sigterm => ItemHeld'
  BY DEF Sigterm, Gone
<1>5. ReadCurrent => ItemHeld'
  BY DEF ReadCurrent
<1>6. Publish => ItemHeld'
  BY DEF Publish
<1>7. Announce => ItemHeld'
  BY DEF Announce, BufferHasReader, Startup
<1>8. ReceiveError => ItemHeld'
  BY DEF ReceiveError, EndLoop
<1>9. ReceiveUnmapped => ItemHeld'
  BY DEF ReceiveUnmapped
<1>10. ReceiveMapped => ItemHeld'
  BY DEF ReceiveMapped
<1>11. Emit => ItemHeld'
  BY DEF Emit
<1>12. ReaderAwaited => ItemHeld'
  BY DEF ReaderAwaited
<1>13. RuntimeEnds => ItemHeld'
  BY DEF RuntimeEnds, Gone
<1>14. ShutdownRequested => ItemHeld'
  BY DEF ShutdownRequested, EndLoop
<1>15. EmitFails => ItemHeld'
  BY DEF EmitFails, EndLoop
<1>16. OpenBuffer => ItemHeld'
  BY DEF OpenBuffer
<1>17. CheckRunning => ItemHeld'
  BY DEF CheckRunning
<1>18. PollTimesOut => ItemHeld'
  BY DEF PollTimesOut
<1>19. ReadSample => ItemHeld'
  <2> SUFFICES ASSUME ReadSample PROVE ItemHeld'
    OBVIOUS
  <2>1. Head(kbuf) \in Raws
    BY Dequeue, Limits DEF ReadSample, Typed, TypeOK
  <2> QED
    BY <2>1 DEF ReadSample
<1>20. Send => ItemHeld'
  BY DEF Send
<1>21. CloseBuffer => ItemHeld'
  BY DEF CloseBuffer
<1>22. OpenFails => ItemHeld'
  BY DEF OpenFails
<1>23. ReadFails => ItemHeld'
  BY DEF ReadFails
<1>24. Measure => ItemHeld'
  BY DEF Measure
<1>25. UNCHANGED vars => ItemHeld'
  BY DEF vars
<1> QED
  BY <1>1, <1>2, <1>3, <1>4, <1>5, <1>6, <1>7, <1>8, <1>9, <1>10, <1>11,
     <1>12, <1>13, <1>14, <1>15, <1>16, <1>17, <1>18, <1>19, <1>20,
     <1>21, <1>22, <1>23, <1>24, <1>25 DEF Next, MainStep, ReaderStep

\* The loop runs and the reader works.
Flowing == main \in Serving /\ reader \in {"check", "poll", "send"}

SampleKept ==
  IF Settled THEN Mapped(accepted.raw) => state = Applied(accepted.raw)
             ELSE Newest = accepted

\* Every step keeps the newest sample.
LEMMA NewestStep ==
  Typed /\ EndHeard /\ ItemHeld /\ NewestSampleKept /\ [Next]_vars
    => NewestSampleKept'
<1> SUFFICES ASSUME Typed, EndHeard, ItemHeld, NewestSampleKept
             PROVE  [Next]_vars => NewestSampleKept'
  OBVIOUS
<1> USE DEF NewestSampleKept, Settled, Newest, Serving, thread, iio, stop
<1>1. Start => NewestSampleKept'
  BY DEF Start
<1>2. StartupFails => NewestSampleKept'
  BY DEF StartupFails, Gone
<1>3. Kill => NewestSampleKept'
  BY DEF Kill, Gone
<1>4. Sigterm => NewestSampleKept'
  BY DEF Sigterm, Gone, Startup
<1>5. ReadCurrent => NewestSampleKept'
  BY DEF ReadCurrent
<1>6. Publish => NewestSampleKept'
  BY DEF Publish
<1>7. Announce => NewestSampleKept'
  BY DEF Announce
<1>8. ReceiveError => NewestSampleKept'
  BY DEF ReceiveError, EndLoop
<1>9. ReceiveUnmapped => NewestSampleKept'
  <2> SUFFICES ASSUME ReceiveUnmapped, Flowing', accepted' # Nothing
               PROVE  SampleKept'
    BY DEF NewestSampleKept, Flowing, SampleKept
  <2>1. PICK raw \in Raws : /\ chan # <<>> /\ Head(chan) = Sample(raw)
                           /\ ~Mapped(raw)
    BY DEF ReceiveUnmapped
  <2>2. UNCHANGED <<kbuf, item, accepted>> /\ chan' = Tail(chan)
    BY DEF ReceiveUnmapped
  <2>3. ~Settled /\ Newest = accepted
    BY <2>1, <2>2
       DEF ReceiveUnmapped, Flowing, Settled, SampleKept, NewestSampleKept
  <2>4. CASE kbuf # <<>> \/ item # Nothing
    BY <2>2, <2>3, <2>4 DEF SampleKept, Settled, Newest
  <2>5. CASE kbuf = <<>> /\ item = Nothing
    <3>1. accepted = chan[Len(chan)]
      BY <2>3, <2>5 DEF Newest
    <3>2. Tail(chan) # <<>> => Tail(chan)[Len(Tail(chan))] = accepted
      BY <2>1, <3>1, LastOfTail DEF Typed, TypeOK
    <3>3. Tail(chan) = <<>> => accepted = Sample(raw)
      BY <2>1, <3>1, LastOfTail DEF Typed, TypeOK
    <3>4. CASE Tail(chan) # <<>>
      BY <2>2, <2>5, <3>2, <3>4 DEF SampleKept, Settled, Newest
    <3>5. CASE Tail(chan) = <<>>
      <4>1. accepted'.raw = raw
        BY <2>2, <3>3, <3>5, SampleFields
      <4>2. Settled'
        BY <2>2, <2>5, <3>5 DEF Settled
      <4> QED
        BY <2>1, <4>1, <4>2 DEF SampleKept, Mapped
    <3> QED
      BY <3>4, <3>5
  <2> QED
    BY <2>4, <2>5
<1>10. ReceiveMapped => NewestSampleKept'
  <2> SUFFICES ASSUME ReceiveMapped, Flowing', accepted' # Nothing
               PROVE  SampleKept'
    BY DEF NewestSampleKept, Flowing, SampleKept
  <2>1. PICK raw \in Raws : /\ chan # <<>> /\ Head(chan) = Sample(raw)
                           /\ state' = Applied(raw)
    BY DEF ReceiveMapped
  <2>2. UNCHANGED <<kbuf, item, accepted>> /\ chan' = Tail(chan)
    BY DEF ReceiveMapped
  <2>3. ~Settled /\ Newest = accepted
    BY <2>1, <2>2
       DEF ReceiveMapped, Flowing, Settled, SampleKept, NewestSampleKept
  <2>4. CASE kbuf # <<>> \/ item # Nothing
    BY <2>2, <2>3, <2>4 DEF SampleKept, Settled, Newest
  <2>5. CASE kbuf = <<>> /\ item = Nothing
    <3>1. accepted = chan[Len(chan)]
      BY <2>3, <2>5 DEF Newest
    <3>2. Tail(chan) # <<>> => Tail(chan)[Len(Tail(chan))] = accepted
      BY <2>1, <3>1, LastOfTail DEF Typed, TypeOK
    <3>3. Tail(chan) = <<>> => accepted = Sample(raw)
      BY <2>1, <3>1, LastOfTail DEF Typed, TypeOK
    <3>4. CASE Tail(chan) # <<>>
      BY <2>2, <2>5, <3>2, <3>4 DEF SampleKept, Settled, Newest
    <3>5. CASE Tail(chan) = <<>>
      <4>1. accepted'.raw = raw
        BY <2>2, <3>3, <3>5, SampleFields
      <4>2. Settled'
        BY <2>2, <2>5, <3>5 DEF Settled
      <4> QED
        BY <2>1, <4>1, <4>2 DEF SampleKept, Mapped
    <3> QED
      BY <3>4, <3>5
  <2> QED
    BY <2>4, <2>5
<1>11. Emit => NewestSampleKept'
  BY DEF Emit
<1>12. ReaderAwaited => NewestSampleKept'
  BY DEF ReaderAwaited
<1>13. RuntimeEnds => NewestSampleKept'
  BY DEF RuntimeEnds, Gone
<1>14. ShutdownRequested => NewestSampleKept'
  BY DEF ShutdownRequested, EndLoop
<1>15. EmitFails => NewestSampleKept'
  BY DEF EmitFails, EndLoop
<1>16. OpenBuffer => NewestSampleKept'
  BY DEF OpenBuffer
<1>17. CheckRunning => NewestSampleKept'
  BY DEF CheckRunning
<1>18. PollTimesOut => NewestSampleKept'
  BY DEF PollTimesOut
<1>19. ReadSample => NewestSampleKept'
  <2> SUFFICES ASSUME ReadSample, Flowing', accepted' # Nothing
               PROVE  SampleKept'
    BY DEF NewestSampleKept, Flowing, SampleKept
  <2>1. /\ kbuf # <<>> /\ kbuf \in Seq(Raws) /\ reader = "poll"
        /\ kbuf' = Tail(kbuf) /\ item' = Sample(Head(kbuf))
        /\ UNCHANGED <<main, accepted>>
    BY DEF ReadSample, Typed, TypeOK
  <2>2. accepted = Sample(kbuf[Len(kbuf)])
    BY <2>1 DEF Flowing, NewestSampleKept, SampleKept, Settled, Newest
  <2>3. item' # Nothing
    BY <2>1, SampleFields
  <2>4. Newest' = Sample(kbuf[Len(kbuf)])
    BY <2>1, <2>3, LastOfTail DEF Newest
  <2> QED
    BY <2>1, <2>2, <2>3, <2>4 DEF SampleKept, Settled
<1>20. Send => NewestSampleKept'
  <2> SUFFICES ASSUME Send, Flowing', accepted' # Nothing
               PROVE  SampleKept'
    BY DEF NewestSampleKept, Flowing, SampleKept
  <2>1. /\ reader = "send" /\ open /\ chan' = Append(chan, item)
        /\ item' = Nothing /\ UNCHANGED <<main, kbuf, accepted>>
    BY DEF Send, Flowing
  <2>2. item \in Result /\ chan \in Seq(Result) /\ item # Nothing
    BY <2>1, SampleFields DEF Typed, TypeOK, ItemHeld
  <2>3. Newest = accepted
    BY <2>1, <2>2 DEF Flowing, NewestSampleKept, SampleKept, Settled
  <2>4. chan' # <<>> /\ chan'[Len(chan')] = item
    BY <2>1, <2>2, LastOfAppend
  <2> QED
    BY <2>1, <2>2, <2>3, <2>4 DEF SampleKept, Settled, Newest
<1>21. CloseBuffer => NewestSampleKept'
  BY DEF CloseBuffer
<1>22. OpenFails => NewestSampleKept'
  BY DEF OpenFails
<1>23. ReadFails => NewestSampleKept'
  BY DEF ReadFails
<1>24. Measure => NewestSampleKept'
  <2> SUFFICES ASSUME Measure PROVE SampleKept'
    BY DEF NewestSampleKept, SampleKept
  <2>1. PICK raw \in Raws :
          kbuf' = Append(kbuf, raw) /\ accepted' = Sample(raw)
    BY DEF Measure
  <2>2. kbuf' # <<>> /\ kbuf'[Len(kbuf')] = raw
    BY <2>1, LastOfAppend DEF Typed, TypeOK
  <2> QED
    BY <2>1, <2>2 DEF SampleKept, Settled, Newest
<1>25. UNCHANGED vars => NewestSampleKept'
  BY DEF vars
<1> QED
  BY <1>1, <1>2, <1>3, <1>4, <1>5, <1>6, <1>7, <1>8, <1>9, <1>10, <1>11,
     <1>12, <1>13, <1>14, <1>15, <1>16, <1>17, <1>18, <1>19, <1>20,
     <1>21, <1>22, <1>23, <1>24, <1>25 DEF Next, MainStep, ReaderStep

\* The newest sample of the kernel is neither lost nor overtaken on its way
\* through the reader and the channel, for every capacity of the two queues:
\* when nothing is on its way the state is made of it, unless it is unmapped.
THEOREM NewestIsKept == Spec => []NewestSampleKept
<1>1. Init => /\ Typed /\ EndHeard /\ BufferHasReader /\ ItemHeld
              /\ NewestSampleKept
  BY BlankState, EmptyQueues
     DEF Init, EndHeard, BufferHasReader, ItemHeld, NewestSampleKept, Serving,
         Typed, TypeOK
<1>2. /\ Typed /\ EndHeard /\ BufferHasReader /\ ItemHeld /\ NewestSampleKept
      /\ [Next]_vars
      => /\ Typed' /\ EndHeard' /\ BufferHasReader' /\ ItemHeld'
         /\ NewestSampleKept'
  BY TypeStep, EndStep, ReaderStepsClean, ItemStep, NewestStep DEF Typed
<1> QED
  BY <1>1, <1>2, PTL DEF Spec

-----------------------------------------------------------------------------
(* Daemon implements PresenceService *)


\* The name is owned from Publish to the end of the loop, and a state without
\* availability is never present.
NameHeld ==
  /\ main \in {"off", "discover", "publish"} => ~name
  /\ main \in {"announce", "select", "emit"} => name
  /\ state.present => state.available

\* The fields of an initial and of an applied state.
LEMMA StateFields ==
  \A raw \in Raws :
    /\ FromInitial(raw).available = Mapped(raw)
    /\ FromInitial(raw).present = (raw \in PresentValues)
    /\ Applied(raw).available = TRUE
    /\ Applied(raw).present = (raw \in PresentValues)
    /\ Applied(raw).raw = raw
BY DEF FromInitial, Applied

\* Every step keeps the name with its part of the run.
LEMMA NameStep == TypeOK /\ NameHeld /\ [Next]_vars => NameHeld'
<1> SUFFICES ASSUME TypeOK, NameHeld PROVE [Next]_vars => NameHeld'
  OBVIOUS
<1> USE DEF NameHeld, thread, iio, stop
<1>1. Start => NameHeld'
  BY DEF Start
<1>2. StartupFails => NameHeld'
  BY BlankState DEF StartupFails, Gone, Startup
<1>3. Kill => NameHeld'
  BY BlankState DEF Kill, Gone, Startup
<1>4. Sigterm => NameHeld'
  BY BlankState DEF Sigterm, Gone, Startup
<1>5. ReadCurrent => NameHeld'
  <2> SUFFICES ASSUME ReadCurrent PROVE NameHeld'
    OBVIOUS
  <2>1. PICK raw \in Raws : state' = FromInitial(raw)
    BY DEF ReadCurrent
  <2>2. state'.present => state'.available
    BY <2>1, StateFields DEF Mapped
  <2> QED
    BY <2>2 DEF ReadCurrent
<1>6. Publish => NameHeld'
  BY DEF Publish
<1>7. Announce => NameHeld'
  BY DEF Announce
<1>8. ReceiveError => NameHeld'
  BY DEF ReceiveError, EndLoop
<1>9. ReceiveUnmapped => NameHeld'
  BY DEF ReceiveUnmapped
<1>10. ReceiveMapped => NameHeld'
  BY StateFields DEF ReceiveMapped
<1>11. Emit => NameHeld'
  BY DEF Emit
<1>12. ReaderAwaited => NameHeld'
  BY DEF ReaderAwaited
<1>13. RuntimeEnds => NameHeld'
  BY BlankState DEF RuntimeEnds, Gone, Startup
<1>14. ShutdownRequested => NameHeld'
  BY DEF ShutdownRequested, EndLoop
<1>15. EmitFails => NameHeld'
  BY DEF EmitFails, EndLoop
<1>16. OpenBuffer => NameHeld'
  BY DEF OpenBuffer
<1>17. CheckRunning => NameHeld'
  BY DEF CheckRunning
<1>18. PollTimesOut => NameHeld'
  BY DEF PollTimesOut
<1>19. ReadSample => NameHeld'
  BY DEF ReadSample
<1>20. Send => NameHeld'
  BY DEF Send
<1>21. CloseBuffer => NameHeld'
  BY DEF CloseBuffer
<1>22. OpenFails => NameHeld'
  BY DEF OpenFails
<1>23. ReadFails => NameHeld'
  BY DEF ReadFails
<1>24. Measure => NameHeld'
  BY DEF Measure
<1>25. UNCHANGED vars => NameHeld'
  BY DEF vars
<1> QED
  BY <1>1, <1>2, <1>3, <1>4, <1>5, <1>6, <1>7, <1>8, <1>9, <1>10, <1>11,
     <1>12, <1>13, <1>14, <1>15, <1>16, <1>17, <1>18, <1>19, <1>20,
     <1>21, <1>22, <1>23, <1>24, <1>25 DEF Next, MainStep, ReaderStep

\* A step that keeps what the clients see.
Aside ==
  /\ UNCHANGED <<name, state, announced>>
  /\ main = "announce" <=> main' = "announce"

\* Every action is an action of PresenceService or keeps what the clients see.
LEMMA PresenceSimulation ==
  ASSUME TypeOK, NameHeld, AnnouncedIsState, [Next]_vars
  PROVE  [Published!Next]_Seen
<1> DEFINE Step == [Published!Next]_Seen
<1> USE DEF thread, iio, stop
<1>types. /\ name \in BOOLEAN /\ state.available \in BOOLEAN
          /\ state.present \in BOOLEAN
  BY DEF TypeOK, PresenceState
<1>told. Told \in BOOLEAN /\ Told' \in BOOLEAN
  BY DEF Told
<1>aside. Aside => Step
  <2> SUFFICES ASSUME Aside PROVE Seen' = Seen
    OBVIOUS
  <2>1. name' = name /\ state' = state
    BY DEF Aside
  <2>2. Told' = Told
    <3>1. (main' # "announce") = (main # "announce")
      BY DEF Aside
    <3>2. (announced' = state') = (announced = state)
      BY DEF Aside
    <3> QED
      BY <3>1, <3>2 DEF Told
  <2> QED
    BY <2>1, <2>2 DEF Seen
<1>gone. ~name' => Step
  <2> SUFFICES ASSUME ~name' PROVE Step
    OBVIOUS
  <2>1. Seen' = Published!NoDaemon
    BY DEF Seen, Published!NoDaemon
  <2>2. CASE name
    <3>1. Seen.up
      BY <2>2 DEF Seen
    <3>2. Published!Stop
      BY <2>1, <3>1 DEF Published!Stop
    <3> QED
      BY <3>2 DEF Published!Next
  <2>3. CASE ~name
    <3>1. Seen = Published!NoDaemon
      BY <2>3 DEF Seen, Published!NoDaemon
    <3> QED
      BY <2>1, <3>1
  <2> QED
    BY <2>2, <2>3, <1>types
<1>1. Start => Step
  <2>1. Start => ~name'
    BY DEF Start, NameHeld
  <2> QED
    BY <2>1, <1>gone
<1>2. StartupFails => Step
  <2>1. StartupFails => ~name'
    BY DEF StartupFails, Gone, Startup, NameHeld
  <2> QED
    BY <2>1, <1>gone
<1>3. Kill => Step
  <2>1. Kill => ~name'
    BY DEF Kill, Gone, Startup, NameHeld
  <2> QED
    BY <2>1, <1>gone
<1>4. Sigterm => Step
  <2>1. Sigterm => ~name' \/ Aside
    BY DEF Sigterm, Gone, Startup, Aside
  <2> QED
    BY <2>1, <1>gone, <1>aside
<1>5. ReadCurrent => Step
  <2>1. ReadCurrent => ~name'
    BY DEF ReadCurrent, NameHeld
  <2> QED
    BY <2>1, <1>gone
<1>6. Publish => Step
  <2> SUFFICES ASSUME Publish PROVE Step
    OBVIOUS
  <2>0. Told' = FALSE
    BY <1>told DEF Publish, Told
  <2>1. Seen' = [up |-> TRUE, available |-> state.available,
                 present |-> state.present, told |-> FALSE]
    BY <2>0 DEF Publish, Seen
  <2>2. ~Seen.up
    BY DEF Publish, NameHeld, Seen
  <2>3. Published!Start
    BY <1>types, <2>1, <2>2 DEF NameHeld, Published!Start
  <2> QED
    BY <2>3 DEF Published!Next
<1>7. Announce => Step
  <2> SUFFICES ASSUME Announce PROVE Step
    OBVIOUS
  <2>1. Told = FALSE /\ Told' = TRUE
    BY <1>told DEF Announce, Told
  <2>2. name /\ name' /\ state' = state
    BY DEF Announce, NameHeld
  <2>3. Seen.up /\ ~Seen.told
    BY <2>1, <2>2 DEF Seen
  <2>4. Seen' = [up |-> TRUE, available |-> Seen.available,
               present |-> Seen.present, told |-> TRUE]
    BY <2>1, <2>2 DEF Seen
  <2> QED
    BY <2>3, <2>4 DEF Published!Next, Published!Announce
<1>8. ReceiveError => Step
  <2>1. ReceiveError => Aside
    BY DEF ReceiveError, EndLoop, Aside
  <2> QED
    BY <2>1, <1>aside
<1>9. ReceiveUnmapped => Step
  <2>1. ReceiveUnmapped => Aside
    BY DEF ReceiveUnmapped, Aside
  <2> QED
    BY <2>1, <1>aside
<1>10. ReceiveMapped => Step
  <2> SUFFICES ASSUME ReceiveMapped PROVE Step
    OBVIOUS
  <2>1. PICK raw \in Raws : /\ state' = Applied(raw)
                            /\ main' = IF Changed(raw) THEN "emit" ELSE "select"
    BY DEF ReceiveMapped
  <2>2. /\ main = "select" /\ name /\ name' /\ announced = state
        /\ announced' = announced
    BY DEF ReceiveMapped, NameHeld, AnnouncedIsState
  <2>3. CASE Changed(raw)
    <3>1. announced' # state'
      BY <2>1, <2>2, <2>3, StateFields DEF Changed
    <3>2. Told' = FALSE /\ Told = TRUE
      BY <1>told, <2>2, <3>1 DEF Told
    <3>3. Seen' = [up |-> TRUE, available |-> TRUE,
                   present |-> raw \in PresentValues, told |-> FALSE]
      BY <2>1, <2>2, <3>2 DEF Seen, Applied
    <3>4. Seen.up /\ Seen.told
      BY <2>2, <3>2 DEF Seen
    <3>5. (raw \in PresentValues) \in BOOLEAN
      OBVIOUS
    <3>6. Published!Write
      BY <3>3, <3>4, <3>5 DEF Published!Write
    <3> QED
      BY <3>6 DEF Published!Next
  <2>4. CASE ~Changed(raw)
    <3>1. main' = main
      BY <2>1, <2>2, <2>4
    <3>2. announced' = state'
      BY <2>2, <3>1, AnnounceStep DEF AnnouncedIsState
    <3>3. Aside
      BY <2>2, <3>1, <3>2 DEF Aside
    <3> QED
      BY <3>3, <1>aside
  <2> QED
    BY <2>3, <2>4
<1>11. Emit => Step
  <2> SUFFICES ASSUME Emit PROVE Step
    OBVIOUS
  <2>1. Told' = TRUE
    BY <1>told DEF Emit, Told
  <2>2. name /\ name' /\ state' = state
    BY DEF Emit, NameHeld
  <2>3. CASE Told
    <3>1. Told = TRUE
      BY <1>told, <2>3
    <3> QED
      BY <2>1, <2>2, <3>1 DEF Seen
  <2>4. CASE ~Told
    <3>1. Told = FALSE
      BY <1>told, <2>4
    <3>2. Seen.up /\ ~Seen.told
      BY <2>2, <3>1 DEF Seen
    <3>3. Seen' = [up |-> TRUE, available |-> Seen.available,
                 present |-> Seen.present, told |-> TRUE]
      BY <2>1, <2>2, <3>1 DEF Seen
    <3> QED
      BY <3>2, <3>3 DEF Published!Next, Published!Announce
  <2> QED
    BY <2>3, <2>4
<1>12. ReaderAwaited => Step
  <2>1. ReaderAwaited => ~name'
    BY DEF ReaderAwaited, NameHeld
  <2> QED
    BY <2>1, <1>gone
<1>13. RuntimeEnds => Step
  <2>1. RuntimeEnds => ~name'
    BY DEF RuntimeEnds, Gone, Startup, NameHeld
  <2> QED
    BY <2>1, <1>gone
<1>14. ShutdownRequested => Step
  <2>1. ShutdownRequested => Aside
    BY DEF ShutdownRequested, EndLoop, Aside
  <2> QED
    BY <2>1, <1>aside
<1>15. EmitFails => Step
  <2>1. EmitFails => Aside
    BY DEF EmitFails, EndLoop, Aside
  <2> QED
    BY <2>1, <1>aside
<1>16. OpenBuffer => Step
  <2>1. OpenBuffer => Aside
    BY DEF OpenBuffer, Aside
  <2> QED
    BY <2>1, <1>aside
<1>17. CheckRunning => Step
  <2>1. CheckRunning => Aside
    BY DEF CheckRunning, Aside
  <2> QED
    BY <2>1, <1>aside
<1>18. PollTimesOut => Step
  <2>1. PollTimesOut => Aside
    BY DEF PollTimesOut, Aside
  <2> QED
    BY <2>1, <1>aside
<1>19. ReadSample => Step
  <2>1. ReadSample => Aside
    BY DEF ReadSample, Aside
  <2> QED
    BY <2>1, <1>aside
<1>20. Send => Step
  <2>1. Send => Aside
    BY DEF Send, Aside
  <2> QED
    BY <2>1, <1>aside
<1>21. CloseBuffer => Step
  <2>1. CloseBuffer => Aside
    BY DEF CloseBuffer, Aside
  <2> QED
    BY <2>1, <1>aside
<1>22. OpenFails => Step
  <2>1. OpenFails => Aside
    BY DEF OpenFails, Aside
  <2> QED
    BY <2>1, <1>aside
<1>23. ReadFails => Step
  <2>1. ReadFails => Aside
    BY DEF ReadFails, Aside
  <2> QED
    BY <2>1, <1>aside
<1>24. Measure => Step
  <2>1. Measure => Aside
    BY DEF Measure, Aside
  <2> QED
    BY <2>1, <1>aside
<1>25. UNCHANGED vars => Step
  <2>1. UNCHANGED vars => Aside
    BY DEF vars, Aside
  <2> QED
    BY <2>1, <1>aside
<1> HIDE DEF Step
<1>26. Step
  BY <1>1, <1>2, <1>3, <1>4, <1>5, <1>6, <1>7, <1>8, <1>9, <1>10, <1>11,
     <1>12, <1>13, <1>14, <1>15, <1>16, <1>17, <1>18, <1>19, <1>20,
     <1>21, <1>22, <1>23, <1>24, <1>25 DEF Next, MainStep, ReaderStep
<1> QED
  BY <1>26 DEF Step

\* The clients of the daemon see a PresenceService: its name comes with a state
\* and every state is told before the next one is made.
THEOREM DaemonIsPresenceService == Spec => Published!Spec
<1>1. Init => NameHeld /\ AnnouncedIsState
  BY BlankState DEF Init, NameHeld, AnnouncedIsState, PresenceState
<1>2. TypeOK /\ NameHeld /\ AnnouncedIsState /\ [Next]_vars
        => (NameHeld /\ AnnouncedIsState)'
  BY NameStep, AnnounceStep
<1>3. Init => Published!Init
  BY DEF Init, Published!Init, Published!NoDaemon, Seen
<1>4. TypeOK /\ NameHeld /\ AnnouncedIsState /\ [Next]_vars
        => [Published!Next]_Seen
  BY PresenceSimulation
<1> QED
  BY <1>1, <1>2, <1>3, <1>4, TypeCorrect, PTL DEF Spec, Published!Spec
=============================================================================
