----------------------------- MODULE StoreProofs -----------------------------
(***************************************************************************)
(* Settings implements PolicyStore, for every set of policies, every set   *)
(* of faults and any number of power failures: a step simulation over the  *)
(* invariants of SettingsProofs.                                           *)
(***************************************************************************)
EXTENDS SettingsProofs

\* A reset is given no policy, and neither is a process that does not run.
ResetsGiveNothing ==
  \A c \in Client :
    cli[c].step \in Removal \cup {"none"} => cli[c].policy = Absent

LEMMA CommandOf ==
  /\ \A step \in Saving \cup Removal : Command(step) = "asked"
  /\ Command("none") = "idle" /\ Command("done") = "done"
  /\ Command("failed") = "failed"
BY DEF Command, Saving, Removal

\* What a step of one process changes of the commands.
LEMMA OneMoves ==
  ASSUME NEW c \in Client, NEW step, NEW policy,
         cli'[c].step = step, cli'[c].policy = policy,
         \A b \in Client \ {c} : cli'[b] = cli[b]
  PROVE  /\ Commands' = [Commands EXCEPT ![c] = Command(step)]
         /\ Given' = [Given EXCEPT ![c] = policy]
<1>1. Commands' = [Commands EXCEPT ![c] = Command(step)]
  BY DEF Commands
<1>2. Given' = [Given EXCEPT ![c] = policy]
  BY DEF Given
<1> QED
  BY <1>1, <1>2

\* Going to its next step moves the command of one client.
LEMMA AdvanceMoves ==
  ASSUME CliTyped, NEW c \in Client, NEW step \in ProcessStep, Advance(c, step)
  PROVE  /\ Commands' = [Commands EXCEPT ![c] = Command(step)]
         /\ Given' = Given
<1>1. /\ cli'[c].step = step /\ cli'[c].policy = cli[c].policy
      /\ \A b \in Client \ {c} : cli'[b] = cli[b]
  BY Advances
<1>2. Given = [Given EXCEPT ![c] = cli[c].policy]
  BY DEF Given
<1> QED
  BY <1>1, <1>2, OneMoves

\* So does starting a process, or forgetting it.
LEMMA ReplaceMoves ==
  ASSUME CliTyped, NEW c \in Client, NEW p \in Process,
         cli' = [cli EXCEPT ![c] = p]
  PROVE  /\ Commands' = [Commands EXCEPT ![c] = Command(p.step)]
         /\ Given' = [Given EXCEPT ![c] = p.policy]
<1>1. cli'[c] = p /\ \A b \in Client \ {c} : cli'[b] = cli[b]
  BY Replaced
<1> QED
  BY <1>1, OneMoves

LEMMA CommandsAndGiven ==
  ASSUME NEW c \in Client
  PROVE  Commands[c] = Command(cli[c].step) /\ Given[c] = cli[c].policy
BY DEF Commands, Given

\* A step between two steps of a command is not seen.
LEMMA WorksUnseen ==
  ASSUME CliTyped, NEW c \in Client, NEW step \in Saving \cup Removal,
         cli[c].step \in Saving \cup Removal, Advance(c, step)
  PROVE  Commands' = Commands /\ Given' = Given
<1>1. /\ Commands' = [Commands EXCEPT ![c] = Command(step)]
      /\ Given' = Given
  BY AdvanceMoves DEF ProcessStep
<1>2. Command(step) = Commands[c]
  BY CommandOf, CommandsAndGiven
<1>3. Commands = [Commands EXCEPT ![c] = Commands[c]]
  BY DEF Commands
<1> QED
  BY <1>1, <1>2, <1>3

\* A step that fails a command does nothing else.
LEMMA FailureIsSeen ==
  ASSUME CliTyped, NEW c \in Client, cli[c].step \in Saving \cup Removal,
         Advance(c, "failed"), UNCHANGED <<file, stored, losses>>
  PROVE  Store!Fails(c)
<1>1. Commands' = [Commands EXCEPT ![c] = "failed"] /\ Given' = Given
  BY AdvanceMoves, CommandOf DEF ProcessStep
<1>2. Commands[c] = "asked"
  BY CommandOf, CommandsAndGiven
<1>3. Durable' = Durable
  BY DEF Durable
<1> QED
  BY <1>1, <1>2, <1>3 DEF Store!Fails

\* A step that completes a command has given the file what it was given.
LEMMA EffectIsSeen ==
  ASSUME CliTyped, NEW c \in Client, cli[c].step \in Saving \cup Removal,
         Advance(c, "done"), cli[c].policy \in Policies \cup {Absent},
         file'.policy = cli[c].policy, UNCHANGED <<stored, losses>>
  PROVE  Store!TakesEffect(c)
<1>1. Commands' = [Commands EXCEPT ![c] = "done"] /\ Given' = Given
  BY AdvanceMoves, CommandOf DEF ProcessStep
<1>2. Commands[c] = "asked" /\ Given[c] = cli[c].policy
  BY CommandOf, CommandsAndGiven
<1>3. Durable' \in {Durable, file'.policy}
  BY DEF Durable
<1> QED
  BY <1>1, <1>2, <1>3 DEF Store!TakesEffect

\* A process that is started.
LEMMA StartIsSeen ==
  ASSUME CliTyped, NEW c \in Client, NEW p \in Process,
         cli[c].step = "none", p.step \in Saving \cup Removal,
         cli' = [cli EXCEPT ![c] = p], UNCHANGED <<file, stored, losses>>
  PROVE  \E offer \in Policies \cup {Invalid, Absent} : Store!Ask(c, offer)
<1>1. /\ Commands' = [Commands EXCEPT ![c] = "asked"]
      /\ Given' = [Given EXCEPT ![c] = p.policy]
  BY ReplaceMoves, CommandOf
<1>2. Commands[c] = "idle"
  BY CommandOf, CommandsAndGiven
<1>3. Durable' = Durable
  BY DEF Durable
<1>4. p.policy \in Policies \cup {Invalid, Absent}
  BY DEF Process
<1> QED
  BY <1>1, <1>2, <1>3, <1>4 DEF Store!Ask

\* A process that has ended, or is killed.
LEMMA EndIsSeen ==
  ASSUME CliTyped, ResetsGiveNothing, NEW c \in Client,
         cli' = [cli EXCEPT ![c] = NoProcess],
         UNCHANGED <<file, stored, losses>>
  PROVE  Store!Ends(c) \/ UNCHANGED Store!vars
<1>1. /\ Commands' = [Commands EXCEPT ![c] = "idle"]
      /\ Given' = [Given EXCEPT ![c] = Absent]
  BY ReplaceMoves, NoProcessTyped, CommandOf DEF NoProcess
<1>2. Durable' = Durable
  BY DEF Durable
<1>3. CASE Commands[c] # "idle"
  BY <1>1, <1>2, <1>3 DEF Store!Ends
<1>4. CASE Commands[c] = "idle"
  <2>1. cli[c] \in Process
    BY DEF CliTyped
  <2>2. cli[c].step = "none"
    BY <1>4, <2>1, CommandOf, CommandsAndGiven DEF Process, ProcessStep
  <2>3. Given[c] = Absent
    BY <2>2, CommandsAndGiven DEF ResetsGiveNothing
  <2>4. Commands' = Commands /\ Given' = Given
    BY <1>1, <1>4, <2>3 DEF Commands, Given
  <2> QED
    BY <1>2, <2>4 DEF Store!vars
<1> QED
  BY <1>3, <1>4

\* A step beside the commands and the disk.
LEMMA AsideIsUnseen ==
  ASSUME UNCHANGED <<cli, file, stored, losses>>
  PROVE  UNCHANGED Store!vars
BY DEF Store!vars, Commands, Given, Durable

-----------------------------------------------------------------------------
(* The simulation *)

\* What the terminal starts is a save of what was typed, or a reset.
LEMMA RunsTyped ==
  ASSUME TerminalRuns
  PROVE  \E p \in Process :
           /\ cli' = [cli EXCEPT !["terminal"] = p]
           /\ p.step \in Saving \cup Removal /\ p.step # "none"
           /\ p.step \in Removal => p.policy = Absent
<1>1. CASE \E q \in TypedIn :
             cli' = [cli EXCEPT !["terminal"] =
                       [step |-> "parse", policy |-> q, synced |-> FALSE]]
  <2>1. PICK q \in TypedIn :
          cli' = [cli EXCEPT !["terminal"] =
                    [step |-> "parse", policy |-> q, synced |-> FALSE]]
    BY <1>1
  <2> DEFINE p == [step |-> "parse", policy |-> q, synced |-> FALSE]
  <2>2. p \in Process
    BY SettingsAssumption, StartedTyped
  <2>3. p.step \in Saving /\ p.step # "none" /\ p.step \notin Removal
    BY DEF Saving, Removal
  <2> QED
    BY <2>1, <2>2, <2>3
<1>2. CASE cli' = [cli EXCEPT
             !["terminal"] = [NoProcess EXCEPT !.step = "check"]]
  <2> DEFINE p == [NoProcess EXCEPT !.step = "check"]
  <2>1. p \in Process /\ p.step = "check" /\ p.policy = Absent
    BY NoProcessTyped DEF NoProcess
  <2> QED
    BY <1>2, <2>1 DEF Removal
<1> QED
  BY <1>1, <1>2 DEF TerminalRuns

\* Every step keeps what a reset is given.
LEMMA ResetsGiveNothingStep ==
  ASSUME CliTyped, ResetsGiveNothing, [Next]_vars
  PROVE  ResetsGiveNothing'
<1> USE DEF unit, history
<1>one. ASSUME NEW c \in Client, \A b \in Client \ {c} : cli'[b] = cli[b],
               cli'[c].step \in Removal \cup {"none"} =>
                 cli'[c].policy = Absent
        PROVE  ResetsGiveNothing'
  BY <1>one DEF ResetsGiveNothing
<1>1. ASSUME NEW c \in Client, CliStep(c) \/ SaveFails(c)
      PROVE  ResetsGiveNothing'
  <2>1. CASE CheckExists(c) \/ Remove(c)
    <3>1. PICK step \in {"remove", "done", "failed"} : Advance(c, step)
      BY <2>1 DEF CheckExists, Remove
    <3>2. cli[c].policy = Absent
      BY <2>1 DEF CheckExists, Remove, ResetsGiveNothing, Removal
    <3>3. /\ cli'[c].policy = cli[c].policy
          /\ \A b \in Client \ {c} : cli'[b] = cli[b]
      BY <3>1, Advances DEF ProcessStep, Removal
    <3> QED
      BY <1>one, <3>2, <3>3
  <2>2. CASE Parse(c) \/ Write(c) \/ Persist(c) \/ SaveFails(c)
    <3>1. PICK step \in {"temporary", "written", "done", "failed"} :
            Advance(c, step)
      BY <2>2 DEF Parse, Write, Persist, SaveFails
    <3>2. /\ cli'[c].step = step
          /\ \A b \in Client \ {c} : cli'[b] = cli[b]
      BY <3>1, Advances DEF ProcessStep, Saving
    <3> QED
      BY <1>one, <3>2 DEF Removal
  <2>3. CASE Sync(c)
    <3>1. /\ cli'[c].step = "synced"
          /\ \A b \in Client \ {c} : cli'[b] = cli[b]
      BY <2>3 DEF Sync, CliTyped, Process
    <3> QED
      BY <1>one, <3>1 DEF Removal
  <2> QED
    BY <1>1, <2>1, <2>2, <2>3 DEF CliStep
<1>2. ASSUME NEW c \in Client, NEW p \in Process,
             cli' = [cli EXCEPT ![c] = p],
             p.step \in Removal \cup {"none"} => p.policy = Absent
      PROVE  ResetsGiveNothing'
  <2>1. /\ cli'[c].step = p.step /\ cli'[c].policy = p.policy
        /\ \A b \in Client \ {c} : cli'[b] = cli[b]
    BY <1>2, Replaced
  <2> QED
    BY <1>2, <1>one, <2>1
<1>none. NoProcess \in Process /\ NoProcess.policy = Absent
  BY NoProcessTyped DEF NoProcess
<1>3. ASSUME TerminalRuns PROVE ResetsGiveNothing'
  <2>1. PICK p \in Process :
          /\ cli' = [cli EXCEPT !["terminal"] = p]
          /\ p.step \in Removal => p.policy = Absent
          /\ p.step # "none"
    BY <1>3, RunsTyped
  <2> QED
    BY <2>1, <1>2, Clients
<1>4. ASSUME TerminalEnds \/ SetSucceeds \/ SaveGivesUp
      PROVE  ResetsGiveNothing'
  <2>1. PICK c \in Client : cli' = [cli EXCEPT ![c] = NoProcess]
    BY <1>4, Clients DEF TerminalEnds, SetSucceeds, SaveGivesUp
  <2> QED
    BY <2>1, <1>2, <1>none
<1>5. ASSUME Apply PROVE ResetsGiveNothing'
  <2>1. cli'["kcm"].step = "parse"
    BY <1>5 DEF Apply, CliTyped, Client
  <2>2. cli'["terminal"] = cli["terminal"]
    BY <1>5 DEF Apply, CliTyped, Client
  <2> QED
    BY <2>1, <2>2, <1>one, Clients DEF Client, Removal
<1>6. ASSUME PowerFails PROVE ResetsGiveNothing'
  BY <1>6, <1>none DEF PowerFails, ResetsGiveNothing
<1>7. ASSUME UNCHANGED cli PROVE ResetsGiveNothing'
  BY <1>7 DEF ResetsGiveNothing
<1>8. ASSUME Open \/ Edit \/ PressDefaults \/ GetAnswers \/ GetFails \/
             Enable \/ Restart \/ Disable \/ UnitUpdated \/ JobStops \/
             JobStarts \/ UnitStarts \/ AgentChecks \/ AgentReads \/
             AgentFails \/ AgentRestarts \/ LimitReached \/ WriteBack \/
             UNCHANGED vars
      PROVE  UNCHANGED cli
  BY <1>8 DEF Open, Edit, PressDefaults, GetAnswers, GetFails, Enable,
              Restart, Disable, UnitUpdated, JobStops, JobStarts, UnitStarts,
              AgentChecks, AgentReads, AgentFails, AgentRestarts,
              LimitReached, WriteBack, vars
<1> QED
  BY <1>1, <1>3, <1>4, <1>5, <1>6, <1>7, <1>8 DEF Next, KcmStep, UnitStep

\* Every step is one of the store, or leaves it alone.
LEMMA StoreSimulation ==
  ASSUME Saved, KcmSaves, ResetsGiveNothing, [Next]_vars
  PROVE  [Store!Next]_Store!vars
<1> DEFINE Step == [Store!Next]_Store!vars
<1> USE DEF unit, history
<1>typed. CliTyped /\ UnitTyped
  BY DEF Saved
<1>fails. ASSUME NEW c \in Client, Store!Fails(c) PROVE Step
  BY <1>fails DEF Store!Next
<1>effect. ASSUME NEW c \in Client, Store!TakesEffect(c) PROVE Step
  BY <1>effect DEF Store!Next
<1>ask. ASSUME NEW c \in Client,
               \E offer \in Policies \cup {Invalid, Absent} :
                 Store!Ask(c, offer)
        PROVE  Step
  BY <1>ask DEF Store!Next
<1>end. ASSUME NEW c \in Client, Store!Ends(c) \/ UNCHANGED Store!vars
        PROVE  Step
  BY <1>end DEF Store!Next
<1>unseen. ASSUME Commands' = Commands, Given' = Given,
                  UNCHANGED <<file, stored, losses>>
           PROVE  Step
  BY <1>unseen DEF Store!vars, Durable
<1>busy. {"parse", "temporary", "written", "synced", "check", "remove"}
           \subseteq Saving \cup Removal
  BY DEF Saving, Removal
<1>1. ASSUME NEW c \in Client, Parse(c) PROVE Step
  <2>1. /\ cli[c].step \in Saving \cup Removal
        /\ UNCHANGED <<file, stored, losses>>
    BY <1>1, <1>busy DEF Parse
  <2>2. CASE Advance(c, "temporary")
    BY <2>1, <2>2, <1>typed, <1>busy, <1>unseen, WorksUnseen
  <2>3. CASE Advance(c, "failed")
    BY <2>1, <2>3, <1>typed, <1>fails, FailureIsSeen
  <2> QED
    BY <1>1, <2>2, <2>3 DEF Parse
<1>2. ASSUME NEW c \in Client, Write(c) PROVE Step
  <2>1. /\ cli[c].step \in Saving \cup Removal /\ Advance(c, "written")
        /\ UNCHANGED <<file, stored, losses>>
    BY <1>2, <1>busy DEF Write
  <2> QED
    BY <2>1, <1>typed, <1>busy, <1>unseen, WorksUnseen
<1>3. ASSUME NEW c \in Client, Sync(c) PROVE Step
  <2>1. /\ cli'[c].step = "synced" /\ cli'[c].policy = cli[c].policy
        /\ \A b \in Client \ {c} : cli'[b] = cli[b]
    BY <1>3, <1>typed DEF Sync, CliTyped, Process
  <2>2. Command(cli[c].step) = "asked" /\ Command("synced") = "asked"
    BY <1>3, <1>busy, CommandOf DEF Sync
  <2>3. Commands' = Commands
    BY <2>1, <2>2 DEF Commands
  <2>4. Given' = Given
    BY <2>1 DEF Given
  <2> QED
    BY <1>3, <2>3, <2>4, <1>unseen DEF Sync
<1>4. ASSUME NEW c \in Client, Persist(c) PROVE Step
  <2>1. /\ cli[c].step \in Saving \cup Removal /\ Advance(c, "done")
        /\ file'.policy = cli[c].policy /\ UNCHANGED <<stored, losses>>
    BY <1>4, <1>busy DEF Persist
  <2>2. cli[c].policy \in Policies
    BY <1>4 DEF Persist, Saved, SavesValid, ValidProcess
  <2> QED
    BY <2>1, <2>2, <1>typed, <1>effect, EffectIsSeen
<1>5. ASSUME NEW c \in Client, SaveFails(c) PROVE Step
  BY <1>5, <1>typed, <1>fails, FailureIsSeen DEF SaveFails
<1>6. ASSUME NEW c \in Client, CheckExists(c) PROVE Step
  <2>1. /\ cli[c].step \in Saving \cup Removal /\ cli[c].policy = Absent
        /\ UNCHANGED <<file, stored, losses>>
    BY <1>6, <1>busy DEF CheckExists, ResetsGiveNothing, Removal
  <2>2. CASE file.policy = Absent
    <3>1. Advance(c, "done") /\ file'.policy = cli[c].policy
      BY <1>6, <2>1, <2>2 DEF CheckExists
    <3> QED
      BY <2>1, <3>1, <1>typed, <1>effect, EffectIsSeen
  <2>3. CASE file.policy # Absent
    <3>1. Advance(c, "remove")
      BY <1>6, <2>3 DEF CheckExists
    <3> QED
      BY <2>1, <3>1, <1>typed, <1>busy, <1>unseen, WorksUnseen
  <2> QED
    BY <2>2, <2>3
<1>7. ASSUME NEW c \in Client, Remove(c) PROVE Step
  <2>1. /\ cli[c].step \in Saving \cup Removal /\ cli[c].policy = Absent
        /\ UNCHANGED <<stored, losses>>
    BY <1>7, <1>busy DEF Remove, ResetsGiveNothing, Removal
  <2>2. CASE file.policy = Absent
    <3>1. Advance(c, "failed") /\ UNCHANGED file
      BY <1>7, <2>2 DEF Remove
    <3> QED
      BY <2>1, <3>1, <1>typed, <1>fails, FailureIsSeen
  <2>3. CASE file.policy # Absent
    <3>1. Advance(c, "done") /\ file'.policy = cli[c].policy
      BY <1>7, <2>1, <2>3 DEF Remove, NoFile
    <3> QED
      BY <2>1, <3>1, <1>typed, <1>effect, EffectIsSeen
  <2> QED
    BY <2>2, <2>3
<1>8. ASSUME TerminalRuns PROVE Step
  <2>1. PICK p \in Process : /\ cli' = [cli EXCEPT !["terminal"] = p]
                             /\ p.step \in Saving \cup Removal
    BY <1>8, RunsTyped
  <2>2. cli["terminal"].step = "none" /\ UNCHANGED <<file, stored, losses>>
    BY <1>8 DEF TerminalRuns
  <2> QED
    BY <2>1, <2>2, <1>typed, <1>ask, Clients, StartIsSeen
<1>9. ASSUME Apply PROVE Step
  <2> DEFINE p == [step |-> "parse", policy |-> kcm.form, synced |-> FALSE]
  <2>1. p \in Process /\ p.step \in Saving \cup Removal
    BY StartedTyped, <1>busy DEF Saved, WindowTyped, Window
  <2>2. cli["kcm"].step = "none"
    BY <1>9 DEF Apply, KcmSaves
  <2>3. /\ cli' = [cli EXCEPT !["kcm"] = p]
        /\ UNCHANGED <<file, stored, losses>>
    BY <1>9 DEF Apply
  <2> HIDE DEF p
  <2> QED
    BY <2>1, <2>2, <2>3, <1>typed, <1>ask, Clients, StartIsSeen
<1>10. ASSUME TerminalEnds \/ SetSucceeds \/ SaveGivesUp PROVE Step
  <2>1. PICK c \in Client : cli' = [cli EXCEPT ![c] = NoProcess]
    BY <1>10, Clients DEF TerminalEnds, SetSucceeds, SaveGivesUp
  <2>2. UNCHANGED <<file, stored, losses>>
    BY <1>10 DEF TerminalEnds, SetSucceeds, SaveGivesUp
  <2> QED
    BY <2>1, <2>2, <1>typed, <1>end, EndIsSeen
<1>11. ASSUME WriteBack PROVE Step
  <2>1. Commands' = Commands /\ Given' = Given
    BY <1>11 DEF WriteBack, Commands, Given
  <2>2. file' = file /\ Durable' = file.policy
    BY <1>11 DEF WriteBack, Durable
  <2> QED
    BY <2>1, <2>2 DEF Store!Next, Store!WriteBack
<1>12. ASSUME PowerFails PROVE Step
  <2>1. file' = stored
    BY <1>12 DEF PowerFails, Saved, Whole, WholeEntry
  <2>2. Durable = stored.policy
    BY <1>12 DEF PowerFails, Durable
  <2>3. Durable' = Durable
    BY <1>12, <2>1, <2>2 DEF PowerFails, Durable
  <2>4. /\ Commands' = [c \in Client |-> "idle"]
        /\ Given' = [c \in Client |-> Absent]
    BY <1>12, CommandOf DEF PowerFails, Commands, Given, NoProcess
  <2> QED
    BY <2>1, <2>2, <2>3, <2>4 DEF Store!Next, Store!PowerFails
<1>13. ASSUME UNCHANGED <<cli, file, stored, losses>> PROVE Step
  BY <1>13, AsideIsUnseen
<1>14. ASSUME Open \/ Edit \/ PressDefaults \/ GetAnswers \/ GetFails \/
              Enable \/ Restart \/ Disable \/ UnitUpdated \/ JobStops \/
              JobStarts \/ UnitStarts \/ AgentChecks \/ AgentReads \/
              AgentFails \/ AgentRestarts \/ LimitReached \/ UNCHANGED vars
       PROVE  UNCHANGED <<cli, file, stored, losses>>
  BY <1>14 DEF Open, Edit, PressDefaults, GetAnswers, GetFails, Enable,
               Restart, Disable, UnitUpdated, JobStops, JobStarts, UnitStarts,
               AgentChecks, AgentReads, AgentFails, AgentRestarts,
               LimitReached, vars
<1> HIDE DEF Step
<1>15. Step
  BY <1>1, <1>2, <1>3, <1>4, <1>5, <1>6, <1>7, <1>8, <1>9, <1>10, <1>11,
     <1>12, <1>13, <1>14 DEF Next, CliStep, KcmStep, UnitStep
<1> QED
  BY <1>15 DEF Step

LEMMA StoreInit == Init => Store!Init /\ ResetsGiveNothing
<1> SUFFICES ASSUME Init PROVE Store!Init /\ ResetsGiveNothing
  OBVIOUS
<1>1. cli = [c \in Client |-> NoProcess] /\ file = NoFile /\ stored = NoFile
  BY DEF Init
<1>2. /\ Commands = [c \in Client |-> "idle"]
      /\ Given = [c \in Client |-> Absent]
  BY <1>1, CommandOf DEF Commands, Given, NoProcess
<1>3. file.policy = Absent /\ Durable = Absent
  BY <1>1 DEF Durable, NoFile
<1>4. ResetsGiveNothing
  BY <1>1 DEF ResetsGiveNothing, NoProcess
<1> QED
  BY <1>2, <1>3, <1>4 DEF Store!Init

\* Saves and resets replace the policy atomically: whatever runs at the same
\* time, every command has its whole effect in one step or none, one that
\* reports an error has changed nothing, and a power failure brings back an
\* earlier policy.
THEOREM CommandsReplaceAtomically == Spec => ReplacesAtomically
<1> DEFINE Inv == Saved /\ Follows /\ ResetsGiveNothing
<1>1. Init => Inv /\ Store!Init
  BY SavedInit, FollowsInit, StoreInit
<1>2. Inv /\ [Next]_vars => Inv' /\ [Store!Next]_Store!vars
  BY SavedStep, FollowsStep, ResetsGiveNothingStep, StoreSimulation
     DEF Saved, Follows
<1> QED
  BY <1>1, <1>2, PTL DEF Spec, ReplacesAtomically, Store!Spec
=============================================================================
