---------------------------- MODULE SettingsProofs ----------------------------
(***************************************************************************)
(* Proofs about Settings for every set of policies, every set of faults    *)
(* and any number of power failures.                                       *)
(***************************************************************************)
EXTENDS Settings, TLAPS

-----------------------------------------------------------------------------
(* The processes *)

ProcessStep == {"none", "done", "failed"} \cup Saving \cup Removal

Process == [step : ProcessStep, policy : Policies \cup {Invalid, Absent},
            synced : BOOLEAN]

CliTyped == cli \in [Client -> Process]

\* Going to its next step changes nothing else of a process, nor of the other.
LEMMA Advances ==
  ASSUME CliTyped, NEW c \in Client, NEW step \in ProcessStep, Advance(c, step)
  PROVE  /\ CliTyped'
         /\ cli'[c].step = step
         /\ cli'[c].policy = cli[c].policy /\ cli'[c].synced = cli[c].synced
         /\ \A b \in Client \ {c} : cli'[b] = cli[b]
BY DEF CliTyped, Advance, Process

\* A process that is started, or is gone, leaves the other alone.
LEMMA Replaced ==
  ASSUME CliTyped, NEW c \in Client, NEW p \in Process,
         cli' = [cli EXCEPT ![c] = p]
  PROVE  CliTyped' /\ cli'[c] = p /\ \A b \in Client \ {c} : cli'[b] = cli[b]
BY DEF CliTyped

LEMMA NoProcessTyped ==
  /\ NoProcess \in Process /\ [NoProcess EXCEPT !.step = "check"] \in Process
  /\ NoProcess.step = "none"
  /\ [NoProcess EXCEPT !.step = "check"].step = "check"
BY DEF NoProcess, Process, ProcessStep, Removal

LEMMA Clients == "kcm" \in Client /\ "terminal" \in Client
BY DEF Client

\* A started save is a process.
LEMMA StartedTyped ==
  \A p \in Policies \cup {Invalid, Absent} :
    [step |-> "parse", policy |-> p, synced |-> FALSE] \in Process
BY DEF Process, ProcessStep, Saving

\* Every step keeps the types of the processes.
LEMMA CliTypedStep ==
  CliTyped /\ kcm.form \in Policies /\ [Next]_vars => CliTyped'
<1> SUFFICES ASSUME CliTyped, kcm.form \in Policies
             PROVE  [Next]_vars => CliTyped'
  OBVIOUS
<1> USE DEF unit, history
<1>steps. {"temporary", "written", "synced", "done", "failed", "remove"}
            \subseteq ProcessStep
  BY DEF ProcessStep, Saving, Removal
<1>1. ASSUME NEW c \in Client, Parse(c) PROVE CliTyped'
  <2>1. CASE cli[c].policy \in Policies
    BY <1>1, <2>1, <1>steps, Advances DEF Parse
  <2>2. CASE cli[c].policy \notin Policies
    BY <1>1, <2>2, <1>steps, Advances DEF Parse
  <2> QED
    BY <2>1, <2>2
<1>2. ASSUME NEW c \in Client, Write(c) PROVE CliTyped'
  BY <1>2, <1>steps, Advances DEF Write
<1>3. ASSUME NEW c \in Client, Sync(c) PROVE CliTyped'
  BY <1>3, <1>steps DEF Sync, CliTyped, Process
<1>4. ASSUME NEW c \in Client, Persist(c) PROVE CliTyped'
  BY <1>4, <1>steps, Advances DEF Persist
<1>5. ASSUME NEW c \in Client, CheckExists(c) PROVE CliTyped'
  <2>1. CASE file.policy = Absent
    BY <1>5, <2>1, <1>steps, Advances DEF CheckExists
  <2>2. CASE file.policy # Absent
    BY <1>5, <2>2, <1>steps, Advances DEF CheckExists
  <2> QED
    BY <2>1, <2>2
<1>6. ASSUME NEW c \in Client, Remove(c) PROVE CliTyped'
  BY <1>6, <1>steps, Advances DEF Remove
<1>7. ASSUME NEW c \in Client, SaveFails(c) PROVE CliTyped'
  BY <1>7, <1>steps, Advances DEF SaveFails
<1>8. ASSUME TerminalRuns PROVE CliTyped'
  <2>1. CASE \E q \in TypedIn :
               cli' = [cli EXCEPT !["terminal"] =
                         [step |-> "parse", policy |-> q, synced |-> FALSE]]
    <3>1. PICK q \in TypedIn :
            cli' = [cli EXCEPT !["terminal"] =
                      [step |-> "parse", policy |-> q, synced |-> FALSE]]
      BY <2>1
    <3>2. q \in Policies \cup {Invalid, Absent}
      BY SettingsAssumption
    <3> QED
      BY <3>1, <3>2, StartedTyped, Clients, Replaced
  <2>2. CASE cli' = [cli EXCEPT !["terminal"] =
                       [NoProcess EXCEPT !.step = "check"]]
    BY <2>2, NoProcessTyped, Clients, Replaced
  <2> QED
    BY <1>8, <2>1, <2>2 DEF TerminalRuns
<1>9. ASSUME TerminalEnds PROVE CliTyped'
  BY <1>9, NoProcessTyped, Clients, Replaced DEF TerminalEnds
<1>10. ASSUME Apply PROVE CliTyped'
  BY <1>10, StartedTyped, Clients, Replaced DEF Apply
<1>11. ASSUME SetSucceeds PROVE CliTyped'
  BY <1>11, NoProcessTyped, Clients, Replaced DEF SetSucceeds
<1>12. ASSUME SaveGivesUp PROVE CliTyped'
  BY <1>12, NoProcessTyped, Clients, Replaced DEF SaveGivesUp
<1>13. ASSUME PowerFails PROVE CliTyped'
  BY <1>13, NoProcessTyped DEF PowerFails, CliTyped
<1>14. ASSUME Open \/ Edit \/ PressDefaults \/ GetAnswers \/ GetFails \/
              Enable \/ Restart \/ Disable \/ UnitUpdated
       PROVE  CliTyped'
  BY <1>14 DEF Open, Edit, PressDefaults, GetAnswers, GetFails, Enable,
               Restart, Disable, UnitUpdated, CliTyped
<1>15. ASSUME JobStops \/ JobStarts \/ AgentChecks \/ AgentReads \/
              AgentRestarts \/ UnitStarts \/ AgentFails \/
              LimitReached \/ WriteBack \/ UNCHANGED vars
       PROVE  CliTyped'
  BY <1>15 DEF JobStops, JobStarts, AgentChecks, AgentReads, AgentRestarts,
               UnitStarts, AgentFails, LimitReached, WriteBack, vars,
               CliTyped
<1> QED
  BY <1>1, <1>2, <1>3, <1>4, <1>5, <1>6, <1>7, <1>8, <1>9, <1>10, <1>11,
     <1>12, <1>13, <1>14, <1>15
     DEF Next, CliStep, KcmStep, UnitStep

-----------------------------------------------------------------------------
(* The file *)

\* A policy, or nothing, whose text has reached the disk.
WholeEntry == [policy : Policies \cup {Absent}, synced : {TRUE}]

\* No directory entry, now or after a power failure, leads to a text that was
\* not validated or that is not all there.
Whole == file \in WholeEntry /\ stored \in WholeEntry

\* A process that has passed the validation saves an accepted policy, and one
\* that is about to rename has synced it.
ValidProcess(p) ==
  /\ p.step \in {"temporary", "written", "synced"} => p.policy \in Policies
  /\ p.step = "synced" => p.synced = TRUE

SavesValid == \A c \in Client : ValidProcess(cli[c])

\* A step of one process need only show that this process stays valid.
LEMMA OthersValid ==
  ASSUME SavesValid, NEW c \in Client, ValidProcess(cli'[c]),
         \A b \in Client \ {c} : cli'[b] = cli[b]
  PROVE  SavesValid'
BY DEF SavesValid

\* A process that does not save is valid.
LEMMA IdleValid ==
  ASSUME NEW p, p.step \notin {"temporary", "written", "synced"}
  PROVE  ValidProcess(p)
BY DEF ValidProcess

\* Every step keeps the processes that save valid.
LEMMA SavesValidStep ==
  CliTyped /\ SavesValid /\ kcm.form \in Policies /\ [Next]_vars => SavesValid'
<1> SUFFICES ASSUME CliTyped, SavesValid, kcm.form \in Policies
             PROVE  [Next]_vars => SavesValid'
  OBVIOUS
<1> USE DEF unit, history
<1>steps. {"temporary", "written", "synced", "done", "failed", "remove"}
            \subseteq ProcessStep
  BY DEF ProcessStep, Saving, Removal
<1>1. ASSUME NEW c \in Client, Parse(c) PROVE SavesValid'
  <2>1. CASE cli[c].policy \in Policies
    <3>1. /\ cli'[c].step = "temporary" /\ cli'[c].policy = cli[c].policy
          /\ \A b \in Client \ {c} : cli'[b] = cli[b]
      BY <1>1, <2>1, <1>steps, Advances DEF Parse
    <3> QED
      BY <2>1, <3>1, OthersValid DEF ValidProcess
  <2>2. CASE cli[c].policy \notin Policies
    <3>1. /\ cli'[c].step = "failed"
          /\ \A b \in Client \ {c} : cli'[b] = cli[b]
      BY <1>1, <2>2, <1>steps, Advances DEF Parse
    <3> QED
      BY <3>1, IdleValid, OthersValid
  <2> QED
    BY <2>1, <2>2
<1>2. ASSUME NEW c \in Client, Write(c) PROVE SavesValid'
  <2>1. /\ cli'[c].step = "written" /\ cli'[c].policy = cli[c].policy
        /\ \A b \in Client \ {c} : cli'[b] = cli[b]
    BY <1>2, <1>steps, Advances DEF Write
  <2>2. cli[c].policy \in Policies
    BY <1>2 DEF Write, SavesValid, ValidProcess
  <2> QED
    BY <2>1, <2>2, OthersValid DEF ValidProcess
<1>3. ASSUME NEW c \in Client, Sync(c) PROVE SavesValid'
  <2>1. /\ cli'[c].policy = cli[c].policy /\ cli'[c].synced = TRUE
        /\ \A b \in Client \ {c} : cli'[b] = cli[b]
    BY <1>3 DEF Sync, CliTyped, Process
  <2>2. cli[c].policy \in Policies
    BY <1>3 DEF Sync, SavesValid, ValidProcess
  <2> QED
    BY <2>1, <2>2, OthersValid DEF ValidProcess
<1>4. ASSUME NEW c \in Client, Persist(c) PROVE SavesValid'
  <2>1. PICK step \in {"done"} : Advance(c, step)
    BY <1>4 DEF Persist
  <2>2. cli'[c].step = step /\ \A b \in Client \ {c} : cli'[b] = cli[b]
    BY <2>1, <1>steps, Advances
  <2> QED
    BY <2>2, IdleValid, OthersValid
<1>5. ASSUME NEW c \in Client, SaveFails(c) PROVE SavesValid'
  <2>1. PICK step \in {"failed"} : Advance(c, step)
    BY <1>5 DEF SaveFails
  <2>2. cli'[c].step = step /\ \A b \in Client \ {c} : cli'[b] = cli[b]
    BY <2>1, <1>steps, Advances
  <2> QED
    BY <2>2, IdleValid, OthersValid
<1>6. ASSUME NEW c \in Client, CheckExists(c) PROVE SavesValid'
  <2>1. PICK step \in {"done", "remove"} : Advance(c, step)
    BY <1>6 DEF CheckExists
  <2>2. cli'[c].step = step /\ \A b \in Client \ {c} : cli'[b] = cli[b]
    BY <2>1, <1>steps, Advances
  <2> QED
    BY <2>2, IdleValid, OthersValid
<1>7. ASSUME NEW c \in Client, Remove(c) PROVE SavesValid'
  <2>1. PICK step \in {"done", "failed"} : Advance(c, step)
    BY <1>7 DEF Remove
  <2>2. cli'[c].step = step /\ \A b \in Client \ {c} : cli'[b] = cli[b]
    BY <2>1, <1>steps, Advances
  <2> QED
    BY <2>2, IdleValid, OthersValid
<1>8. ASSUME TerminalRuns PROVE SavesValid'
  <2>1. PICK q \in Process :
          /\ cli' = [cli EXCEPT !["terminal"] = q]
          /\ q.step \in {"parse", "check"}
    <3>1. TypedIn \subseteq Policies \cup {Invalid, Absent}
      BY SettingsAssumption
    <3> QED
      BY <1>8, <3>1, StartedTyped, NoProcessTyped DEF TerminalRuns
  <2> QED
    BY <2>1, Clients, Replaced, IdleValid, OthersValid
<1>9. ASSUME TerminalEnds PROVE SavesValid'
  <2>1. cli' = [cli EXCEPT !["terminal"] = NoProcess]
    BY <1>9 DEF TerminalEnds
  <2>2. /\ cli'["terminal"].step = "none"
        /\ \A b \in Client \ {"terminal"} : cli'[b] = cli[b]
    BY <2>1, NoProcessTyped, Clients, Replaced
  <2> QED
    BY <2>2, Clients, IdleValid, OthersValid
<1>10. ASSUME Apply PROVE SavesValid'
  <2> DEFINE q == [step |-> "parse", policy |-> kcm.form, synced |-> FALSE]
  <2>1. q \in Process /\ q.step = "parse"
    BY StartedTyped
  <2>2. cli' = [cli EXCEPT !["kcm"] = q]
    BY <1>10 DEF Apply
  <2> HIDE DEF q
  <2>3. cli'["kcm"] = q /\ \A b \in Client \ {"kcm"} : cli'[b] = cli[b]
    BY <2>1, <2>2, Clients, Replaced
  <2>4. ValidProcess(cli'["kcm"])
    BY <2>1, <2>3, IdleValid
  <2> QED
    BY <2>3, <2>4, Clients, OthersValid
<1>11. ASSUME SetSucceeds PROVE SavesValid'
  <2>1. cli' = [cli EXCEPT !["kcm"] = NoProcess]
    BY <1>11 DEF SetSucceeds
  <2>2. /\ cli'["kcm"].step = "none"
        /\ \A b \in Client \ {"kcm"} : cli'[b] = cli[b]
    BY <2>1, NoProcessTyped, Clients, Replaced
  <2> QED
    BY <2>2, Clients, IdleValid, OthersValid
<1>12. ASSUME SaveGivesUp PROVE SavesValid'
  <2>1. cli' = [cli EXCEPT !["kcm"] = NoProcess]
    BY <1>12 DEF SaveGivesUp
  <2>2. /\ cli'["kcm"].step = "none"
        /\ \A b \in Client \ {"kcm"} : cli'[b] = cli[b]
    BY <2>1, NoProcessTyped, Clients, Replaced
  <2> QED
    BY <2>2, Clients, IdleValid, OthersValid
<1>13. ASSUME PowerFails PROVE SavesValid'
  BY <1>13, NoProcessTyped, IdleValid DEF PowerFails, SavesValid
<1>14. ASSUME Open \/ Edit \/ PressDefaults \/ GetAnswers \/ GetFails \/
              Enable \/ Restart \/ Disable \/ UnitUpdated
       PROVE  SavesValid'
  BY <1>14 DEF Open, Edit, PressDefaults, GetAnswers, GetFails, Enable,
               Restart, Disable, UnitUpdated, SavesValid
<1>15. ASSUME JobStops \/ JobStarts \/ AgentChecks \/ AgentReads \/
              AgentRestarts \/ UnitStarts \/ AgentFails \/
              LimitReached \/ WriteBack \/ UNCHANGED vars
       PROVE  SavesValid'
  BY <1>15 DEF JobStops, JobStarts, AgentChecks, AgentReads, AgentRestarts,
               UnitStarts, AgentFails, LimitReached, WriteBack, vars,
               SavesValid
<1> QED
  BY <1>1, <1>2, <1>3, <1>4, <1>5, <1>6, <1>7, <1>8, <1>9, <1>10, <1>11,
     <1>12, <1>13, <1>14, <1>15
     DEF Next, CliStep, KcmStep, UnitStep

\* Every step keeps the file whole.
LEMMA WholeStep ==
  CliTyped /\ SavesValid /\ Whole /\ [Next]_vars => Whole'
<1> SUFFICES ASSUME CliTyped, SavesValid, Whole PROVE [Next]_vars => Whole'
  OBVIOUS
<1> USE DEF unit, history
<1>none. NoFile \in WholeEntry
  BY DEF NoFile, WholeEntry
<1>1. ASSUME NEW c \in Client, Persist(c) PROVE Whole'
  <2>1. cli[c].policy \in Policies /\ cli[c].synced = TRUE
    BY <1>1 DEF Persist, SavesValid, ValidProcess
  <2>2. [policy |-> cli[c].policy, synced |-> TRUE] \in WholeEntry
    BY <2>1 DEF WholeEntry
  <2>3. file' = [policy |-> cli[c].policy, synced |-> TRUE] /\ stored' = stored
    BY <1>1, <2>1 DEF Persist
  <2> QED
    BY <2>2, <2>3 DEF Whole
<1>2. ASSUME NEW c \in Client, Remove(c) PROVE Whole'
  BY <1>2, <1>none DEF Remove, Whole
<1>3. ASSUME NEW c \in Client, Parse(c) PROVE Whole'
  BY <1>3 DEF Parse, Whole
<1>4. ASSUME NEW c \in Client, Write(c) PROVE Whole'
  BY <1>4 DEF Write, Whole
<1>5. ASSUME NEW c \in Client, Sync(c) PROVE Whole'
  BY <1>5 DEF Sync, Whole
<1>6. ASSUME NEW c \in Client, CheckExists(c) PROVE Whole'
  BY <1>6 DEF CheckExists, Whole
<1>7. ASSUME NEW c \in Client, SaveFails(c) PROVE Whole'
  BY <1>7 DEF SaveFails, Whole
<1>8. ASSUME PowerFails PROVE Whole'
  <2>1. stored.synced = TRUE
    BY DEF Whole, WholeEntry
  <2>2. file' = stored
    BY <1>8, <2>1 DEF PowerFails
  <2>3. stored' \in {stored, NoFile}
    BY <1>8, <2>2 DEF PowerFails
  <2> QED
    BY <2>2, <2>3, <1>none DEF Whole
<1>9. ASSUME TerminalRuns \/ TerminalEnds \/ Apply \/ SetSucceeds \/
             SaveGivesUp
      PROVE  Whole'
  BY <1>9 DEF TerminalRuns, TerminalEnds, Apply, SetSucceeds, SaveGivesUp,
              Whole
<1>10. ASSUME Open \/ Edit \/ PressDefaults \/ GetAnswers \/ GetFails \/
              Enable \/ Restart \/ Disable \/ UnitUpdated
       PROVE  Whole'
  BY <1>10 DEF Open, Edit, PressDefaults, GetAnswers, GetFails, Enable,
               Restart, Disable, UnitUpdated, Whole
<1>11. ASSUME JobStops \/ JobStarts \/ AgentChecks \/ AgentReads \/
              AgentRestarts \/ UnitStarts \/ AgentFails \/
              LimitReached \/ WriteBack \/ UNCHANGED vars
       PROVE  Whole'
  BY <1>11 DEF JobStops, JobStarts, AgentChecks, AgentReads, AgentRestarts,
               UnitStarts, AgentFails, LimitReached, WriteBack, vars, Whole
<1> QED
  BY <1>1, <1>2, <1>3, <1>4, <1>5, <1>6, <1>7, <1>8, <1>9, <1>10, <1>11
     DEF Next, CliStep, KcmStep, UnitStep

-----------------------------------------------------------------------------
(* Types *)

Window == [step : {"closed", "idle", "get"} \cup Waiting,
           form : Policies, needsSave : BOOLEAN, error : BOOLEAN]

WindowTyped == kcm \in Window

\* Every step keeps the type of the KDE module.
LEMMA WindowTypedStep == WindowTyped /\ [Next]_vars => WindowTyped'
<1> SUFFICES ASSUME WindowTyped PROVE [Next]_vars => WindowTyped'
  OBVIOUS
<1> USE SettingsAssumption DEF WindowTyped, Window, Waiting, unit, history
<1>1. ASSUME NEW c \in Client, Parse(c) PROVE WindowTyped'
  BY <1>1 DEF Parse
<1>2. ASSUME NEW c \in Client, Write(c) PROVE WindowTyped'
  BY <1>2 DEF Write
<1>3. ASSUME NEW c \in Client, Sync(c) PROVE WindowTyped'
  BY <1>3 DEF Sync
<1>4. ASSUME NEW c \in Client, Persist(c) PROVE WindowTyped'
  BY <1>4 DEF Persist
<1>5. ASSUME NEW c \in Client, CheckExists(c) PROVE WindowTyped'
  BY <1>5 DEF CheckExists
<1>6. ASSUME NEW c \in Client, Remove(c) PROVE WindowTyped'
  BY <1>6 DEF Remove
<1>7. ASSUME NEW c \in Client, SaveFails(c) PROVE WindowTyped'
  BY <1>7 DEF SaveFails
<1>8. ASSUME TerminalRuns \/ TerminalEnds \/ JobStops \/ JobStarts \/
             AgentChecks \/ AgentReads \/ AgentRestarts \/
             UnitStarts \/ AgentFails \/ LimitReached \/ WriteBack \/
             UNCHANGED vars
      PROVE  WindowTyped'
  BY <1>8 DEF TerminalRuns, TerminalEnds, JobStops, JobStarts, AgentChecks,
              AgentReads, AgentRestarts, UnitStarts, AgentFails,
              LimitReached, WriteBack, vars
<1>9. ASSUME GetAnswers PROVE WindowTyped'
  <2>1. Loaded \in Policies
    BY <1>9 DEF GetAnswers, Loadable, Loaded
  <2> QED
    BY <1>9, <2>1 DEF GetAnswers
<1>10. ASSUME Open PROVE WindowTyped'
  BY <1>10 DEF Open
<1>11. ASSUME Edit PROVE WindowTyped'
  BY <1>11 DEF Edit
<1>12. ASSUME PressDefaults PROVE WindowTyped'
  BY <1>12 DEF PressDefaults
<1>13. ASSUME Apply PROVE WindowTyped'
  BY <1>13 DEF Apply
<1>14. ASSUME GetFails PROVE WindowTyped'
  BY <1>14 DEF GetFails
<1>15. ASSUME SetSucceeds PROVE WindowTyped'
  BY <1>15 DEF SetSucceeds
<1>16. ASSUME Enable PROVE WindowTyped'
  BY <1>16 DEF Enable
<1>17. ASSUME Restart PROVE WindowTyped'
  BY <1>17 DEF Restart
<1>18. ASSUME Disable PROVE WindowTyped'
  BY <1>18 DEF Disable
<1>19. ASSUME UnitUpdated PROVE WindowTyped'
  BY <1>19 DEF UnitUpdated
<1>20. ASSUME SaveGivesUp PROVE WindowTyped'
  BY <1>20 DEF SaveGivesUp
<1>21. ASSUME PowerFails PROVE WindowTyped'
  BY <1>21 DEF PowerFails
<1> QED
  BY <1>1, <1>2, <1>3, <1>4, <1>5, <1>6, <1>7, <1>8, <1>9, <1>10, <1>11,
     <1>12, <1>13, <1>14, <1>15, <1>16, <1>17, <1>18, <1>19, <1>20,
     <1>21
     DEF Next, CliStep, KcmStep, UnitStep

UnitTyped ==
  /\ agent \in {"off", "starting", "reading", "on", "failed", "dead"}
  /\ running \in Policies \cup {Absent}
  /\ job \in {"none", "restart", "start", "stop", "failed"}
  /\ enabled \in BOOLEAN /\ foreign \in BOOLEAN
  /\ confirmed \in Policies \cup {Absent}
  /\ losses \in 0..MaxLosses

\* Every step keeps the types of the unit and of the history.
LEMMA UnitTypedStep ==
  UnitTyped /\ kcm.form \in Policies /\ [Next]_vars => UnitTyped'
<1> SUFFICES ASSUME UnitTyped, kcm.form \in Policies
             PROVE  [Next]_vars => UnitTyped'
  OBVIOUS
<1> USE SettingsAssumption DEF UnitTyped, unit, history
<1>1. ASSUME NEW c \in Client, Parse(c) PROVE UnitTyped'
  BY <1>1 DEF Parse
<1>2. ASSUME NEW c \in Client, Write(c) PROVE UnitTyped'
  BY <1>2 DEF Write
<1>3. ASSUME NEW c \in Client, Sync(c) PROVE UnitTyped'
  BY <1>3 DEF Sync
<1>4. ASSUME NEW c \in Client, Persist(c) PROVE UnitTyped'
  BY <1>4 DEF Persist, Written
<1>5. ASSUME NEW c \in Client, CheckExists(c) PROVE UnitTyped'
  BY <1>5 DEF CheckExists
<1>6. ASSUME NEW c \in Client, Remove(c) PROVE UnitTyped'
  BY <1>6 DEF Remove, Written
<1>7. ASSUME NEW c \in Client, SaveFails(c) PROVE UnitTyped'
  BY <1>7 DEF SaveFails
<1>8. ASSUME TerminalRuns PROVE UnitTyped'
  BY <1>8 DEF TerminalRuns
<1>9. ASSUME TerminalEnds PROVE UnitTyped'
  BY <1>9 DEF TerminalEnds
<1>10. ASSUME Open PROVE UnitTyped'
  BY <1>10 DEF Open
<1>11. ASSUME Edit PROVE UnitTyped'
  BY <1>11 DEF Edit
<1>12. ASSUME PressDefaults PROVE UnitTyped'
  BY <1>12 DEF PressDefaults
<1>13. ASSUME Apply PROVE UnitTyped'
  BY <1>13 DEF Apply
<1>14. ASSUME GetAnswers PROVE UnitTyped'
  BY <1>14 DEF GetAnswers
<1>15. ASSUME GetFails PROVE UnitTyped'
  BY <1>15 DEF GetFails
<1>16. ASSUME SetSucceeds PROVE UnitTyped'
  BY <1>16 DEF SetSucceeds
<1>17. ASSUME Enable PROVE UnitTyped'
  BY <1>17 DEF Enable
<1>18. ASSUME Restart PROVE UnitTyped'
  BY <1>18 DEF Restart
<1>19. ASSUME Disable PROVE UnitTyped'
  BY <1>19 DEF Disable
<1>20. ASSUME UnitUpdated PROVE UnitTyped'
  BY <1>20 DEF UnitUpdated
<1>21. ASSUME SaveGivesUp PROVE UnitTyped'
  BY <1>21 DEF SaveGivesUp
<1>22. ASSUME JobStops PROVE UnitTyped'
  BY <1>22 DEF JobStops
<1>23. ASSUME JobStarts PROVE UnitTyped'
  BY <1>23 DEF JobStarts
<1>24. ASSUME AgentChecks PROVE UnitTyped'
  BY <1>24 DEF AgentChecks
<1>25. ASSUME AgentReads PROVE UnitTyped'
  BY <1>25 DEF AgentReads
<1>26. ASSUME AgentRestarts PROVE UnitTyped'
  BY <1>26 DEF AgentRestarts
<1>27. ASSUME UnitStarts PROVE UnitTyped'
  BY <1>27 DEF UnitStarts
<1>28. ASSUME AgentFails PROVE UnitTyped'
  BY <1>28 DEF AgentFails
<1>29. ASSUME LimitReached PROVE UnitTyped'
  BY <1>29 DEF LimitReached
<1>30. ASSUME WriteBack PROVE UnitTyped'
  BY <1>30 DEF WriteBack
<1>31. ASSUME PowerFails PROVE UnitTyped'
  <2>1. losses' \in 0..MaxLosses
    BY <1>31 DEF PowerFails
  <2> QED
    BY <1>31, <2>1 DEF PowerFails
<1>32. ASSUME UNCHANGED vars
       PROVE  UnitTyped'
  BY <1>32 DEF vars
<1> QED
  BY <1>1, <1>2, <1>3, <1>4, <1>5, <1>6, <1>7, <1>8, <1>9, <1>10, <1>11,
     <1>12, <1>13, <1>14, <1>15, <1>16, <1>17, <1>18, <1>19, <1>20,
     <1>21, <1>22, <1>23, <1>24, <1>25, <1>26, <1>27, <1>28, <1>29,
     <1>30, <1>31, <1>32
     DEF Next, CliStep, KcmStep, UnitStep

\* What the types and the whole file rest on.
Saved == CliTyped /\ WindowTyped /\ UnitTyped /\ SavesValid /\ Whole

LEMMA SavedInit == Init => Saved
<1> SUFFICES ASSUME Init PROVE Saved
  OBVIOUS
<1>1. cli = [c \in Client |-> NoProcess]
  BY DEF Init
<1>2. CliTyped /\ \A c \in Client : cli[c].step = "none"
  BY <1>1, NoProcessTyped DEF CliTyped
<1>3. SavesValid
  BY <1>2, IdleValid DEF SavesValid
<1>4. WindowTyped /\ UnitTyped
  <2>1. WindowTyped
    BY SettingsAssumption DEF Init, WindowTyped, Window
  <2>2. 0 \in 0..MaxLosses
    BY SettingsAssumption
  <2>3. UnitTyped
    BY <2>2 DEF Init, UnitTyped
  <2> QED
    BY <2>1, <2>3
<1>5. Whole
  BY DEF Init, Whole, WholeEntry, NoFile
<1> QED
  BY <1>2, <1>3, <1>4, <1>5 DEF Saved

LEMMA SavedStep == Saved /\ [Next]_vars => Saved'
<1>1. WindowTyped => kcm.form \in Policies
  BY DEF WindowTyped, Window
<1> QED
  BY <1>1, CliTypedStep, SavesValidStep, WholeStep, WindowTypedStep,
     UnitTypedStep DEF Saved

LEMMA SavedIsTypeOK == Saved => TypeOK
<1> SUFFICES ASSUME Saved PROVE TypeOK
  OBVIOUS
<1>1. file \in Entry /\ stored \in Entry
  BY DEF Saved, Whole, WholeEntry, Entry
<1>2. cli \in [Client ->
         [step : {"none", "done", "failed"} \cup Saving \cup Removal,
          policy : Policies \cup {Invalid, Absent}, synced : BOOLEAN]]
  BY DEF Saved, CliTyped, Process, ProcessStep
<1>3. kcm \in
         [step : {"closed", "idle", "get", "set", "enable", "restart",
                  "restarting", "disable", "stopping"},
          form : Policies, needsSave : BOOLEAN, error : BOOLEAN]
  BY DEF Saved, WindowTyped, Window, Waiting
<1> QED
  BY <1>1, <1>2, <1>3 DEF Saved, UnitTyped, TypeOK

\* The variables keep their types.
THEOREM TypeCorrect == Spec => []TypeOK
BY SavedInit, SavedStep, SavedIsTypeOK, PTL DEF Spec

\* Whatever saves and resets run at the same time, wherever they are killed or
\* fail, and after any number of power failures, the policy file is absent or a
\* whole policy that was validated.
THEOREM FileStaysLoadable == Spec => []FileIsLoadable
<1>1. Saved => FileIsLoadable
  BY DEF Saved, Whole, WholeEntry, FileIsLoadable, Loadable
<1> QED
  BY <1>1, SavedInit, SavedStep, PTL DEF Spec

-----------------------------------------------------------------------------
(* The KDE module, the file and the unit *)

\* The module's process saves the form, while the module waits for it.
KcmSaves ==
  /\ cli["kcm"].step \notin Removal
  /\ cli["kcm"].step # "none" =>
       kcm.step = "set" /\ cli["kcm"].policy = kcm.form

\* The steps of a save after the file has been written.
Updating == {"enable", "restart", "restarting", "disable", "stopping"}

\* Once the form is written it stays what the file says, until the terminal
\* writes.
FormSaved ==
  ~foreign /\ (kcm.step \in Updating \/ cli["kcm"].step = "done") =>
    file.policy = kcm.form

\* The unit is enabled and restarted, or disabled, as the form's switch says.
Switched ==
  /\ kcm.step \in {"enable", "restart", "restarting"} => kcm.form \in Enabled
  /\ kcm.step \in {"disable", "stopping"} => kcm.form \notin Enabled

\* What the job that the module waits for leaves behind, whatever jobs of
\* earlier saves were still waiting.
UnitFollows ==
  /\ job = "start" => agent = "off"
  /\ kcm.step = "restarting" =>
       /\ job # "stop"
       /\ ~foreign /\ job = "none" => (agent = "on" => running = kcm.form)
  /\ kcm.step = "stopping" =>
       /\ ~enabled /\ job \in {"stop", "none"}
       /\ job = "none" => agent = "off"

\* After a save that was carried through nothing is under way, and the file has
\* what was saved.
ConfirmedRests ==
  confirmed # Absent =>
    kcm.step \notin Waiting /\ job = "none" /\ file.policy = confirmed

Follows ==
  /\ KcmSaves /\ FormSaved /\ Switched /\ UnitFollows /\ ConfirmedRests
  /\ AppliedPolicyRuns /\ CleanFormIsSaved

\* A step at the terminal leaves the module's process alone, and what it writes
\* is remembered.
LEMMA TerminalEffect ==
  ASSUME CliTyped,
         CliStep("terminal") \/ SaveFails("terminal") \/ TerminalRuns \/
         TerminalEnds
  PROVE  /\ cli'["kcm"] = cli["kcm"]
         /\ UNCHANGED <<kcm, agent, running, job, enabled>>
         /\ \/ foreign' = TRUE /\ confirmed' = Absent
            \/ UNCHANGED <<file, foreign, confirmed>>
<1> USE DEF unit, history
<1>1. CASE CliStep("terminal") \/ SaveFails("terminal")
  <2>1. cli'["kcm"] = cli["kcm"]
    BY <1>1 DEF CliStep, Parse, Write, Sync, Persist, CheckExists, Remove,
                SaveFails, Advance, CliTyped, Client
  <2>2. UNCHANGED <<kcm, agent, running, job, enabled>>
    BY <1>1 DEF CliStep, Parse, Write, Sync, Persist, CheckExists, Remove,
                SaveFails
  <2>3. \/ foreign' = TRUE /\ confirmed' = Absent
        \/ UNCHANGED <<file, foreign, confirmed>>
    BY <1>1 DEF CliStep, Parse, Write, Sync, Persist, CheckExists, Remove,
                SaveFails, Written
  <2> QED
    BY <2>1, <2>2, <2>3
<1>2. CASE TerminalRuns \/ TerminalEnds
  <2>1. cli'["kcm"] = cli["kcm"]
    BY <1>2 DEF TerminalRuns, TerminalEnds, CliTyped, Client
  <2> QED
    BY <1>2, <2>1 DEF TerminalRuns, TerminalEnds
<1> QED
  BY <1>1, <1>2

\* A step of the module's process happens while the module waits, and is done
\* with the write of its policy.
LEMMA SaveEffect ==
  ASSUME CliTyped, KcmSaves, CliStep("kcm") \/ SaveFails("kcm")
  PROVE  /\ kcm.step = "set" /\ cli["kcm"].policy = kcm.form
         /\ cli'["kcm"].policy = cli["kcm"].policy
         /\ cli'["kcm"].step \notin Removal
         /\ UNCHANGED <<kcm, agent, running, job, enabled, confirmed>>
         /\ \/ foreign' = FALSE /\ file'.policy = cli["kcm"].policy
            \/ cli'["kcm"].step # "done" /\ UNCHANGED <<file, foreign>>
<1> USE DEF unit, history, KcmSaves, Removal
<1>k. "kcm" \in Client /\ cli["kcm"] \in Process
  BY DEF Client, CliTyped
<1>1. CASE Parse("kcm")
  <2>1. PICK step \in {"temporary", "failed"} : Advance("kcm", step)
    BY <1>1 DEF Parse
  <2>2. /\ cli'["kcm"].step = step
        /\ cli'["kcm"].policy = cli["kcm"].policy
    BY <2>1, <1>k, Advances DEF ProcessStep, Saving
  <2> QED
    BY <1>1, <2>2 DEF Parse
<1>2. CASE Write("kcm") \/ SaveFails("kcm")
  <2>1. PICK step \in {"written", "failed"} : Advance("kcm", step)
    BY <1>2 DEF Write, SaveFails
  <2>2. /\ cli'["kcm"].step = step
        /\ cli'["kcm"].policy = cli["kcm"].policy
    BY <2>1, <1>k, Advances DEF ProcessStep, Saving
  <2> QED
    BY <1>2, <2>2 DEF Write, SaveFails, Saving
<1>3. CASE Sync("kcm")
  <2>1. cli'["kcm"].step = "synced" /\ cli'["kcm"].policy = cli["kcm"].policy
    BY <1>3, <1>k DEF Sync, CliTyped, Process
  <2> QED
    BY <1>3, <2>1 DEF Sync
<1>4. CASE Persist("kcm")
  <2>1. /\ cli'["kcm"].step = "done"
        /\ cli'["kcm"].policy = cli["kcm"].policy
    BY <1>4, <1>k, Advances DEF Persist, ProcessStep
  <2> QED
    BY <1>4, <2>1 DEF Persist, Written
<1>5. ~CheckExists("kcm") /\ ~Remove("kcm")
  BY DEF CheckExists, Remove
<1> QED
  BY <1>1, <1>2, <1>3, <1>4, <1>5 DEF CliStep

\* The module starts a process with the form, and forgets it when it has ended
\* or is killed.
LEMMA ReplaceEffect ==
  ASSUME CliTyped, WindowTyped
  PROVE  /\ Apply => /\ cli'["kcm"].step = "parse"
                     /\ cli'["kcm"].policy = kcm.form
         /\ SetSucceeds \/ SaveGivesUp \/ PowerFails =>
              cli'["kcm"].step = "none"
<1>1. ASSUME Apply
      PROVE  cli'["kcm"].step = "parse" /\ cli'["kcm"].policy = kcm.form
  BY <1>1 DEF Apply, CliTyped, Client
<1>2. ASSUME SetSucceeds \/ SaveGivesUp PROVE cli'["kcm"].step = "none"
  BY <1>2 DEF SetSucceeds, SaveGivesUp, CliTyped, Client, NoProcess
<1>3. ASSUME PowerFails PROVE cli'["kcm"].step = "none"
  BY <1>3 DEF PowerFails, Client, NoProcess
<1> QED
  BY <1>1, <1>2, <1>3

\* Every step keeps the module and its process together.
LEMMA KcmSavesStep ==
  ASSUME CliTyped, WindowTyped, KcmSaves, [Next]_vars
  PROVE  KcmSaves'
<1> USE DEF unit, history, WindowTyped, Window, KcmSaves, Removal, Waiting
<1>1. ASSUME CliStep("terminal") \/ SaveFails("terminal") \/
             TerminalRuns \/ TerminalEnds
      PROVE  KcmSaves'
  BY <1>1, TerminalEffect
<1>2. ASSUME CliStep("kcm") \/ SaveFails("kcm") PROVE KcmSaves'
  BY <1>2, SaveEffect
<1>3. ASSUME Apply PROVE KcmSaves'
  BY <1>3, ReplaceEffect DEF Apply
<1>4. ASSUME SetSucceeds PROVE KcmSaves'
  BY <1>4, ReplaceEffect DEF SetSucceeds
<1>5. ASSUME SaveGivesUp PROVE KcmSaves'
  BY <1>5, ReplaceEffect DEF SaveGivesUp
<1>6. ASSUME PowerFails PROVE KcmSaves'
  BY <1>6, ReplaceEffect DEF PowerFails
<1>7. ASSUME Open PROVE KcmSaves'
  BY <1>7 DEF Open
<1>8. ASSUME GetAnswers \/ GetFails PROVE KcmSaves'
  BY <1>8 DEF GetAnswers, GetFails
<1>9. ASSUME Edit \/ PressDefaults PROVE KcmSaves'
  BY <1>9 DEF Edit, PressDefaults
<1>10. ASSUME Enable PROVE KcmSaves'
  BY <1>10 DEF Enable
<1>11. ASSUME Restart PROVE KcmSaves'
  BY <1>11 DEF Restart
<1>12. ASSUME Disable PROVE KcmSaves'
  BY <1>12 DEF Disable
<1>13. ASSUME UnitUpdated PROVE KcmSaves'
  BY <1>13 DEF UnitUpdated
<1>14. ASSUME JobStops \/ JobStarts \/ UnitStarts \/ AgentChecks \/
              AgentReads \/ AgentFails \/ AgentRestarts \/ LimitReached \/
              WriteBack
       PROVE  KcmSaves'
  BY <1>14 DEF JobStops, JobStarts, UnitStarts, AgentChecks, AgentReads,
               AgentFails, AgentRestarts, LimitReached, WriteBack
<1>15. ASSUME UNCHANGED vars PROVE KcmSaves'
  BY <1>15 DEF vars
<1> QED
  BY <1>1, <1>2, <1>3, <1>4, <1>5, <1>6, <1>7, <1>8, <1>9, <1>10, <1>11,
     <1>12, <1>13, <1>14, <1>15
     DEF Next, KcmStep, UnitStep, Client

\* Every step keeps the form that was written and the file together.
LEMMA FormSavedStep ==
  ASSUME CliTyped, WindowTyped, KcmSaves, FormSaved, [Next]_vars
  PROVE  FormSaved'
<1> USE DEF unit, history, WindowTyped, Window, KcmSaves, Updating, FormSaved,
             Waiting
<1>1. ASSUME CliStep("terminal") \/ SaveFails("terminal") \/
             TerminalRuns \/ TerminalEnds
      PROVE  FormSaved'
  BY <1>1, TerminalEffect
<1>2. ASSUME CliStep("kcm") \/ SaveFails("kcm") PROVE FormSaved'
  BY <1>2, SaveEffect
<1>3. ASSUME Apply PROVE FormSaved'
  BY <1>3, ReplaceEffect DEF Apply
<1>4. ASSUME SetSucceeds PROVE FormSaved'
  BY <1>4, ReplaceEffect DEF SetSucceeds
<1>5. ASSUME SaveGivesUp PROVE FormSaved'
  BY <1>5, ReplaceEffect DEF SaveGivesUp
<1>6. ASSUME PowerFails PROVE FormSaved'
  BY <1>6, ReplaceEffect DEF PowerFails
<1>7. ASSUME Open PROVE FormSaved'
  BY <1>7 DEF Open
<1>8. ASSUME GetAnswers \/ GetFails PROVE FormSaved'
  BY <1>8 DEF GetAnswers, GetFails
<1>9. ASSUME Edit \/ PressDefaults PROVE FormSaved'
  BY <1>9 DEF Edit, PressDefaults
<1>10. ASSUME Enable PROVE FormSaved'
  BY <1>10 DEF Enable
<1>11. ASSUME Restart PROVE FormSaved'
  BY <1>11 DEF Restart
<1>12. ASSUME Disable PROVE FormSaved'
  BY <1>12 DEF Disable
<1>13. ASSUME UnitUpdated PROVE FormSaved'
  BY <1>13 DEF UnitUpdated
<1>14. ASSUME JobStops \/ JobStarts \/ UnitStarts \/ AgentChecks \/
              AgentReads \/ AgentFails \/ AgentRestarts \/ LimitReached \/
              WriteBack
       PROVE  FormSaved'
  BY <1>14 DEF JobStops, JobStarts, UnitStarts, AgentChecks, AgentReads,
               AgentFails, AgentRestarts, LimitReached, WriteBack
<1>15. ASSUME UNCHANGED vars PROVE FormSaved'
  BY <1>15 DEF vars
<1> QED
  BY <1>1, <1>2, <1>3, <1>4, <1>5, <1>6, <1>7, <1>8, <1>9, <1>10, <1>11,
     <1>12, <1>13, <1>14, <1>15
     DEF Next, KcmStep, UnitStep, Client

\* Every step keeps the commands and the form's switch together.
LEMMA SwitchedStep ==
  ASSUME CliTyped, WindowTyped, KcmSaves, Switched, [Next]_vars
  PROVE  Switched'
<1> USE DEF unit, history, WindowTyped, Window, Switched, Waiting
<1>1. ASSUME CliStep("terminal") \/ SaveFails("terminal") \/
             TerminalRuns \/ TerminalEnds
      PROVE  Switched'
  BY <1>1, TerminalEffect
<1>2. ASSUME CliStep("kcm") \/ SaveFails("kcm") PROVE Switched'
  BY <1>2, SaveEffect
<1>3. ASSUME Apply PROVE Switched'
  BY <1>3, ReplaceEffect DEF Apply
<1>4. ASSUME SetSucceeds PROVE Switched'
  BY <1>4, ReplaceEffect DEF SetSucceeds
<1>5. ASSUME SaveGivesUp PROVE Switched'
  BY <1>5, ReplaceEffect DEF SaveGivesUp
<1>6. ASSUME PowerFails PROVE Switched'
  BY <1>6, ReplaceEffect DEF PowerFails
<1>7. ASSUME Open PROVE Switched'
  BY <1>7 DEF Open
<1>8. ASSUME GetAnswers \/ GetFails PROVE Switched'
  BY <1>8 DEF GetAnswers, GetFails
<1>9. ASSUME Edit \/ PressDefaults PROVE Switched'
  BY <1>9 DEF Edit, PressDefaults
<1>10. ASSUME Enable PROVE Switched'
  BY <1>10 DEF Enable
<1>11. ASSUME Restart PROVE Switched'
  BY <1>11 DEF Restart
<1>12. ASSUME Disable PROVE Switched'
  BY <1>12 DEF Disable
<1>13. ASSUME UnitUpdated PROVE Switched'
  BY <1>13 DEF UnitUpdated
<1>14. ASSUME JobStops \/ JobStarts \/ UnitStarts \/ AgentChecks \/
              AgentReads \/ AgentFails \/ AgentRestarts \/ LimitReached \/
              WriteBack
       PROVE  Switched'
  BY <1>14 DEF JobStops, JobStarts, UnitStarts, AgentChecks, AgentReads,
               AgentFails, AgentRestarts, LimitReached, WriteBack
<1>15. ASSUME UNCHANGED vars PROVE Switched'
  BY <1>15 DEF vars
<1> QED
  BY <1>1, <1>2, <1>3, <1>4, <1>5, <1>6, <1>7, <1>8, <1>9, <1>10, <1>11,
     <1>12, <1>13, <1>14, <1>15
     DEF Next, KcmStep, UnitStep, Client

\* Every step keeps the unit in line with the command that was given last.
LEMMA UnitFollowsStep ==
  ASSUME CliTyped, WindowTyped, KcmSaves, UnitTyped,
         FormSaved, UnitFollows, [Next]_vars
  PROVE  UnitFollows'
<1> USE SettingsAssumption DEF unit, history, WindowTyped, Window, UnitTyped,
             Updating, UnitFollows, Waiting
<1>1. ASSUME CliStep("terminal") \/ SaveFails("terminal") \/
             TerminalRuns \/ TerminalEnds
      PROVE  UnitFollows'
  <2>1. UNCHANGED <<kcm, agent, running, job, enabled>>
    BY <1>1, TerminalEffect
  <2>2. foreign' = TRUE \/ foreign' = foreign
    BY <1>1, TerminalEffect
  <2>3. CASE foreign' = TRUE
    BY <2>1, <2>3
  <2>4. CASE foreign' = foreign
    BY <2>1, <2>4
  <2> QED
    BY <2>2, <2>3, <2>4
<1>2. ASSUME CliStep("kcm") \/ SaveFails("kcm") PROVE UnitFollows'
  BY <1>2, SaveEffect
<1>3. ASSUME Apply PROVE UnitFollows'
  BY <1>3, ReplaceEffect DEF Apply
<1>4. ASSUME SetSucceeds PROVE UnitFollows'
  BY <1>4, ReplaceEffect DEF SetSucceeds
<1>5. ASSUME SaveGivesUp PROVE UnitFollows'
  BY <1>5, ReplaceEffect DEF SaveGivesUp
<1>6. ASSUME PowerFails PROVE UnitFollows'
  BY <1>6, ReplaceEffect DEF PowerFails
<1>7. ASSUME Open PROVE UnitFollows'
  BY <1>7 DEF Open
<1>8. ASSUME GetAnswers \/ GetFails PROVE UnitFollows'
  BY <1>8 DEF GetAnswers, GetFails
<1>9. ASSUME Edit \/ PressDefaults PROVE UnitFollows'
  BY <1>9 DEF Edit, PressDefaults
<1>10. ASSUME Enable PROVE UnitFollows'
  BY <1>10 DEF Enable
<1>11. ASSUME Restart PROVE UnitFollows'
  BY <1>11 DEF Restart
<1>12. ASSUME Disable PROVE UnitFollows'
  BY <1>12 DEF Disable
<1>13. ASSUME UnitUpdated PROVE UnitFollows'
  BY <1>13 DEF UnitUpdated
<1>14. ASSUME JobStops PROVE UnitFollows'
  BY <1>14 DEF JobStops
<1>15. ASSUME JobStarts PROVE UnitFollows'
  BY <1>15 DEF JobStarts
<1>16. ASSUME UnitStarts PROVE UnitFollows'
  BY <1>16 DEF UnitStarts
<1>17. ASSUME AgentChecks PROVE UnitFollows'
  BY <1>17 DEF AgentChecks, FormSaved
<1>18. ASSUME AgentReads PROVE UnitFollows'
  BY <1>18 DEF AgentReads, FormSaved
<1>19. ASSUME AgentFails PROVE UnitFollows'
  BY <1>19 DEF AgentFails
<1>20. ASSUME AgentRestarts PROVE UnitFollows'
  BY <1>20 DEF AgentRestarts
<1>21. ASSUME LimitReached \/ WriteBack PROVE UnitFollows'
  BY <1>21 DEF LimitReached, WriteBack
<1>22. ASSUME UNCHANGED vars PROVE UnitFollows'
  BY <1>22 DEF vars
<1> QED
  BY <1>1, <1>2, <1>3, <1>4, <1>5, <1>6, <1>7, <1>8, <1>9, <1>10, <1>11,
     <1>12, <1>13, <1>14, <1>15, <1>16, <1>17, <1>18, <1>19, <1>20, <1>21,
     <1>22
     DEF Next, KcmStep, UnitStep, Client

\* Every step after a save that was carried through leaves its policy in the
\* file, or is the first of another change.
LEMMA ConfirmedRestsStep ==
  ASSUME CliTyped, WindowTyped, KcmSaves, UnitTyped,
         FormSaved, ConfirmedRests, [Next]_vars
  PROVE  ConfirmedRests'
<1> USE DEF unit, history, WindowTyped, Window, UnitTyped,
             ConfirmedRests, Waiting
<1>1. ASSUME CliStep("terminal") \/ SaveFails("terminal") \/
             TerminalRuns \/ TerminalEnds
      PROVE  ConfirmedRests'
  BY <1>1, TerminalEffect
<1>2. ASSUME CliStep("kcm") \/ SaveFails("kcm") PROVE ConfirmedRests'
  BY <1>2, SaveEffect
<1>3. ASSUME Apply PROVE ConfirmedRests'
  BY <1>3, ReplaceEffect DEF Apply
<1>4. ASSUME SetSucceeds PROVE ConfirmedRests'
  BY <1>4, ReplaceEffect DEF SetSucceeds
<1>5. ASSUME SaveGivesUp PROVE ConfirmedRests'
  BY <1>5, ReplaceEffect DEF SaveGivesUp
<1>6. ASSUME PowerFails PROVE ConfirmedRests'
  BY <1>6, ReplaceEffect DEF PowerFails
<1>7. ASSUME Open PROVE ConfirmedRests'
  BY <1>7 DEF Open
<1>8. ASSUME GetAnswers \/ GetFails PROVE ConfirmedRests'
  BY <1>8 DEF GetAnswers, GetFails
<1>9. ASSUME Edit \/ PressDefaults PROVE ConfirmedRests'
  BY <1>9 DEF Edit, PressDefaults
<1>10. ASSUME Enable PROVE ConfirmedRests'
  BY <1>10 DEF Enable
<1>11. ASSUME Restart PROVE ConfirmedRests'
  BY <1>11 DEF Restart
<1>12. ASSUME Disable PROVE ConfirmedRests'
  BY <1>12 DEF Disable
<1>13. ASSUME UnitUpdated PROVE ConfirmedRests'
  BY <1>13 DEF UnitUpdated, FormSaved, Updating
<1>14. ASSUME JobStops \/ JobStarts \/ UnitStarts \/ AgentChecks \/
              AgentReads \/ AgentFails \/ AgentRestarts \/ LimitReached \/
              WriteBack
       PROVE  ConfirmedRests'
  BY <1>14 DEF JobStops, JobStarts, UnitStarts, AgentChecks, AgentReads,
               AgentFails, AgentRestarts, LimitReached, WriteBack
<1>15. ASSUME UNCHANGED vars PROVE ConfirmedRests'
  BY <1>15 DEF vars
<1> QED
  BY <1>1, <1>2, <1>3, <1>4, <1>5, <1>6, <1>7, <1>8, <1>9, <1>10, <1>11,
     <1>12, <1>13, <1>14, <1>15
     DEF Next, KcmStep, UnitStep, Client

\* Every step keeps the agent in line with the save.
LEMMA AppliedStep ==
  ASSUME CliTyped, WindowTyped, KcmSaves, UnitTyped,
         FormSaved, Switched, UnitFollows, ConfirmedRests, AppliedPolicyRuns,
         [Next]_vars
  PROVE  AppliedPolicyRuns'
<1> USE SettingsAssumption DEF unit, history, WindowTyped, Window, UnitTyped,
             ConfirmedRests, AppliedPolicyRuns, Waiting
<1>1. ASSUME CliStep("terminal") \/ SaveFails("terminal") \/
             TerminalRuns \/ TerminalEnds
      PROVE  AppliedPolicyRuns'
  <2>1. /\ UNCHANGED <<agent, running, enabled>>
        /\ confirmed' \in {Absent, confirmed}
    BY <1>1, TerminalEffect
  <2> QED
    BY <2>1
<1>2. ASSUME CliStep("kcm") \/ SaveFails("kcm") PROVE AppliedPolicyRuns'
  BY <1>2, SaveEffect
<1>3. ASSUME Apply PROVE AppliedPolicyRuns'
  BY <1>3, ReplaceEffect DEF Apply
<1>4. ASSUME SetSucceeds PROVE AppliedPolicyRuns'
  BY <1>4, ReplaceEffect DEF SetSucceeds
<1>5. ASSUME SaveGivesUp PROVE AppliedPolicyRuns'
  BY <1>5, ReplaceEffect DEF SaveGivesUp
<1>6. ASSUME PowerFails PROVE AppliedPolicyRuns'
  BY <1>6, ReplaceEffect DEF PowerFails
<1>7. ASSUME Open PROVE AppliedPolicyRuns'
  BY <1>7 DEF Open
<1>8. ASSUME GetAnswers \/ GetFails PROVE AppliedPolicyRuns'
  BY <1>8 DEF GetAnswers, GetFails
<1>9. ASSUME Edit \/ PressDefaults PROVE AppliedPolicyRuns'
  <2>1. UNCHANGED <<agent, running, enabled, confirmed>>
    BY <1>9 DEF Edit, PressDefaults
  <2> QED
    BY <2>1
<1>10. ASSUME Enable PROVE AppliedPolicyRuns'
  BY <1>10 DEF Enable
<1>11. ASSUME Restart PROVE AppliedPolicyRuns'
  BY <1>11 DEF Restart
<1>12. ASSUME Disable PROVE AppliedPolicyRuns'
  BY <1>12 DEF Disable
<1>13. ASSUME UnitUpdated PROVE AppliedPolicyRuns'
  BY <1>13 DEF UnitUpdated, Switched, UnitFollows
<1>14. ASSUME JobStops PROVE AppliedPolicyRuns'
  BY <1>14 DEF JobStops
<1>15. ASSUME JobStarts PROVE AppliedPolicyRuns'
  BY <1>15 DEF JobStarts
<1>16. ASSUME UnitStarts PROVE AppliedPolicyRuns'
  BY <1>16 DEF UnitStarts
<1>17. ASSUME AgentChecks PROVE AppliedPolicyRuns'
  BY <1>17 DEF AgentChecks
<1>18. ASSUME AgentReads PROVE AppliedPolicyRuns'
  BY <1>18 DEF AgentReads
<1>19. ASSUME AgentFails PROVE AppliedPolicyRuns'
  BY <1>19 DEF AgentFails
<1>20. ASSUME AgentRestarts PROVE AppliedPolicyRuns'
  BY <1>20 DEF AgentRestarts
<1>21. ASSUME LimitReached \/ WriteBack PROVE AppliedPolicyRuns'
  BY <1>21 DEF LimitReached, WriteBack
<1>22. ASSUME UNCHANGED vars PROVE AppliedPolicyRuns'
  BY <1>22 DEF vars
<1> QED
  BY <1>1, <1>2, <1>3, <1>4, <1>5, <1>6, <1>7, <1>8, <1>9, <1>10, <1>11,
     <1>12, <1>13, <1>14, <1>15, <1>16, <1>17, <1>18, <1>19, <1>20, <1>21,
     <1>22
     DEF Next, KcmStep, UnitStep, Client

\* Every step keeps a form that counts as clean and the file together.
LEMMA CleanFormStep ==
  ASSUME CliTyped, WindowTyped, KcmSaves, CleanFormIsSaved, [Next]_vars
  PROVE  CleanFormIsSaved'
<1> USE DEF unit, history, WindowTyped, Window, CleanFormIsSaved,
             Loaded, Waiting
<1>1. ASSUME CliStep("terminal") \/ SaveFails("terminal") \/
             TerminalRuns \/ TerminalEnds
      PROVE  CleanFormIsSaved'
  BY <1>1, TerminalEffect
<1>2. ASSUME CliStep("kcm") \/ SaveFails("kcm") PROVE CleanFormIsSaved'
  BY <1>2, SaveEffect
<1>3. ASSUME Apply PROVE CleanFormIsSaved'
  BY <1>3, ReplaceEffect DEF Apply
<1>4. ASSUME SetSucceeds PROVE CleanFormIsSaved'
  BY <1>4, ReplaceEffect DEF SetSucceeds
<1>5. ASSUME SaveGivesUp PROVE CleanFormIsSaved'
  BY <1>5, ReplaceEffect DEF SaveGivesUp
<1>6. ASSUME PowerFails PROVE CleanFormIsSaved'
  BY <1>6, ReplaceEffect DEF PowerFails
<1>7. ASSUME Open PROVE CleanFormIsSaved'
  BY <1>7 DEF Open
<1>8. ASSUME GetAnswers \/ GetFails PROVE CleanFormIsSaved'
  BY <1>8 DEF GetAnswers, GetFails
<1>9. ASSUME Edit \/ PressDefaults PROVE CleanFormIsSaved'
  BY <1>9 DEF Edit, PressDefaults
<1>10. ASSUME Enable PROVE CleanFormIsSaved'
  BY <1>10 DEF Enable
<1>11. ASSUME Restart PROVE CleanFormIsSaved'
  BY <1>11 DEF Restart
<1>12. ASSUME Disable PROVE CleanFormIsSaved'
  BY <1>12 DEF Disable
<1>13. ASSUME UnitUpdated PROVE CleanFormIsSaved'
  BY <1>13 DEF UnitUpdated
<1>14. ASSUME JobStops \/ JobStarts \/ UnitStarts \/ AgentChecks \/
              AgentReads \/ AgentFails \/ AgentRestarts \/ LimitReached \/
              WriteBack
       PROVE  CleanFormIsSaved'
  BY <1>14 DEF JobStops, JobStarts, UnitStarts, AgentChecks, AgentReads,
               AgentFails, AgentRestarts, LimitReached, WriteBack
<1>15. ASSUME UNCHANGED vars PROVE CleanFormIsSaved'
  BY <1>15 DEF vars
<1> QED
  BY <1>1, <1>2, <1>3, <1>4, <1>5, <1>6, <1>7, <1>8, <1>9, <1>10, <1>11,
     <1>12, <1>13, <1>14, <1>15
     DEF Next, KcmStep, UnitStep, Client

LEMMA FollowsInit == Init => Follows
<1> SUFFICES ASSUME Init PROVE Follows
  OBVIOUS
<1>1. cli["kcm"].step = "none" /\ kcm.step = "closed"
  BY DEF Init, NoProcess, Client
<1>2. confirmed = Absent /\ job = "none"
  BY DEF Init
<1> QED
  BY <1>1, <1>2
     DEF Follows, KcmSaves, Removal, FormSaved, Updating, Switched,
         UnitFollows, ConfirmedRests, AppliedPolicyRuns, CleanFormIsSaved

LEMMA FollowsStep == Saved /\ Follows /\ [Next]_vars => Follows'
BY KcmSavesStep, FormSavedStep, SwitchedStep, UnitFollowsStep,
   ConfirmedRestsStep, AppliedStep, CleanFormStep DEF Saved, Follows

\* After a save of the KDE module that was carried through, the agent runs the
\* saved policy, or is off and disabled: whatever jobs earlier saves left
\* behind, and however often the agent failed, started and restarted since.
THEOREM SavedPolicyRuns == Spec => []AppliedPolicyRuns
<1>1. Follows => AppliedPolicyRuns
  BY DEF Follows
<1> QED
  BY <1>1, SavedInit, SavedStep, FollowsInit, FollowsStep, PTL DEF Spec

\* A form that is shown without unsaved changes and without an error is the
\* policy that an agent started now would run, unless the terminal wrote since.
THEOREM CleanFormShowsTheFile == Spec => []CleanFormIsSaved
<1>1. Follows => CleanFormIsSaved
  BY DEF Follows
<1> QED
  BY <1>1, SavedInit, SavedStep, FollowsInit, FollowsStep, PTL DEF Spec
=============================================================================
