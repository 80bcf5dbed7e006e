------------------------------- MODULE Settings -------------------------------
(***************************************************************************)
(* How a policy gets from the user to the running agent: the save and the  *)
(* load of the user's policy file (src/src/config.rs), the `settings`      *)
(* commands (src/src/main.rs), the KDE module, which runs them and then    *)
(* systemctl (src/kcm/hpdsettings.cpp), and the agent's unit.              *)
(*                                                                         *)
(* The KDE module runs one command after the other and handles no event    *)
(* meanwhile; a command that takes five seconds is killed, but a job that  *)
(* systemctl has queued runs on.  A user at a terminal saves and resets at *)
(* the same time, and the agent reads whenever it starts.                  *)
(***************************************************************************)
EXTENDS Naturals

CONSTANTS
  Policies,    \* policies that PolicyConfig::validate accepts
  Enabled,     \* those with the master switch on
  Invalid,     \* a policy that is not accepted
  System,      \* the policy of /etc/thinkpad-hpd.toml
  Defaults,    \* PolicyConfig::default
  Absent,      \* no file, or no policy
  Torn,        \* a file with a part of a policy, or none of it
  TypedIn,     \* the policies that are set at the terminal
  MaxLosses,   \* bound of the power failures
  Faults       \* a subset of Fault

Fault == {"io",        \* a step of a save fails, or its process is killed
           "crash",     \* the agent ends with an error
          "limit"}     \* the start limit of the unit is reached

ASSUME SettingsAssumption ==
  /\ Enabled \subseteq Policies
  /\ {System, Defaults} \subseteq Policies
  /\ {Invalid, Absent, Torn} \cap Policies = {}
  /\ TypedIn \subseteq Policies \cup {Invalid}
  /\ MaxLosses \in Nat /\ Faults \subseteq Fault

VARIABLES
  file,       \* what the name of the policy file leads to
  stored,     \* what it leads to after a power failure
  cli,        \* the `settings` processes of the KDE module and of a terminal
  kcm,        \* the KDE module
  agent,      \* the agent's unit and process
  running,    \* the policy the agent has read
  job,        \* the unit's job in systemd
  enabled,    \* the unit starts at login
  foreign,    \* history: the terminal wrote since the KDE module read or wrote
  confirmed,  \* history: the policy of the KDE module's last save if it was
              \* carried through and nobody wrote since, or Absent
  losses      \* power failures so far

unit    == <<agent, running, job, enabled>>
history == <<foreign, confirmed, losses>>
vars    == <<file, stored, cli, kcm, unit, history>>

Client == {"kcm", "terminal"}

\* A directory entry and whether the text it leads to has reached the disk.
Entry == [policy : Policies \cup {Absent, Torn}, synced : BOOLEAN]
NoFile == [policy |-> Absent, synced |-> TRUE]

NoProcess == [step |-> "none", policy |-> Absent, synced |-> FALSE]

Saving  == {"parse", "temporary", "written", "synced"}
Removal == {"check", "remove"}

TypeOK ==
  /\ file \in Entry /\ stored \in Entry
  /\ cli \in [Client ->
       [step : {"none", "done", "failed"} \cup Saving \cup Removal,
        policy : Policies \cup {Invalid, Absent}, synced : BOOLEAN]]
  /\ kcm \in
       [step : {"closed", "idle", "get", "set", "enable", "restart",
                "restarting", "disable", "stopping"},
        form : Policies, needsSave : BOOLEAN, error : BOOLEAN]
  /\ agent \in {"off", "starting", "reading", "on", "failed", "dead"}
  /\ running \in Policies \cup {Absent}
  /\ job \in {"none", "restart", "start", "stop", "failed"}
  /\ enabled \in BOOLEAN /\ foreign \in BOOLEAN
  /\ confirmed \in Policies \cup {Absent}
  /\ losses \in 0..MaxLosses

\* The policy that load_for_agent finds.
Loadable == file.policy \in Policies \cup {Absent}
Loaded   == IF file.policy = Absent THEN System ELSE file.policy

\* The policy file and the commands, as what they promise: a value that changes
\* when the file is renamed or removed.  Nothing is written back after the last
\* power failure.
Command(step) ==
  IF step \in Saving \cup Removal THEN "asked"
  ELSE IF step = "none" THEN "idle" ELSE step

Commands == [c \in Client |-> Command(cli[c].step)]
Given    == [c \in Client |-> cli[c].policy]
Durable  == IF losses < MaxLosses THEN stored.policy ELSE file.policy

Store ==
  INSTANCE PolicyStore
    WITH Clients <- Client, Offers <- Policies \cup {Invalid, Absent},
         value <- file.policy, durable <- Durable,
         command <- Commands, given <- Given

Init ==
  /\ file = NoFile /\ stored = NoFile
  /\ cli = [c \in Client |-> NoProcess]
  /\ kcm = [step |-> "closed", form |-> Defaults, needsSave |-> FALSE,
            error |-> FALSE]
  /\ agent = "off" /\ running = Absent /\ job = "none"
  /\ enabled \in BOOLEAN
  /\ foreign = FALSE /\ confirmed = Absent /\ losses = 0

-----------------------------------------------------------------------------
(* thinkpad-hpd settings set and reset *)

Advance(c, step) == cli' = [cli EXCEPT ![c].step = step]

\* The terminal's write makes what the KDE module knows outdated.
Written(c) ==
  /\ foreign' = (c = "terminal")
  /\ confirmed' = IF c = "terminal" THEN Absent ELSE confirmed

\* Slip: the policy is written as it came.
ParseUnchecked(c) ==
  /\ cli[c].step = "parse"
  /\ Advance(c, "temporary")
  /\ UNCHANGED <<file, stored, kcm, unit, history>>

\* The JSON is read and the policy validated before anything is written.
Parse(c) ==
  /\ cli[c].step = "parse"
  /\ Advance(c, IF cli[c].policy \in Policies THEN "temporary" ELSE "failed")
  /\ UNCHANGED <<file, stored, kcm, unit, history>>

\* The temporary file in the same directory is created and written.
Write(c) ==
  /\ cli[c].step = "temporary"
  /\ Advance(c, "written")
  /\ UNCHANGED <<file, stored, kcm, unit, history>>

\* Slip: the file is renamed without sync_all.
SyncSkipped(c) ==
  /\ cli[c].step = "written"
  /\ Advance(c, "synced")
  /\ UNCHANGED <<file, stored, kcm, unit, history>>

Sync(c) ==
  /\ cli[c].step = "written"
  /\ cli' = [cli EXCEPT ![c].step = "synced", ![c].synced = TRUE]
  /\ UNCHANGED <<file, stored, kcm, unit, history>>

\* persist: the rename.
Persist(c) ==
  /\ cli[c].step = "synced"
  /\ file' = [policy |-> cli[c].policy, synced |-> cli[c].synced]
  /\ Advance(c, "done")
  /\ Written(c)
  /\ UNCHANGED <<stored, kcm, unit, losses>>

\* Slip: an error on the way removes the policy file.
SaveFailsRemoving(c) ==
  /\ cli[c].step \in Saving \cup Removal /\ "io" \in Faults
  /\ Advance(c, "failed")
  /\ file' = NoFile
  /\ UNCHANGED <<stored, kcm, unit, history>>

\* An error on the way removes the temporary file, a kill leaves it behind;
\* the policy file is untouched.
SaveFails(c) ==
  /\ cli[c].step \in Saving \cup Removal /\ "io" \in Faults
  /\ Advance(c, "failed")
  /\ UNCHANGED <<file, stored, kcm, unit, history>>

CheckExists(c) ==
  /\ cli[c].step = "check"
  /\ Advance(c, IF file.policy = Absent THEN "done" ELSE "remove")
  /\ UNCHANGED <<file, stored, kcm, unit, history>>

\* The file may be gone since the check.
Remove(c) ==
  /\ cli[c].step = "remove"
  /\ IF file.policy = Absent
       THEN /\ Advance(c, "failed")
            /\ UNCHANGED <<file, foreign, confirmed>>
       ELSE /\ Advance(c, "done")
            /\ file' = NoFile
            /\ Written(c)
  /\ UNCHANGED <<stored, kcm, unit, losses>>

\* The terminal starts a command, and sees its end.
TerminalRuns ==
  /\ cli["terminal"].step = "none"
  /\ \/ \E p \in TypedIn :
          cli' = [cli EXCEPT !["terminal"] =
                    [step |-> "parse", policy |-> p, synced |-> FALSE]]
     \/ cli' = [cli EXCEPT !["terminal"] = [NoProcess EXCEPT !.step = "check"]]
  /\ UNCHANGED <<file, stored, kcm, unit, history>>

TerminalEnds ==
  /\ cli["terminal"].step \in {"done", "failed"}
  /\ cli' = [cli EXCEPT !["terminal"] = NoProcess]
  /\ UNCHANGED <<file, stored, kcm, unit, history>>

-----------------------------------------------------------------------------
(* The KDE module *)

Open ==
  /\ kcm.step = "closed"
  /\ kcm' = [kcm EXCEPT !.step = "get"]
  /\ UNCHANGED <<file, stored, cli, unit, history>>

\* load(): settings get has answered; `diagnose` may still set the error.  The
\* state of the services is only shown.
GetAnswers ==
  /\ kcm.step = "get" /\ Loadable
  /\ \E error \in BOOLEAN :
       kcm' = [step |-> "idle", form |-> Loaded, needsSave |-> FALSE,
               error |-> error]
  /\ foreign' = FALSE
  /\ UNCHANGED <<file, stored, cli, unit, confirmed, losses>>

\* Slip: the error of settings get is not reported.
GetFailsSilently ==
  /\ kcm.step = "get"
  /\ kcm' = [step |-> "idle", form |-> Defaults, needsSave |-> FALSE,
             error |-> FALSE]
  /\ UNCHANGED <<file, stored, cli, unit, history>>

\* load(): the file is gone between the look for it and the read, cannot be
\* parsed, or the time is over.  The form is filled with the module's own
\* defaults, and nothing counts as changed.
GetFails ==
  /\ kcm.step = "get"
  /\ kcm' = [step |-> "idle", form |-> Defaults, needsSave |-> FALSE,
             error |-> TRUE]
  /\ UNCHANGED <<file, stored, cli, unit, history>>

Edit ==
  /\ kcm.step = "idle"
  /\ \E p \in Policies : kcm' = [kcm EXCEPT !.form = p, !.needsSave = TRUE]
  /\ UNCHANGED <<file, stored, cli, unit, history>>

\* defaults(): settings defaults answers, or fails.
PressDefaults ==
  /\ kcm.step = "idle"
  /\ \/ kcm' = [kcm EXCEPT !.form = Defaults, !.needsSave = TRUE,
                           !.error = FALSE]
     \/ kcm' = [kcm EXCEPT !.error = TRUE]
  /\ UNCHANGED <<file, stored, cli, unit, history>>

\* save(): settings set is started.
Apply ==
  /\ kcm.step = "idle" /\ kcm.needsSave
  /\ kcm' = [kcm EXCEPT !.step = "set", !.error = FALSE]
  /\ cli' = [cli EXCEPT !["kcm"] =
               [step |-> "parse", policy |-> kcm.form, synced |-> FALSE]]
  /\ confirmed' = Absent
  /\ UNCHANGED <<file, stored, unit, foreign, losses>>

SetSucceeds ==
  /\ kcm.step = "set" /\ cli["kcm"].step = "done"
  /\ kcm' = [kcm EXCEPT !.step = IF kcm.form \in Enabled THEN "enable"
                                                         ELSE "disable"]
  /\ cli' = [cli EXCEPT !["kcm"] = NoProcess]
  /\ UNCHANGED <<file, stored, unit, history>>

Enable ==
  /\ kcm.step = "enable"
  /\ enabled' = TRUE
  /\ kcm' = [kcm EXCEPT !.step = "restart"]
  /\ UNCHANGED <<file, stored, cli, agent, running, job, history>>

\* Slip: systemctl start, which leaves a running agent alone.
RestartByStart ==
  /\ kcm.step = "restart"
  /\ job' = IF agent \in {"off", "dead"} THEN "start" ELSE "none"
  /\ kcm' = [kcm EXCEPT !.step = "restarting"]
  /\ UNCHANGED <<file, stored, cli, agent, running, enabled, history>>

\* The job takes the place of a job that still waits.
Restart ==
  /\ kcm.step = "restart"
  /\ job' = "restart"
  /\ kcm' = [kcm EXCEPT !.step = "restarting"]
  /\ UNCHANGED <<file, stored, cli, agent, running, enabled, history>>

\* disable --now
Disable ==
  /\ kcm.step = "disable"
  /\ enabled' = FALSE /\ job' = "stop"
  /\ kcm' = [kcm EXCEPT !.step = "stopping"]
  /\ UNCHANGED <<file, stored, cli, agent, running, history>>

\* Slip: nobody waits for the job (--no-block).
UnitUpdateQueued ==
  /\ kcm.step \in {"restarting", "stopping"}
  /\ kcm' = [kcm EXCEPT !.step = "get", !.needsSave = FALSE]
  /\ confirmed' = IF foreign THEN Absent ELSE kcm.form
  /\ UNCHANGED <<file, stored, cli, unit, foreign, losses>>

\* systemctl returns when the job is done; save() ends with a load().
UnitUpdated ==
  /\ kcm.step \in {"restarting", "stopping"} /\ job = "none"
  /\ kcm' = [kcm EXCEPT !.step = "get", !.needsSave = FALSE]
  /\ confirmed' = IF foreign THEN Absent ELSE kcm.form
  /\ UNCHANGED <<file, stored, cli, unit, foreign, losses>>

Waiting == {"set", "enable", "restart", "restarting", "disable", "stopping"}

\* Slip: the commands of a save have no time limit.
SaveGivesUpOnErrors ==
  /\ kcm.step \in Waiting
  /\ cli["kcm"].step = "failed" \/ job = "failed"
  /\ kcm' = [kcm EXCEPT !.step = "idle", !.needsSave = TRUE, !.error = TRUE]
  /\ cli' = [cli EXCEPT !["kcm"] = NoProcess]
  /\ enabled' \in IF kcm.step \in {"enable", "disable"}
                    THEN {enabled, kcm.step = "enable"} ELSE {enabled}
  /\ UNCHANGED <<file, stored, agent, running, job, history>>

\* A command of save() fails, with or without effect, or is killed after five
\* seconds: a killed `settings` process changes nothing more (a rename that it
\* is in is over before the directory can be used again), a job runs on.
SaveGivesUp ==
  /\ kcm.step \in Waiting
  /\ kcm' = [kcm EXCEPT !.step = "idle", !.needsSave = TRUE, !.error = TRUE]
  /\ cli' = [cli EXCEPT !["kcm"] = NoProcess]
  /\ enabled' \in IF kcm.step \in {"enable", "disable"}
                    THEN {enabled, kcm.step = "enable"} ELSE {enabled}
  /\ job' = IF job = "failed" THEN "none" ELSE job
  /\ UNCHANGED <<file, stored, agent, running, history>>

-----------------------------------------------------------------------------
(* systemd and the agent *)

JobStops ==
  /\ job \in {"restart", "stop"}
  /\ agent' = "off" /\ running' = Absent
  /\ job' = IF job = "restart" THEN "start" ELSE "none"
  /\ UNCHANGED <<file, stored, cli, kcm, enabled, history>>

\* The start of a simple unit is done when the process exists.
JobStarts ==
  /\ job = "start"
  /\ \/ agent' = "starting" /\ job' = "none"
     \/ "limit" \in Faults /\ agent' = "dead" /\ job' = "failed"
  /\ UNCHANGED <<file, stored, cli, kcm, running, enabled, history>>

\* At login, or by hand.
UnitStarts ==
  /\ agent = "off" /\ enabled /\ job = "none"
  /\ agent' = "starting"
  /\ UNCHANGED <<file, stored, cli, kcm, running, job, enabled, history>>

\* load_for_agent looks for the file ...
AgentChecks ==
  /\ agent = "starting"
  /\ IF file.policy = Absent THEN agent' = "on" /\ running' = System
                             ELSE agent' = "reading" /\ running' = running
  /\ UNCHANGED <<file, stored, cli, kcm, job, enabled, history>>

\* ... and then reads it, unless it is gone by then or cannot be parsed.
AgentReads ==
  /\ agent = "reading"
  /\ IF file.policy \in Policies THEN agent' = "on" /\ running' = file.policy
                                 ELSE agent' = "failed" /\ running' = running
  /\ UNCHANGED <<file, stored, cli, kcm, job, enabled, history>>

AgentFails ==
  /\ agent = "on" /\ "crash" \in Faults
  /\ agent' = "failed" /\ running' = Absent
  /\ UNCHANGED <<file, stored, cli, kcm, job, enabled, history>>

\* Restart=on-failure, within the start limit.
AgentRestarts ==
  /\ agent = "failed"
  /\ agent' = "starting"
  /\ UNCHANGED <<file, stored, cli, kcm, running, job, enabled, history>>

LimitReached ==
  /\ agent = "failed" /\ "limit" \in Faults
  /\ agent' = "dead"
  /\ UNCHANGED <<file, stored, cli, kcm, running, job, enabled, history>>

-----------------------------------------------------------------------------
(* The disk *)

\* The directory is written back; of no interest after the last power failure.
WriteBack ==
  /\ losses < MaxLosses
  /\ stored' = file
  /\ UNCHANGED <<file, cli, kcm, unit, history>>

\* Processes end; an entry whose text was not synced may lead to anything.
PowerFails ==
  /\ losses < MaxLosses
  /\ losses' = losses + 1
  /\ file' = IF stored.synced THEN stored ELSE [policy |-> Torn, synced |-> TRUE]
  /\ stored' = IF losses' < MaxLosses THEN file' ELSE NoFile
  /\ cli' = [c \in Client |-> NoProcess]
  /\ kcm' = [step |-> "closed", form |-> Defaults, needsSave |-> FALSE,
             error |-> FALSE]
  /\ agent' = "off" /\ running' = Absent /\ job' = "none"
  /\ foreign' = FALSE /\ confirmed' = Absent
  /\ UNCHANGED enabled

-----------------------------------------------------------------------------
CliStep(c) ==
  Parse(c) \/ Write(c) \/ Sync(c) \/ Persist(c) \/ CheckExists(c) \/ Remove(c)

KcmStep ==
  \/ GetAnswers \/ GetFails
  \/ SetSucceeds \/ Enable \/ Restart \/ Disable \/ UnitUpdated \/ SaveGivesUp

UnitStep == JobStops \/ JobStarts \/ AgentChecks \/ AgentReads \/ AgentRestarts

Next ==
  \/ \E c \in Client : CliStep(c) \/ SaveFails(c)
  \/ TerminalRuns \/ TerminalEnds
  \/ Open \/ Edit \/ PressDefaults \/ Apply \/ KcmStep
  \/ UnitStep \/ UnitStarts \/ AgentFails \/ LimitReached
  \/ WriteBack \/ PowerFails

Spec == Init /\ [][Next]_vars

(* Commands of the KDE module end or time out, and systemd carries out its    *)
(* jobs and restarts; `settings` processes may hang.                          *)
FairSpec == Spec /\ WF_vars(KcmStep) /\ WF_vars(UnitStep)

-----------------------------------------------------------------------------
\* "Policy saves use an atomic same-directory replacement" (README.md:50): with
\* concurrent saves and resets, kills and errors at every step and power
\* failures, the file is absent or one whole policy that was validated.
FileIsLoadable == Loadable

\* The same as a replacement (README.md:50): every command, set or reset, has
\* its whole effect in one step or none, whatever runs beside it; one that
\* reports an error has left the file as it was; and a power failure brings
\* back an earlier policy, never a mixture.
ReplacesAtomically == Store!Spec

\* "Applying enabled settings restarts the agent so policy changes take effect
\* immediately", and the master switch "stops and disables it when automation
\* is disabled" (README.md:73-78): after a save that was carried through no
\* agent runs another policy, also when jobs of an earlier save that was given
\* up are still waiting, the agent fails, or was starting meanwhile.
AppliedPolicyRuns ==
  confirmed # Absent =>
    IF confirmed \in Enabled THEN agent = "on" => running = confirmed
                             ELSE agent = "off" /\ ~enabled

\* An idle form without unsaved changes and without an error shows the policy
\* that an agent started now would run, unless the terminal wrote since.
CleanFormIsSaved ==
  kcm.step = "idle" /\ ~kcm.needsSave /\ ~kcm.error /\ ~foreign =>
    kcm.form = Loaded

\* ... and the agent does get to run it, unless the start limit is reached or
\* somebody changes the settings again.
AppliedPolicyStarts ==
  \A p \in Enabled :
    confirmed = p ~> \/ agent = "on" /\ running = p
                     \/ agent = "dead" \/ confirmed # p

\* "External CLI and systemd operations in the KCM have bounded waits"
\* (README.md:139): opening and saving end, whatever hangs.
OperationsEnd == kcm.step # "idle" /\ kcm.step # "closed"
                   ~> kcm.step \in {"idle", "closed"}
=============================================================================
