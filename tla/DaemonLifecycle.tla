--------------------------- MODULE DaemonLifecycle ---------------------------
(***************************************************************************)
(* The `usagestat daemon` commands (crates/ai-usage-cli/src/daemon.rs,      *)
(* daemon/relocation.rs) over the saved settings (daemon.json), the login   *)
(* service manager (daemon/systemd.rs) and the daemon it runs.  The         *)
(* settings lock lets one command run at a time; a command is a sequence of *)
(* effects, each of which may fail, done or not, and between any two of     *)
(* which the command may be killed or the machine restarted.                *)
(***************************************************************************)
EXTENDS Integers

CONSTANTS
  Binary,        \* paths of daemon executables
  OwnerOf,       \* Binary -> the installation directory that owns it
  Build,         \* the contents an executable can have
  VersionOf,     \* Build -> the version it reports
  Ships,         \* Binary -> what the package manager may keep there
  MaxInterrupts, \* bound of the model: commands killed, machines restarted
  NoBinary, NoUnit, NoJournal, Gone, Stopped, Idle

T3Mode == {"auto", "off"}
Version == {VersionOf[v] : v \in Build}
Saved == [t3: T3Mode, install: Binary \cup {NoBinary}]

ASSUME LifecycleAssumption ==
  /\ OwnerOf \in [Binary -> {OwnerOf[b] : b \in Binary}]
  /\ VersionOf \in [Build -> Version]
  /\ Ships \in [Binary -> SUBSET (Build \cup {Gone})]
  /\ MaxInterrupts \in Nat
  /\ NoBinary \notin Binary /\ NoUnit \notin Binary /\ Gone \notin Build

VARIABLES
  saved,         \* daemon.json: T3 mode and installation
  unit,          \* the executable the registered service starts, or NoUnit
  enabled,       \* the service starts at login
  active,        \* the process the manager runs, or Stopped
  journal,       \* daemon-relocation.json
  content,       \* Binary -> what the package manager keeps there
  cmd,           \* the command holding the settings lock, or Idle
  last,          \* how the last command succeeded, or Idle
  interrupts,
  \* history
  wish,          \* what the operator may have asked of login startup
  whole          \* the unit was the saved one when the relocation began

managerVars == <<unit, enabled, active>>
fileVars    == <<saved, journal, content>>
historyVars == <<last, interrupts, wish, whole>>
vars == <<saved, unit, enabled, active, journal, content, cmd, last,
          interrupts, wish, whole>>

Process == [unit: Binary, build: Build, install: Binary \cup {NoBinary}, t3: T3Mode]
Journal == [before: Binary, after: Binary, t3: T3Mode, running: BOOLEAN,
            autostart: BOOLEAN, digest: Build, committed: BOOLEAN]
Move    == {"relocate", "rollback", "recover"}
Op      == Move \cup {"enable", "t3", "disable", "unregister", "start", "stop", "autostart"}
Step    == {"check", "pause", "stop", "save", "install", "autostart", "enable",
            "disable", "erase", "start", "restart", "wait", "commit", "remove"}
Command == [op: Op, pc: Step, want: Saved, flag: BOOLEAN, cli: Version]
Outcome == [op: Op, result: {"ok", "unchanged", "recovered"}, from: Binary \cup {NoBinary}]

ASSUME NullAssumption ==
  Idle \notin Command /\ NoJournal \notin Journal /\ Stopped \notin Process

TypeOK ==
  /\ saved \in Saved
  /\ unit \in Binary \cup {NoUnit}
  /\ enabled \in BOOLEAN
  /\ active \in Process \cup {Stopped}
  /\ journal \in Journal \cup {NoJournal}
  /\ content \in [Binary -> Build \cup {Gone}]
  /\ cmd \in Command \cup {Idle}
  /\ last \in Outcome \cup {Idle}
  /\ interrupts \in Nat
  /\ wish \subseteq BOOLEAN
  /\ whole \in BOOLEAN

Init ==
  /\ saved = [t3 |-> "off", install |-> NoBinary]
  /\ unit = NoUnit /\ enabled = FALSE /\ active = Stopped
  /\ journal = NoJournal
  /\ content \in [Binary -> Build] /\ \A b \in Binary : content[b] \in Ships[b]
  /\ cmd = Idle /\ last = Idle /\ interrupts = 0
  /\ wish = {FALSE} /\ whole = TRUE

-----------------------------------------------------------------------------
(* The processes the manager starts *)

(* ExecStart names the unit's executable, which reads daemon.json once.     *)
Launched ==
  IF unit # NoUnit /\ content[unit] # Gone /\ saved.install # NoBinary
  THEN [unit |-> unit, build |-> content[unit], install |-> saved.install, t3 |-> saved.t3]
  ELSE Stopped

(* wait_for_installation: /health names the expected owner and version.     *)
Ready(b, version) ==
  /\ active # Stopped /\ active.install # NoBinary
  /\ OwnerOf[active.install] = OwnerOf[b]
  /\ VersionOf[active.build] = version

-----------------------------------------------------------------------------
(* The effects of a command, in order *)

Moving == cmd.op \in Move

(* mutant: a relocation saves the default T3 mode *)
GoalForgetful ==
  IF ~Moving THEN cmd.want
  ELSE [t3 |-> "off",
        install |-> IF cmd.op = "relocate" THEN journal.after ELSE journal.before]

(* What the running command saves and registers. *)
Goal ==
  IF ~Moving THEN cmd.want
  ELSE [t3 |-> journal.t3,
        install |-> IF cmd.op = "relocate" THEN journal.after ELSE journal.before]

(* How a relocation and a recovery end. *)
Finish == IF cmd.op = "relocate" THEN "commit" ELSE "remove"

(* What was running runs again. *)
Launch == IF journal.running THEN "start" ELSE Finish

(* The command's next step once this one has succeeded, or "done". *)
Following ==
  CASE cmd.pc = "pause"     -> "stop"
    [] cmd.pc = "stop"      -> IF Moving THEN "save" ELSE "done"
    [] cmd.pc = "save"      -> IF cmd.op \in {"disable", "unregister"} THEN "disable"
                               ELSE IF cmd.want.install = NoBinary /\ ~Moving
                               THEN "done" ELSE "install"
    [] cmd.pc = "install"   -> IF Moving THEN "autostart"
                               ELSE IF cmd.op = "enable" THEN "enable"
                               ELSE IF cmd.flag THEN "restart" ELSE "done"
    [] cmd.pc = "autostart" -> IF Moving THEN Launch ELSE "done"
    [] cmd.pc = "enable"    -> "restart"
    [] cmd.pc = "disable"   -> IF cmd.op = "unregister" THEN "erase" ELSE "done"
    [] cmd.pc = "restart"   -> "wait"
    [] cmd.pc = "start"     -> "wait"
    [] cmd.pc = "wait"      -> IF Moving THEN Finish ELSE "done"
    [] cmd.pc = "commit"    -> "remove"
    [] OTHER                -> "done"

(* What an operator asks of login startup by giving the command. *)
Asked ==
  CASE cmd.op = "enable"                  -> {TRUE}
    [] cmd.op \in {"disable", "unregister"} -> {FALSE}
    [] cmd.op = "autostart"               -> {cmd.flag}
    [] OTHER                              -> {}

EndsWell ==
  /\ cmd' = Idle
  /\ last' = [op |-> cmd.op, from |-> cmd.want.install,
              result |-> IF cmd.op = "rollback" THEN "recovered" ELSE "ok"]

Succeeds ==
  /\ IF Following # "done"
     THEN cmd' = [cmd EXCEPT !.pc = Following] /\ UNCHANGED <<last, wish>>
     ELSE /\ EndsWell
          /\ wish' = IF Asked = {} THEN wish ELSE Asked
  /\ UNCHANGED <<content, interrupts, whole>>

(* relocate's closure failed: recover runs at once.  Any other command ends.*)
Fails ==
  /\ IF cmd.op = "relocate"
     THEN cmd' = [cmd EXCEPT !.op = "rollback", !.pc = "check"] /\ UNCHANGED <<last, wish>>
     ELSE /\ cmd' = Idle /\ UNCHANGED last
          /\ wish' = wish \cup Asked
  /\ UNCHANGED <<content, interrupts, whole>>

-----------------------------------------------------------------------------
(* One action per effect *)

stateVars == <<saved, unit, enabled, active, journal>>

At(step) == cmd # Idle /\ cmd.pc = step

Attempt(effect) ==
  \/ effect /\ Succeeds
  \/ (effect \/ UNCHANGED stateVars) /\ Fails

SetEnabled(value) == enabled' = value /\ UNCHANGED <<saved, unit, active, journal>>
SetActive(value)  == active' = value /\ UNCHANGED <<saved, unit, enabled, journal>>

(* mutant: login startup is left on during the move *)
PauseNothing == At("pause") /\ Attempt(UNCHANGED stateVars)

(* A relocation keeps a login from starting the service half-way. *)
Pause     == At("pause") /\ Attempt(SetEnabled(FALSE))
StopUnit  == At("stop") /\ Attempt(SetActive(Stopped))
Save      == At("save") /\ Attempt(saved' = Goal /\ UNCHANGED <<managerVars, journal>>)
Install   == At("install") /\ Attempt(/\ unit' = Goal.install
                                      /\ UNCHANGED <<saved, enabled, active, journal>>)
(* mutant: a moved service always starts at login *)
AutostartOn == At("autostart") /\ Attempt(SetEnabled(Moving \/ cmd.flag))

Autostart == At("autostart")
             /\ Attempt(SetEnabled(IF Moving THEN journal.autostart ELSE cmd.flag))
EnableUnit == At("enable") /\ Attempt(SetEnabled(TRUE))
DisableUnit == At("disable") /\ Attempt(/\ IF unit = NoUnit THEN UNCHANGED <<enabled, active>>
                                           ELSE enabled' = FALSE /\ active' = Stopped
                                        /\ UNCHANGED <<saved, unit, journal>>)
Erase     == At("erase") /\ Attempt(unit' = NoUnit /\ UNCHANGED <<saved, enabled, active, journal>>)
StartUnit == At("start") /\ Attempt(SetActive(IF active = Stopped THEN Launched ELSE active))

(* enable restarts whatever runs; t3 uses try-restart. *)
Restart ==
  /\ At("restart")
  /\ Attempt(SetActive(IF cmd.op = "t3" /\ active = Stopped THEN Stopped ELSE Launched))

(* Five seconds for the daemon to become ready. *)
Await ==
  LET version == IF cmd.op \in {"rollback", "recover"}
                 THEN VersionOf[journal.digest] ELSE cmd.cli
  IN  /\ At("wait") /\ UNCHANGED stateVars
      /\ \/ Ready(Goal.install, version) /\ Succeeds
         \/ Fails

Commit == At("commit") /\ Attempt(/\ journal' = [journal EXCEPT !.committed = TRUE]
                                  /\ UNCHANGED <<saved, managerVars>>)
Remove == At("remove") /\ Attempt(journal' = NoJournal /\ UNCHANGED <<saved, managerVars>>)

With(b) == [t3 |-> journal.t3, install |-> b]

(* mutant: only settings not yet saved can be recovered *)
RecoverableEarly ==
  /\ saved = With(IF journal.committed THEN journal.after ELSE journal.before)
  /\ journal.committed \/ (content[journal.before] = journal.digest /\ unit # NoUnit)

(* mutant: recovery does not look at the settings it will overwrite *)
RecoverableUnseen ==
  /\ journal.committed \/ (content[journal.before] = journal.digest /\ unit # NoUnit)

Recoverable ==
  /\ saved \in {With(journal.before), With(journal.after)}
  /\ IF journal.committed THEN saved = With(journal.after)
     ELSE content[journal.before] = journal.digest /\ unit # NoUnit

(* recover: what it verifies before it touches anything. *)
Check ==
  /\ At("check") /\ UNCHANGED stateVars
  /\ \/ /\ journal = NoJournal
        /\ EndsWell
        /\ UNCHANGED <<wish, content, interrupts, whole>>
     \/ /\ journal # NoJournal /\ Recoverable
        /\ cmd' = [cmd EXCEPT !.pc = IF journal.committed THEN "remove" ELSE "pause"]
        /\ UNCHANGED <<content, historyVars>>
     \/ journal # NoJournal /\ Fails

-----------------------------------------------------------------------------
(* The commands, up to their first effect *)

Begins(op, pc, want, flag, cli) ==
  /\ cmd' = [op |-> op, pc |-> pc, want |-> want, flag |-> flag, cli |-> cli]
  /\ last' = Idle

(* A pending relocation refuses every other command. *)
MayBegin == cmd = Idle /\ journal = NoJournal

Enable(b, auto, switchOwner, cli) ==
  /\ MayBegin
  /\ content[b] # Gone
  /\ saved.install # NoBinary /\ ~switchOwner => OwnerOf[saved.install] = OwnerOf[b]
  /\ Begins("enable", "save",
            [t3 |-> IF auto THEN "auto" ELSE saved.t3, install |-> b], FALSE, cli)
  /\ UNCHANGED <<fileVars, managerVars, interrupts, wish, whole>>

(* mutant: the new mode waits for the next start *)
T3Unapplied(mode, cli) ==
  /\ MayBegin
  /\ Begins("t3", "save", [saved EXCEPT !.t3 = mode], FALSE, cli)
  /\ UNCHANGED <<fileVars, managerVars, interrupts, wish, whole>>

(* apply_t3 remembers whether the service was running. *)
T3(mode, cli) ==
  /\ MayBegin
  /\ Begins("t3", "save", [saved EXCEPT !.t3 = mode],
            saved.install # NoBinary /\ active # Stopped, cli)
  /\ UNCHANGED <<fileVars, managerVars, interrupts, wish, whole>>

TurnOff(op, cli) ==
  /\ MayBegin
  /\ op \in {"disable", "unregister"}
  /\ Begins(op, "save", saved, FALSE, cli)
  /\ UNCHANGED <<fileVars, managerVars, interrupts, wish, whole>>

Control(op, on, cli) ==
  /\ MayBegin
  /\ op \in {"start", "stop", "autostart"} /\ (on => op = "autostart")
  /\ saved.install # NoBinary /\ unit # NoUnit
  /\ Begins(op, op, saved, on, cli)
  /\ UNCHANGED <<fileVars, managerVars, interrupts, wish, whole>>

(* relocate: its conditions, and the journal it creates first.              *)
Relocate(b, cli) ==
  /\ MayBegin
  /\ unit # NoUnit /\ saved.install # NoBinary
  /\ content[b] # Gone /\ VersionOf[content[b]] = cli
  /\ OwnerOf[b] = OwnerOf[saved.install]
  /\ IF saved.install = b
     THEN /\ active # Stopped => VersionOf[active.build] = cli
          /\ last' = [op |-> "relocate", result |-> "unchanged", from |-> b]
          /\ UNCHANGED <<fileVars, managerVars, cmd, interrupts, wish, whole>>
     ELSE /\ content[saved.install] # Gone
          /\ journal' = [before |-> saved.install, after |-> b, t3 |-> saved.t3,
                         running |-> active # Stopped, autostart |-> enabled,
                         digest |-> content[saved.install], committed |-> FALSE]
          /\ whole' = (unit = saved.install)
          /\ Begins("relocate", "pause", saved, FALSE, cli)
          /\ UNCHANGED <<saved, content, managerVars, interrupts, wish>>

Recover(cli) ==
  /\ cmd = Idle /\ journal # NoJournal
  /\ Begins("recover", "check", saved, FALSE, cli)
  /\ UNCHANGED <<fileVars, managerVars, interrupts, wish, whole>>

-----------------------------------------------------------------------------
(* The world *)

Interrupted ==
  /\ interrupts < MaxInterrupts
  /\ interrupts' = interrupts + 1
  /\ cmd' = Idle /\ last' = Idle
  /\ wish' = IF cmd = Idle THEN wish ELSE wish \cup Asked
  /\ UNCHANGED <<fileVars, unit, enabled, whole>>

CommandKilled == cmd # Idle /\ Interrupted /\ UNCHANGED active
Reboot == Interrupted /\ active' = IF enabled THEN Launched ELSE Stopped

(* Restart=on-failure, unless the manager gives up or the exit was clean.   *)
DaemonDies ==
  /\ active # Stopped
  /\ active' \in {Stopped, Launched}
  /\ UNCHANGED <<fileVars, unit, enabled, cmd, historyVars>>

PackageChanges(b, v) ==
  /\ v \in Ships[b]
  /\ content' = [content EXCEPT ![b] = v]
  /\ UNCHANGED <<saved, journal, managerVars, cmd, historyVars>>

(* The settings changed outside the relocation. *)
SettingsEdited ==
  /\ cmd = Idle /\ journal # NoJournal
  /\ \E mode \in T3Mode : saved' = [saved EXCEPT !.t3 = mode]
  /\ UNCHANGED <<journal, content, managerVars, cmd, historyVars>>

Effects ==
  \/ Pause \/ StopUnit \/ Save \/ Install \/ Autostart \/ EnableUnit \/ DisableUnit
  \/ Erase \/ StartUnit \/ Restart \/ Await \/ Commit \/ Remove \/ Check

Commands ==
  \E cli \in Version :
    \/ \E b \in Binary, auto \in BOOLEAN, switch \in BOOLEAN : Enable(b, auto, switch, cli)
    \/ \E mode \in T3Mode : T3(mode, cli)
    \/ \E op \in Op : TurnOff(op, cli)
    \/ \E op \in Op, on \in BOOLEAN : Control(op, on, cli)
    \/ \E b \in Binary : Relocate(b, cli)
    \/ Recover(cli)

World ==
  \/ CommandKilled \/ Reboot \/ DaemonDies \/ SettingsEdited
  \/ \E b \in Binary, v \in Build \cup {Gone} : PackageChanges(b, v)

Next == Effects \/ Commands \/ World

Spec == Init /\ [][Next]_vars

(* The operator runs recover until the relocation is settled; a command     *)
(* goes on, and no effect of a recovery fails every time it is attempted.   *)
Recovery == {"pause", "stop", "save", "install", "autostart", "start", "wait", "remove"}
RecoverFairness ==
  /\ WF_vars(\E cli \in Version : Recover(cli))
  /\ WF_vars(Effects)
  /\ SF_vars(Check /\ cmd' # Idle)
  /\ \A step \in Recovery : SF_vars(At(step) /\ Effects /\ Succeeds)

-----------------------------------------------------------------------------
(* Properties *)

(* Between "move" steps no login, restart or recovery starts an executable  *)
(* under settings saved for another one (relocate turns login startup off   *)
(* and stops the service before it saves, and saves before it installs),    *)
(* however often the relocation is cut short, rolled back or resumed.       *)
NoMixedStart ==
  [][journal # NoJournal /\ whole /\ active' # active /\ active' # Stopped =>
       active'.unit = active'.install]_vars

(* The journal goes only when what is saved and what is registered agree    *)
(* again, with the login startup it recorded: nothing is left to recover.   *)
JournalOutlivesMove ==
  [][journal # NoJournal /\ journal' = NoJournal =>
       /\ unit = saved.install
       /\ enabled = journal.autostart
       /\ saved.install = IF journal.committed THEN journal.after ELSE journal.before]_vars

(* "preserving the ... running/login preferences": outside a relocation the *)
(* service starts at login if and only if that is what the operator asked   *)
(* last, or what an interrupted command may have left.                      *)
AutostartSurvives == cmd = Idle /\ journal = NoJournal => enabled \in wish

(* "daemon settings changed outside the relocation; preserve them": neither *)
(* relocate nor recover overwrites settings that are not their own.         *)
ForeignSettingsKept ==
  [][journal # NoJournal /\ saved' # saved /\ cmd # Idle =>
       saved \in {With(journal.before), With(journal.after)}]_vars

(* A paused daemon stays paused: a stopped service starts only by enable,   *)
(* start, a login, or a relocation that found it running.                   *)
PausedStaysPaused ==
  [][active = Stopped /\ active' # Stopped =>
       \/ cmd # Idle /\ cmd.op \in {"enable", "start"}
       \/ enabled /\ interrupts' # interrupts
       \/ journal # NoJournal /\ journal.running]_vars

(* After a successful enable or t3 the daemon that runs has the settings    *)
(* that are saved, and so does the one a crash or a login brings back.      *)
ConfiguredIsRunning ==
  cmd = Idle /\ last # Idle /\ last.op \in {"enable", "t3"} /\ last.result = "ok"
    /\ active # Stopped =>
      /\ active.t3 = saved.t3
      /\ unit = saved.install /\ active.unit = unit /\ active.install = unit

(* A relocation is one atomic change of the executable, or none.            *)
Pending == journal # NoJournal /\ ~journal.committed
Atomic == INSTANCE AtomicMove WITH
  Profile <- [install: Binary \cup {NoBinary}, t3: T3Mode, autostart: BOOLEAN],
  moving  <- Pending,
  profile <- IF Pending
             THEN [install |-> journal.before, t3 |-> journal.t3, autostart |-> journal.autostart]
             ELSE [install |-> saved.install, t3 |-> saved.t3, autostart |-> enabled]
RelocationIsAtomic == Atomic!Move

(* "daemon recover resumes recovery after interruption": with the previous  *)
(* executable retained and the settings left alone it ends.                 *)
Retained ==
  <>[](journal # NoJournal =>
         /\ saved \in {With(journal.before), With(journal.after)}
         /\ journal.committed => saved = With(journal.after)
         /\ content[journal.before] = journal.digest)
RelocationSettles == Retained => (journal # NoJournal ~> journal = NoJournal)

(* docs/macos-distribution.md: "If relocation fails, the previous retained  *)
(* executable and settings are restored."  It does not hold of a failure to *)
(* remove the committed record.                                             *)
FailedIsRestored ==
  cmd = Idle /\ last # Idle /\ last.op = "rollback" /\ last.result = "recovered" =>
    saved.install = last.from

(* docs/cli.md: relocate "updates a registered installation": once it has   *)
(* succeeded, the service manager starts the executable the settings name.  *)
(* It does not hold after an enable that saved and failed to register.      *)
RelocatedIsRegistered ==
  cmd = Idle /\ last # Idle /\ last.op = "relocate" => unit = saved.install
=============================================================================
