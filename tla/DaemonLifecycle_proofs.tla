----------------------- MODULE DaemonLifecycle_proofs -----------------------
(***************************************************************************)
(* Proofs about the daemon commands and relocation of DaemonLifecycle, for  *)
(* any executables, owners, builds and versions.                            *)
(***************************************************************************)
EXTENDS DaemonLifecycle, TLAPS

USE DEF stateVars, managerVars, fileVars, historyVars

LEMMA InitType == Init => TypeOK
<1> SUFFICES ASSUME Init PROVE TypeOK
  OBVIOUS
<1>1. QED
  BY LifecycleAssumption DEF Init, TypeOK, Saved, T3Mode

LEMMA LaunchedType ==
  ASSUME TypeOK
  PROVE  Launched \in Process \cup {Stopped}
BY LifecycleAssumption DEF TypeOK, Launched, Process, Saved

LEMMA GoalType ==
  ASSUME TypeOK, cmd # Idle, Moving => journal # NoJournal
  PROVE  Goal \in Saved
<1>1. CASE Moving
  BY <1>1 DEF TypeOK, Goal, Saved, Journal
<1>2. CASE ~Moving
  BY <1>2 DEF TypeOK, Goal, Command
<1>3. QED
  BY <1>1, <1>2

LEMMA FollowingType ==
  ASSUME TypeOK, cmd # Idle
  PROVE  Following \in Step \cup {"done"}
BY DEF Following, Step, Launch, Finish

(* What Succeeds and Fails do, whatever the effect was.                       *)
LEMMA SucceedsType ==
  ASSUME TypeOK, cmd # Idle, Succeeds
  PROVE  /\ cmd' \in Command \cup {Idle}
         /\ last' \in Outcome \cup {Idle}
         /\ wish' \subseteq BOOLEAN
         /\ content' = content /\ interrupts' = interrupts /\ whole' = whole
<1>1. cmd \in Command
  BY DEF TypeOK
<1>2. Asked \subseteq BOOLEAN
  BY <1>1 DEF Asked, Command
<1>3. CASE Following # "done"
  <2>1. Following \in Step
    BY <1>3, FollowingType
  <2> HIDE DEF Following
  <2>2. [cmd EXCEPT !.pc = Following] \in Command
    BY <1>1, <2>1 DEF Command
  <2>3. QED
    BY <1>3, <2>2 DEF Succeeds, TypeOK
<1>4. CASE Following = "done"
  <2>1. last' \in Outcome
    <3>1. cmd.op \in Op /\ cmd.want.install \in Binary \cup {NoBinary}
      BY <1>1 DEF Command, Saved
    <3>2. QED
      BY <1>4, <3>1 DEF Succeeds, EndsWell, Outcome
  <2>2. QED
    BY <1>2, <1>4, <2>1 DEF Succeeds, EndsWell, TypeOK
<1>5. QED
  BY <1>3, <1>4

LEMMA FailsType ==
  ASSUME TypeOK, cmd # Idle, Fails
  PROVE  /\ cmd' \in Command \cup {Idle}
         /\ last' \in Outcome \cup {Idle}
         /\ wish' \subseteq BOOLEAN
         /\ content' = content /\ interrupts' = interrupts /\ whole' = whole
<1>1. cmd \in Command
  BY DEF TypeOK
<1>2. Asked \subseteq BOOLEAN
  BY <1>1 DEF Asked, Command
<1>3. CASE cmd.op = "relocate"
  <2>1. [cmd EXCEPT !.op = "rollback", !.pc = "check"] \in Command
    BY <1>1 DEF Command, Op, Move, Step
  <2>2. QED
    BY <1>3, <2>1 DEF Fails, TypeOK
<1>4. CASE cmd.op # "relocate"
  BY <1>2, <1>4 DEF Fails, TypeOK
<1>5. QED
  BY <1>3, <1>4

-----------------------------------------------------------------------------
(* The inductive invariant: where a relocation or a recovery stands in its    *)
(* sequence says what is saved, registered, enabled and running, so that      *)
(* wherever it is cut short the journal describes a state recover can undo.   *)
MoveStep == {"check", "pause", "stop", "save", "install", "autostart", "start",
             "wait", "commit", "remove"}

StepsOfTheirOwn ==
  cmd # Idle =>
    /\ Moving => cmd.pc \in MoveStep
    /\ ~Moving => cmd.pc \notin {"check", "pause", "commit", "remove"}
    /\ cmd.pc = "install" /\ ~Moving => cmd.want.install \in Binary
    /\ cmd.pc = "save" => Moving \/ cmd.op \in {"enable", "t3", "disable", "unregister"}
    /\ cmd.pc = "install" => Moving \/ cmd.op \in {"enable", "t3"}
    /\ cmd.pc = "enable" => cmd.op = "enable"
    /\ cmd.pc = "restart" => cmd.op \in {"enable", "t3"}
    /\ cmd.pc = "start" => cmd.op = "start" \/ (Moving /\ journal.running)
    /\ cmd.op = "relocate" => cmd.pc # "check"
    /\ cmd.pc = "commit" => cmd.op = "relocate"

JournalIsTheMoves ==
  cmd # Idle =>
    /\ Moving /\ cmd.pc # "check" => journal # NoJournal
    /\ ~Moving => journal = NoJournal

SoFar ==
  cmd # Idle /\ Moving =>
    /\ cmd.pc \in {"pause", "stop", "save"} =>
         saved \in {With(journal.before), With(journal.after)}
    /\ cmd.pc \in {"stop", "save", "install", "autostart"} => ~enabled
    /\ cmd.pc \in {"save", "install", "autostart", "start"} => active = Stopped
    /\ cmd.pc \in {"install", "autostart", "start", "wait", "commit"} => saved = Goal
    /\ cmd.pc \in {"autostart", "start", "wait", "commit"} => unit = Goal.install
    /\ cmd.pc \in {"start", "wait", "commit"} => enabled = journal.autostart
    /\ cmd.pc \notin {"check", "remove"} => ~journal.committed
    /\ cmd.pc = "remove" =>
         /\ saved = With(IF journal.committed THEN journal.after ELSE journal.before)
         /\ unit = saved.install /\ enabled = journal.autostart
         /\ cmd.op = "relocate" => journal.committed

CommittedIsDone ==
  journal # NoJournal /\ journal.committed =>
    saved.install = journal.after /\ unit = journal.after /\ enabled = journal.autostart

HalfwayIsOff ==
  journal # NoJournal /\ whole /\ unit # saved.install => ~enabled /\ active = Stopped

MoveInv ==
  StepsOfTheirOwn /\ JournalIsTheMoves /\ SoFar /\ CommittedIsDone /\ HalfwayIsOff

(* A step that fails without effect. *)
LEMMA FailsKeeps ==
  ASSUME TypeOK, MoveInv, cmd # Idle, UNCHANGED stateVars, Fails
  PROVE  MoveInv'
<1>1. CASE cmd.op = "relocate"
  <2>1. /\ cmd' # Idle /\ cmd'.op = "rollback" /\ cmd'.pc = "check"
        /\ whole' = whole
    <3>1. cmd \in Command /\ cmd' = [cmd EXCEPT !.op = "rollback", !.pc = "check"]
      BY <1>1 DEF Fails, TypeOK
    <3>2. cmd' \in Command /\ cmd'.op = "rollback" /\ cmd'.pc = "check"
      BY <3>1 DEF Command, Op, Move, Step
    <3>3. QED
      BY <3>2, NullAssumption DEF Fails
  <2>2. QED
    BY <2>1 DEF MoveInv, StepsOfTheirOwn, JournalIsTheMoves, SoFar, CommittedIsDone,
                HalfwayIsOff, Moving, Move, MoveStep
<1>2. CASE cmd.op # "relocate"
  BY <1>2 DEF Fails, MoveInv, StepsOfTheirOwn, JournalIsTheMoves, SoFar, CommittedIsDone,
              HalfwayIsOff
<1>3. QED
  BY <1>1, <1>2

(* Where the command stands after an effect.                                  *)
LEMMA SucceedsTo ==
  ASSUME TypeOK, cmd # Idle, Succeeds
  PROVE  /\ whole' = whole
         /\ IF Following = "done" THEN cmd' = Idle
            ELSE /\ cmd' # Idle /\ cmd'.op = cmd.op /\ cmd'.pc = Following
                 /\ cmd'.want = cmd.want
<1>1. cmd \in Command
  BY DEF TypeOK
<1>2. CASE Following # "done"
  <2>1. Following \in Step
    BY <1>2, FollowingType
  <2>2. cmd' = [cmd EXCEPT !.pc = Following]
    BY <1>2 DEF Succeeds
  <2> HIDE DEF Following
  <2>3. cmd' \in Command /\ cmd'.op = cmd.op /\ cmd'.pc = Following /\ cmd'.want = cmd.want
    BY <1>1, <2>1, <2>2 DEF Command
  <2>4. QED
    BY <1>2, <2>3, NullAssumption DEF Succeeds
<1>3. CASE Following = "done"
  BY <1>3 DEF Succeeds, EndsWell
<1>4. QED
  BY <1>2, <1>3

LEMMA FailsTo ==
  ASSUME TypeOK, cmd # Idle, Fails
  PROVE  /\ whole' = whole
         /\ \/ cmd' = Idle
            \/ cmd' # Idle /\ cmd.op = "relocate" /\ cmd'.op = "rollback" /\ cmd'.pc = "check"
<1>1. CASE cmd.op = "relocate"
  <2>1. cmd \in Command /\ cmd' = [cmd EXCEPT !.op = "rollback", !.pc = "check"]
    BY <1>1 DEF Fails, TypeOK
  <2>2. cmd' \in Command /\ cmd'.op = "rollback" /\ cmd'.pc = "check"
    BY <2>1 DEF Command, Op, Move, Step
  <2>3. QED
    BY <1>1, <2>2, NullAssumption DEF Fails
<1>2. CASE cmd.op # "relocate"
  BY <1>2 DEF Fails
<1>3. QED
  BY <1>1, <1>2

(* An effect done although the step failed: only what holds between commands  *)
(* is left to keep.                                                           *)
LEMMA FailsAfter ==
  ASSUME TypeOK, cmd # Idle, Fails, JournalIsTheMoves, CommittedIsDone', HalfwayIsOff'
  PROVE  MoveInv'
BY FailsTo DEF MoveInv, StepsOfTheirOwn, JournalIsTheMoves, SoFar, Moving, Move, MoveStep

LEMMA PauseKeeps ==
  ASSUME TypeOK, MoveInv, Pause
  PROVE  MoveInv'
<1>1. cmd # Idle /\ cmd.pc = "pause" /\ Moving /\ Following = "stop" /\ journal # NoJournal
  BY DEF Pause, At, Following, MoveInv, StepsOfTheirOwn, JournalIsTheMoves
<1>2. ASSUME SetEnabled(FALSE)
      PROVE  CommittedIsDone' /\ (Succeeds \/ Fails => HalfwayIsOff')
  BY <1>1, <1>2, SucceedsTo, FailsTo DEF SetEnabled, MoveInv, SoFar, CommittedIsDone, HalfwayIsOff
<1>3. CASE SetEnabled(FALSE) /\ Succeeds
  BY <1>1, <1>2, <1>3, SucceedsTo
     DEF SetEnabled, With, MoveInv, StepsOfTheirOwn, JournalIsTheMoves, SoFar, Moving, MoveStep
<1>4. CASE SetEnabled(FALSE) /\ Fails
  BY <1>1, <1>2, <1>4, FailsAfter DEF MoveInv
<1>5. CASE UNCHANGED stateVars /\ Fails
  BY <1>1, <1>5, FailsKeeps
<1>6. QED
  BY <1>3, <1>4, <1>5 DEF Pause, Attempt

(* The commands that move nothing run without a journal, so whatever they     *)
(* change is none of the invariant's.                                         *)
LEMMA OtherCommandsKeep ==
  ASSUME TypeOK, MoveInv, cmd # Idle, ~Moving, journal' = journal, Succeeds \/ Fails
  PROVE  MoveInv'
<1>1. journal = NoJournal /\ cmd.pc \notin {"check", "pause", "commit", "remove"}
  BY DEF MoveInv, JournalIsTheMoves, StepsOfTheirOwn
<1>2. CASE Succeeds
  <2>1. /\ Following \notin {"check", "pause", "commit", "remove"}
        /\ Following \notin {"save", "start"}
        /\ Following = "install" =>
             cmd.want.install # NoBinary /\ cmd.pc = "save" /\ cmd.op \in {"enable", "t3"}
        /\ Following = "enable" => cmd.op = "enable"
        /\ Following = "restart" => cmd.op \in {"enable", "t3"}
    BY <1>1 DEF Following, Launch, Finish, Moving, MoveInv, StepsOfTheirOwn
  <2>2. cmd.want.install \in Binary \cup {NoBinary}
    BY DEF TypeOK, Command, Saved
  <2>3. QED
    BY <1>1, <1>2, <2>1, <2>2, SucceedsTo
       DEF MoveInv, StepsOfTheirOwn, JournalIsTheMoves, SoFar, CommittedIsDone, HalfwayIsOff,
           Moving, Move
<1>3. CASE Fails
  BY <1>1, <1>3, FailsAfter DEF MoveInv, CommittedIsDone, HalfwayIsOff
<1>4. QED
  BY <1>2, <1>3

LEMMA StopUnitKeeps ==
  ASSUME TypeOK, MoveInv, StopUnit
  PROVE  MoveInv'
<1>1. cmd # Idle /\ cmd.pc = "stop"
  BY DEF StopUnit, At
<1>2. CASE ~Moving
  BY <1>1, <1>2, OtherCommandsKeep DEF StopUnit, Attempt, SetActive
<1>3. CASE Moving
  <2>1. Following = "save" /\ journal # NoJournal
    BY <1>1, <1>3 DEF Following, Launch, Finish, Moving, Move, MoveInv, StepsOfTheirOwn,
                         JournalIsTheMoves
  <2>2. ASSUME SetActive(Stopped), Succeeds \/ Fails
        PROVE  CommittedIsDone' /\ HalfwayIsOff'
    BY <1>1, <1>3, <2>1, <2>2, SucceedsTo, FailsTo
       DEF Goal, With, MoveInv, SoFar, CommittedIsDone, HalfwayIsOff, SetActive
  <2>3. CASE (SetActive(Stopped)) /\ Succeeds
    BY <1>1, <1>3, <2>1, <2>2, <2>3, SucceedsTo
       DEF Goal, With, MoveInv, StepsOfTheirOwn, JournalIsTheMoves, SoFar, Moving, MoveStep,
           SetActive
  <2>4. CASE (SetActive(Stopped)) /\ Fails
    BY <1>1, <2>2, <2>4, FailsAfter DEF MoveInv
  <2>5. CASE UNCHANGED stateVars /\ Fails
    BY <1>1, <2>5, FailsKeeps
  <2>6. QED
    BY <1>3, <2>3, <2>4, <2>5 DEF StopUnit, Attempt
<1>4. QED
  BY <1>2, <1>3

LEMMA SaveKeeps ==
  ASSUME TypeOK, MoveInv, Save
  PROVE  MoveInv'
<1>1. cmd # Idle /\ cmd.pc = "save"
  BY DEF Save, At
<1>2. CASE ~Moving
  BY <1>1, <1>2, OtherCommandsKeep DEF Save, Attempt
<1>3. CASE Moving
  <2>1. Following = "install" /\ journal # NoJournal
    BY <1>1, <1>3 DEF Following, Launch, Finish, Moving, Move, MoveInv, StepsOfTheirOwn,
                         JournalIsTheMoves
  <2>2. ASSUME saved' = Goal /\ UNCHANGED <<managerVars, journal>>, Succeeds \/ Fails
        PROVE  CommittedIsDone' /\ HalfwayIsOff'
    BY <1>1, <1>3, <2>1, <2>2, SucceedsTo, FailsTo
       DEF Goal, With, MoveInv, SoFar, CommittedIsDone, HalfwayIsOff
  <2>3. CASE (saved' = Goal /\ UNCHANGED <<managerVars, journal>>) /\ Succeeds
    BY <1>1, <1>3, <2>1, <2>2, <2>3, SucceedsTo
       DEF Goal, With, MoveInv, StepsOfTheirOwn, JournalIsTheMoves, SoFar, Moving, MoveStep
  <2>4. CASE (saved' = Goal /\ UNCHANGED <<managerVars, journal>>) /\ Fails
    BY <1>1, <2>2, <2>4, FailsAfter DEF MoveInv
  <2>5. CASE UNCHANGED stateVars /\ Fails
    BY <1>1, <2>5, FailsKeeps
  <2>6. QED
    BY <1>3, <2>3, <2>4, <2>5 DEF Save, Attempt
<1>4. QED
  BY <1>2, <1>3

LEMMA InstallKeeps ==
  ASSUME TypeOK, MoveInv, Install
  PROVE  MoveInv'
<1>1. cmd # Idle /\ cmd.pc = "install"
  BY DEF Install, At
<1>2. CASE ~Moving
  BY <1>1, <1>2, OtherCommandsKeep DEF Install, Attempt
<1>3. CASE Moving
  <2>1. Following = "autostart" /\ journal # NoJournal
    BY <1>1, <1>3 DEF Following, Launch, Finish, Moving, Move, MoveInv, StepsOfTheirOwn,
                         JournalIsTheMoves
  <2>2. ASSUME unit' = Goal.install, UNCHANGED <<saved, enabled, active, journal>>,
               Succeeds \/ Fails
        PROVE  CommittedIsDone' /\ HalfwayIsOff'
    BY <1>1, <1>3, <2>1, <2>2, SucceedsTo, FailsTo
       DEF Goal, With, MoveInv, SoFar, CommittedIsDone, HalfwayIsOff
  <2>3. CASE (unit' = Goal.install /\ UNCHANGED <<saved, enabled, active, journal>>) /\ Succeeds
    BY <1>1, <1>3, <2>1, <2>2, <2>3, SucceedsTo
       DEF Goal, With, MoveInv, StepsOfTheirOwn, JournalIsTheMoves, SoFar, Moving, MoveStep
  <2>4. CASE (unit' = Goal.install /\ UNCHANGED <<saved, enabled, active, journal>>) /\ Fails
    BY <1>1, <2>2, <2>4, FailsAfter DEF MoveInv
  <2>5. CASE UNCHANGED stateVars /\ Fails
    BY <1>1, <2>5, FailsKeeps
  <2>6. QED
    BY <1>3, <2>3, <2>4, <2>5 DEF Install, Attempt
<1>4. QED
  BY <1>2, <1>3

LEMMA AutostartKeeps ==
  ASSUME TypeOK, MoveInv, Autostart
  PROVE  MoveInv'
<1>1. cmd # Idle /\ cmd.pc = "autostart"
  BY DEF Autostart, At
<1>2. CASE ~Moving
  BY <1>1, <1>2, OtherCommandsKeep DEF Autostart, Attempt, SetEnabled
<1>3. CASE Moving
  <2>1. Following = Launch /\ journal # NoJournal
    BY <1>1, <1>3 DEF Following, Moving, Move, MoveInv, StepsOfTheirOwn,
                         JournalIsTheMoves
  <2>2. ASSUME SetEnabled(IF Moving THEN journal.autostart ELSE cmd.flag), Succeeds \/ Fails
        PROVE  CommittedIsDone' /\ HalfwayIsOff'
    BY <1>1, <1>3, <2>1, <2>2, SucceedsTo, FailsTo
       DEF Goal, With, MoveInv, SoFar, CommittedIsDone, HalfwayIsOff, SetEnabled,
           Launch, Finish
  <2>3. CASE (SetEnabled(IF Moving THEN journal.autostart ELSE cmd.flag)) /\ Succeeds
    BY <1>1, <1>3, <2>1, <2>2, <2>3, SucceedsTo
       DEF Goal, With, MoveInv, StepsOfTheirOwn, JournalIsTheMoves, SoFar, Moving, MoveStep,
           SetEnabled,
           Launch, Finish
  <2>4. CASE (SetEnabled(IF Moving THEN journal.autostart ELSE cmd.flag)) /\ Fails
    BY <1>1, <2>2, <2>4, FailsAfter DEF MoveInv
  <2>5. CASE UNCHANGED stateVars /\ Fails
    BY <1>1, <2>5, FailsKeeps
  <2>6. QED
    BY <1>3, <2>3, <2>4, <2>5 DEF Autostart, Attempt
<1>4. QED
  BY <1>2, <1>3

LEMMA StartUnitKeeps ==
  ASSUME TypeOK, MoveInv, StartUnit
  PROVE  MoveInv'
<1>1. cmd # Idle /\ cmd.pc = "start"
  BY DEF StartUnit, At
<1>2. CASE ~Moving
  BY <1>1, <1>2, OtherCommandsKeep DEF StartUnit, Attempt, SetActive
<1>3. CASE Moving
  <2>1. Following = "wait" /\ journal # NoJournal
    BY <1>1, <1>3 DEF Following, Launch, Finish, Moving, Move, MoveInv, StepsOfTheirOwn,
                         JournalIsTheMoves
  <2>2. ASSUME SetActive(IF active = Stopped THEN Launched ELSE active), Succeeds \/ Fails
        PROVE  CommittedIsDone' /\ HalfwayIsOff'
    BY <1>1, <1>3, <2>1, <2>2, SucceedsTo, FailsTo
       DEF Goal, With, MoveInv, SoFar, CommittedIsDone, HalfwayIsOff, SetActive
  <2>3. CASE (SetActive(IF active = Stopped THEN Launched ELSE active)) /\ Succeeds
    BY <1>1, <1>3, <2>1, <2>2, <2>3, SucceedsTo
       DEF Goal, With, MoveInv, StepsOfTheirOwn, JournalIsTheMoves, SoFar, Moving, MoveStep,
           SetActive
  <2>4. CASE (SetActive(IF active = Stopped THEN Launched ELSE active)) /\ Fails
    BY <1>1, <2>2, <2>4, FailsAfter DEF MoveInv
  <2>5. CASE UNCHANGED stateVars /\ Fails
    BY <1>1, <2>5, FailsKeeps
  <2>6. QED
    BY <1>3, <2>3, <2>4, <2>5 DEF StartUnit, Attempt
<1>4. QED
  BY <1>2, <1>3

LEMMA AwaitKeeps ==
  ASSUME TypeOK, MoveInv, Await
  PROVE  MoveInv'
<1>1. cmd # Idle /\ cmd.pc = "wait" /\ UNCHANGED stateVars /\ (Succeeds \/ Fails)
  BY DEF Await, At
<1>2. CASE ~Moving
  BY <1>1, <1>2, OtherCommandsKeep
<1>3. CASE Moving /\ Succeeds
  <2>1. Following = Finish /\ Finish \in {"commit", "remove"} /\ journal # NoJournal
    BY <1>1, <1>3 DEF Following, Finish, MoveInv, StepsOfTheirOwn, JournalIsTheMoves
  <2>2. QED
    BY <1>1, <1>3, <2>1, SucceedsTo
       DEF Goal, With, Finish, MoveInv, StepsOfTheirOwn, JournalIsTheMoves, SoFar, Moving,
           MoveStep, CommittedIsDone, HalfwayIsOff
<1>4. CASE Fails
  BY <1>1, <1>4, FailsKeeps
<1>5. QED
  BY <1>1, <1>2, <1>3, <1>4

LEMMA CommitKeeps ==
  ASSUME TypeOK, MoveInv, Commit
  PROVE  MoveInv'
<1> DEFINE effect == /\ journal' = [journal EXCEPT !.committed = TRUE]
                     /\ UNCHANGED <<saved, managerVars>>
<1>1. /\ cmd # Idle /\ cmd.pc = "commit" /\ cmd.op = "relocate" /\ Moving /\ Following = "remove"
      /\ journal \in Journal
  BY DEF Commit, At, Following, MoveInv, StepsOfTheirOwn, JournalIsTheMoves, Moving, Move, TypeOK
<1>2. /\ saved = With(journal.after) /\ unit = journal.after /\ enabled = journal.autostart
  BY <1>1 DEF MoveInv, SoFar, Goal, With
<1>3. ASSUME effect
      PROVE  /\ journal' \in Journal /\ journal' # NoJournal
             /\ journal'.committed /\ journal'.after = journal.after
             /\ journal'.before = journal.before
             /\ journal'.t3 = journal.t3 /\ journal'.autostart = journal.autostart
  <2>1. journal' = [journal EXCEPT !.committed = TRUE]
    BY <1>3
  <2>2. journal' \in Journal
    BY <1>1, <2>1 DEF Journal
  <2>3. QED
    BY <1>1, <2>1, <2>2, NullAssumption DEF Journal
<1>4. ASSUME effect PROVE CommittedIsDone' /\ HalfwayIsOff'
  BY <1>2, <1>3, <1>4 DEF CommittedIsDone, HalfwayIsOff, With
<1>5. CASE effect /\ Succeeds
  BY <1>1, <1>2, <1>3, <1>4, <1>5, SucceedsTo
     DEF With, MoveInv, StepsOfTheirOwn, JournalIsTheMoves, SoFar, Moving, MoveStep
<1>6. CASE effect /\ Fails
  BY <1>1, <1>4, <1>6, FailsAfter DEF MoveInv
<1>7. CASE UNCHANGED stateVars /\ Fails
  BY <1>1, <1>7, FailsKeeps
<1>8. QED
  BY <1>5, <1>6, <1>7 DEF Commit, Attempt

LEMMA RemoveKeeps ==
  ASSUME TypeOK, MoveInv, Remove
  PROVE  MoveInv'
<1>1. cmd # Idle /\ cmd.pc = "remove" /\ Following = "done"
  BY DEF Remove, At, Following
<1>2. ASSUME journal' = NoJournal PROVE CommittedIsDone' /\ HalfwayIsOff'
  BY <1>2 DEF CommittedIsDone, HalfwayIsOff
<1>3. CASE journal' = NoJournal /\ Succeeds
  BY <1>1, <1>2, <1>3, SucceedsTo DEF MoveInv, StepsOfTheirOwn, JournalIsTheMoves, SoFar
<1>4. CASE journal' = NoJournal /\ Fails
  BY <1>1, <1>2, <1>4, FailsAfter DEF MoveInv
<1>5. CASE UNCHANGED stateVars /\ Fails
  BY <1>1, <1>5, FailsKeeps
<1>6. QED
  BY <1>3, <1>4, <1>5 DEF Remove, Attempt

LEMMA CheckKeeps ==
  ASSUME TypeOK, MoveInv, Check
  PROVE  MoveInv'
<1>1. /\ cmd # Idle /\ cmd.pc = "check" /\ cmd \in Command /\ UNCHANGED stateVars
      /\ Moving /\ cmd.op # "relocate"
  BY DEF Check, At, MoveInv, StepsOfTheirOwn, TypeOK
<1>2. CASE journal = NoJournal /\ EndsWell
  BY <1>1, <1>2 DEF EndsWell, MoveInv, StepsOfTheirOwn, JournalIsTheMoves, SoFar,
                    CommittedIsDone, HalfwayIsOff
<1>3. CASE /\ journal # NoJournal /\ Recoverable /\ whole' = whole
           /\ cmd' = [cmd EXCEPT !.pc = IF journal.committed THEN "remove" ELSE "pause"]
  <2>1. /\ cmd' \in Command /\ cmd'.op = cmd.op
        /\ cmd'.pc = (IF journal.committed THEN "remove" ELSE "pause")
    BY <1>1, <1>3 DEF Command, Step
  <2>2. cmd' # Idle
    BY <2>1, NullAssumption
  <2>3. /\ saved \in {With(journal.before), With(journal.after)}
        /\ journal.committed => saved = With(journal.after)
    BY <1>3 DEF Recoverable
  <2>4. QED
    BY <1>1, <1>3, <2>1, <2>2, <2>3
       DEF With, MoveInv, StepsOfTheirOwn, JournalIsTheMoves, SoFar, Moving, MoveStep,
           CommittedIsDone, HalfwayIsOff
<1>4. CASE Fails
  BY <1>1, <1>4, FailsKeeps
<1>5. QED
  BY <1>2, <1>3, <1>4 DEF Check

-----------------------------------------------------------------------------
LEMMA BeginsTo ==
  ASSUME NEW op \in Op, NEW pc \in Step, NEW want \in Saved, NEW flag \in BOOLEAN,
         NEW cli \in Version, Begins(op, pc, want, flag, cli)
  PROVE  /\ cmd' \in Command /\ cmd' # Idle /\ last' = Idle
         /\ cmd'.op = op /\ cmd'.pc = pc /\ cmd'.want = want
BY NullAssumption DEF Begins, Command

LEMMA JournalCreated ==
  ASSUME TypeOK, NEW cli, NEW b \in Binary, Relocate(b, cli), saved.install # b
  PROVE  /\ journal' \in Journal /\ ~journal'.committed
         /\ journal'.before = saved.install /\ journal'.t3 = saved.t3
         /\ journal'.autostart = enabled
<1>1. saved.install \in Binary /\ saved.t3 \in T3Mode /\ content[saved.install] \in Build
  BY DEF Relocate, TypeOK, Saved
<1>2. journal' = [before |-> saved.install, after |-> b, t3 |-> saved.t3,
                  running |-> active # Stopped, autostart |-> enabled,
                  digest |-> content[saved.install], committed |-> FALSE]
  BY DEF Relocate
<1>3. (active # Stopped) \in BOOLEAN /\ enabled \in BOOLEAN
  BY DEF TypeOK
<1>4. QED
  BY <1>1, <1>2, <1>3 DEF Journal

LEMMA CommandsType ==
  ASSUME TypeOK, Commands
  PROVE  TypeOK'
<1> PICK cli \in Version :
      \/ \E b \in Binary, auto \in BOOLEAN, switch \in BOOLEAN : Enable(b, auto, switch, cli)
      \/ \E mode \in T3Mode : T3(mode, cli)
      \/ \E op \in Op : TurnOff(op, cli)
      \/ \E op \in Op, on \in BOOLEAN : Control(op, on, cli)
      \/ \E b \in Binary : Relocate(b, cli)
      \/ Recover(cli)
  BY DEF Commands
<1>1. ASSUME NEW op \in Op, NEW pc \in Step, NEW want \in Saved, NEW flag \in BOOLEAN,
             Begins(op, pc, want, flag, cli),
             UNCHANGED <<fileVars, managerVars, interrupts, wish, whole>>
      PROVE  TypeOK'
  BY <1>1, BeginsTo DEF TypeOK
<1>2. ASSUME NEW b \in Binary, NEW auto \in BOOLEAN, NEW switch \in BOOLEAN,
             Enable(b, auto, switch, cli)
      PROVE  TypeOK'
  <2>1. [t3 |-> IF auto THEN "auto" ELSE saved.t3, install |-> b] \in Saved
    BY DEF TypeOK, Saved, T3Mode
  <2>2. "enable" \in Op /\ "save" \in Step
    BY DEF Op, Step
  <2>3. QED
    BY <1>1, <1>2, <2>1, <2>2 DEF Enable
<1>3. ASSUME NEW mode \in T3Mode, T3(mode, cli) PROVE TypeOK'
  <2>1. [saved EXCEPT !.t3 = mode] \in Saved
    BY DEF TypeOK, Saved
  <2>2. "t3" \in Op /\ "save" \in Step /\ (saved.install # NoBinary /\ active # Stopped) \in BOOLEAN
    BY DEF Op, Step
  <2>3. QED
    BY <1>1, <1>3, <2>1, <2>2 DEF T3
<1>4. ASSUME NEW op \in Op, TurnOff(op, cli) PROVE TypeOK'
  <2>1. "save" \in Step /\ saved \in Saved
    BY DEF Step, TypeOK
  <2>2. QED
    BY <1>1, <1>4, <2>1 DEF TurnOff
<1>5. ASSUME NEW op \in Op, NEW on \in BOOLEAN, Control(op, on, cli) PROVE TypeOK'
  <2>1. op \in Step /\ saved \in Saved
    BY <1>5 DEF Step, TypeOK, Control
  <2>2. QED
    BY <1>1, <1>5, <2>1 DEF Control
<1>6. ASSUME NEW b \in Binary, Relocate(b, cli) PROVE TypeOK'
  <2>1. CASE saved.install = b
    <3>1. last' \in Outcome
      BY <1>6, <2>1 DEF Relocate, Outcome, Op, Move
    <3>2. QED
      BY <1>6, <2>1, <3>1 DEF Relocate, TypeOK
  <2>2. CASE saved.install # b
    <3>1. journal' \in Journal
      BY <1>6, <2>2, JournalCreated
    <3>2. "relocate" \in Op /\ "pause" \in Step /\ saved \in Saved
      BY DEF Op, Move, Step, TypeOK
    <3>3. Begins("relocate", "pause", saved, FALSE, cli)
      BY <1>6, <2>2 DEF Relocate
    <3>4. cmd' \in Command /\ last' = Idle
      BY <3>2, <3>3, BeginsTo
    <3>5. QED
      BY <1>6, <2>2, <3>1, <3>4 DEF Relocate, TypeOK
  <2>3. QED
    BY <2>1, <2>2
<1>7. ASSUME Recover(cli) PROVE TypeOK'
  <2>1. "recover" \in Op /\ "check" \in Step /\ saved \in Saved
    BY DEF Op, Move, Step, TypeOK
  <2>2. QED
    BY <1>1, <1>7, <2>1 DEF Recover
<1>8. QED
  BY <1>2, <1>3, <1>4, <1>5, <1>6, <1>7

LEMMA EffectsType ==
  ASSUME TypeOK, MoveInv, Effects
  PROVE  TypeOK'
<1>1. ASSUME cmd # Idle, Succeeds \/ Fails,
             saved' \in Saved, unit' \in Binary \cup {NoUnit}, enabled' \in BOOLEAN,
             active' \in Process \cup {Stopped}, journal' \in Journal \cup {NoJournal}
      PROVE  TypeOK'
  BY <1>1, SucceedsType, FailsType DEF TypeOK
<1>2. ASSUME cmd # Idle, cmd.pc # "check" PROVE Goal \in Saved
  BY <1>2, GoalType DEF MoveInv, JournalIsTheMoves
<1>3. ASSUME cmd # Idle, cmd.pc = "install" PROVE Goal.install \in Binary
  <2>1. CASE Moving
    BY <1>3, <2>1 DEF Goal, MoveInv, JournalIsTheMoves, TypeOK, Journal
  <2>2. CASE ~Moving
    BY <1>3, <2>2 DEF Goal, MoveInv, StepsOfTheirOwn
  <2>3. QED
    BY <2>1, <2>2
<1>4. cmd # Idle /\ cmd.pc = "autostart" =>
        (IF Moving THEN journal.autostart ELSE cmd.flag) \in BOOLEAN
  BY DEF MoveInv, JournalIsTheMoves, TypeOK, Journal, Command
<1>5. CASE Pause
  BY <1>1, <1>5 DEF Pause, At, Attempt, SetEnabled, TypeOK
<1>6. CASE StopUnit
  BY <1>1, <1>6 DEF StopUnit, At, Attempt, SetActive, TypeOK
<1>7. CASE Save
  BY <1>1, <1>2, <1>7 DEF Save, At, Attempt, TypeOK
<1>8. CASE Install
  BY <1>1, <1>3, <1>8 DEF Install, At, Attempt, TypeOK
<1>9. CASE Autostart
  BY <1>1, <1>4, <1>9 DEF Autostart, At, Attempt, SetEnabled, TypeOK
<1>10. CASE EnableUnit
  BY <1>1, <1>10 DEF EnableUnit, At, Attempt, SetEnabled, TypeOK
<1>11. CASE DisableUnit
  BY <1>1, <1>11 DEF DisableUnit, At, Attempt, TypeOK
<1>12. CASE Erase
  BY <1>1, <1>12 DEF Erase, At, Attempt, TypeOK
<1>13. CASE StartUnit
  BY <1>1, <1>13, LaunchedType DEF StartUnit, At, Attempt, SetActive, TypeOK
<1>14. CASE Restart
  BY <1>1, <1>14, LaunchedType DEF Restart, At, Attempt, SetActive, TypeOK
<1>15. CASE Await
  BY <1>1, <1>15 DEF Await, At, TypeOK
<1>16. CASE Commit
  <2>1. journal \in Journal /\ [journal EXCEPT !.committed = TRUE] \in Journal
    BY <1>16 DEF Commit, At, MoveInv, StepsOfTheirOwn, JournalIsTheMoves, TypeOK, Journal, Moving,
                 Move
  <2>2. QED
    BY <1>1, <1>16, <2>1 DEF Commit, At, Attempt, TypeOK
<1>17. CASE Remove
  BY <1>1, <1>17 DEF Remove, At, Attempt, TypeOK
<1>18. CASE Check
  <2>1. cmd \in Command /\ UNCHANGED stateVars /\ cmd # Idle
    BY <1>18 DEF Check, At, TypeOK
  <2>2. CASE EndsWell /\ UNCHANGED <<wish, content, interrupts, whole>>
    <3>1. cmd.op \in Op /\ cmd.want.install \in Binary \cup {NoBinary}
      BY <2>1 DEF Command, Saved
    <3>2. last' \in Outcome
      BY <2>2, <3>1 DEF EndsWell, Outcome
    <3>3. QED
      BY <2>1, <2>2, <3>2 DEF EndsWell, TypeOK
  <2>3. CASE /\ cmd' = [cmd EXCEPT !.pc = IF journal.committed THEN "remove" ELSE "pause"]
             /\ UNCHANGED <<content, historyVars>>
    <3>1. cmd' \in Command
      BY <2>1, <2>3 DEF Command, Step
    <3>2. QED
      BY <2>1, <2>3, <3>1 DEF TypeOK
  <2>4. CASE Fails
    BY <1>1, <2>1, <2>4 DEF TypeOK
  <2>5. QED
    BY <1>18, <2>2, <2>3, <2>4 DEF Check
<1>19. QED
  BY <1>5, <1>6, <1>7, <1>8, <1>9, <1>10, <1>11, <1>12, <1>13, <1>14, <1>15, <1>16, <1>17,
     <1>18 DEF Effects

LEMMA WorldType ==
  ASSUME TypeOK, World
  PROVE  TypeOK'
<1>1. Asked \subseteq BOOLEAN \/ cmd = Idle
  BY DEF Asked, TypeOK, Command
<1>2. CASE CommandKilled
  BY <1>1, <1>2 DEF CommandKilled, Interrupted, TypeOK
<1>3. CASE Reboot
  BY <1>1, <1>3, LaunchedType DEF Reboot, Interrupted, TypeOK
<1>4. CASE DaemonDies
  BY <1>4, LaunchedType DEF DaemonDies, TypeOK
<1>5. CASE SettingsEdited
  BY <1>5 DEF SettingsEdited, TypeOK, Saved
<1>6. ASSUME NEW b \in Binary, NEW v \in Build \cup {Gone}, PackageChanges(b, v) PROVE TypeOK'
  BY <1>6 DEF PackageChanges, TypeOK
<1>7. QED
  BY <1>2, <1>3, <1>4, <1>5, <1>6 DEF World

-----------------------------------------------------------------------------
LEMMA CommandsKeep ==
  ASSUME TypeOK, MoveInv, Commands
  PROVE  MoveInv'
<1> PICK cli \in Version :
      \/ \E b \in Binary, auto \in BOOLEAN, switch \in BOOLEAN : Enable(b, auto, switch, cli)
      \/ \E mode \in T3Mode : T3(mode, cli)
      \/ \E op \in Op : TurnOff(op, cli)
      \/ \E op \in Op, on \in BOOLEAN : Control(op, on, cli)
      \/ \E b \in Binary : Relocate(b, cli)
      \/ Recover(cli)
  BY DEF Commands
<1>1. ASSUME MayBegin, journal' = journal, NEW op \in Op \ Move,
             NEW pc \in {"save", "start", "stop", "autostart"},
             NEW want \in Saved, NEW flag \in BOOLEAN, Begins(op, pc, want, flag, cli),
             pc = "save" => op \in {"enable", "t3", "disable", "unregister"},
             pc = "start" => op = "start"
      PROVE  MoveInv'
  <2>1. cmd' # Idle /\ cmd'.op = op /\ cmd'.pc = pc
    BY <1>1, BeginsTo DEF Step
  <2>2. QED
    BY <1>1, <2>1 DEF MayBegin, MoveInv, StepsOfTheirOwn, JournalIsTheMoves, SoFar, Moving,
                      CommittedIsDone, HalfwayIsOff
<1>2. ASSUME NEW b \in Binary, NEW auto \in BOOLEAN, NEW switch \in BOOLEAN,
             Enable(b, auto, switch, cli)
      PROVE  MoveInv'
  <2>1. [t3 |-> IF auto THEN "auto" ELSE saved.t3, install |-> b] \in Saved
    BY DEF TypeOK, Saved, T3Mode
  <2>2. "enable" \in Op \ Move
    BY DEF Op, Move
  <2>3. QED
    BY <1>1, <1>2, <2>1, <2>2 DEF Enable
<1>3. ASSUME NEW mode \in T3Mode, T3(mode, cli) PROVE MoveInv'
  <2>1. [saved EXCEPT !.t3 = mode] \in Saved
    BY DEF TypeOK, Saved
  <2>2. "t3" \in Op \ Move /\ (saved.install # NoBinary /\ active # Stopped) \in BOOLEAN
    BY DEF Op, Move
  <2>3. QED
    BY <1>1, <1>3, <2>1, <2>2 DEF T3
<1>4. ASSUME NEW op \in Op, TurnOff(op, cli) PROVE MoveInv'
  <2>1. op \in Op \ Move /\ saved \in Saved
    BY <1>4 DEF Move, TypeOK, TurnOff
  <2>2. QED
    BY <1>1, <1>4, <2>1 DEF TurnOff
<1>5. ASSUME NEW op \in Op, NEW on \in BOOLEAN, Control(op, on, cli) PROVE MoveInv'
  <2>1. op \in Op \ Move /\ op \in {"save", "start", "stop", "autostart"} /\ saved \in Saved
    BY <1>5 DEF Move, TypeOK, Control
  <2>2. QED
    BY <1>1, <1>5, <2>1 DEF Control
<1>6. ASSUME NEW b \in Binary, Relocate(b, cli) PROVE MoveInv'
  <2>1. CASE saved.install = b
    BY <1>6, <2>1 DEF Relocate, MayBegin, MoveInv, StepsOfTheirOwn, JournalIsTheMoves, SoFar,
                      CommittedIsDone, HalfwayIsOff
  <2>2. CASE saved.install # b
    <3>1. "relocate" \in Op /\ "pause" \in Step /\ saved \in Saved
      BY DEF Op, Move, Step, TypeOK
    <3>2. Begins("relocate", "pause", saved, FALSE, cli)
      BY <1>6, <2>2 DEF Relocate
    <3>3. cmd' # Idle /\ cmd'.op = "relocate" /\ cmd'.pc = "pause"
      BY <3>1, <3>2, BeginsTo
    <3>5. journal' # NoJournal /\ ~journal'.committed
      BY <1>6, <2>2, JournalCreated, NullAssumption
    <3>6. whole' => unit' = saved'.install
      BY <1>6, <2>2 DEF Relocate
    <3>8. saved' = With(journal.before)'
      BY <1>6, <2>2, <3>1, JournalCreated DEF Relocate, With, Saved
    <3>7. QED
      BY <3>3, <3>5, <3>6, <3>8 DEF With, MoveInv, StepsOfTheirOwn, JournalIsTheMoves, SoFar,
                              Moving, Move,
                              MoveStep, CommittedIsDone, HalfwayIsOff
  <2>3. QED
    BY <2>1, <2>2
<1>7. ASSUME Recover(cli) PROVE MoveInv'
  <2>1. "recover" \in Op /\ "check" \in Step /\ saved \in Saved
    BY DEF Op, Move, Step, TypeOK
  <2>2. cmd' # Idle /\ cmd'.op = "recover" /\ cmd'.pc = "check"
    BY <1>7, <2>1, BeginsTo DEF Recover
  <2>3. QED
    BY <1>7, <2>2 DEF Recover, MoveInv, StepsOfTheirOwn, JournalIsTheMoves, SoFar, Moving, Move,
                      MoveStep, CommittedIsDone, HalfwayIsOff
<1>8. QED
  BY <1>2, <1>3, <1>4, <1>5, <1>6, <1>7

LEMMA WorldKeeps ==
  ASSUME TypeOK, MoveInv, World
  PROVE  MoveInv'
<1> USE DEF MoveInv, StepsOfTheirOwn, JournalIsTheMoves, SoFar, CommittedIsDone, HalfwayIsOff
<1>1. CASE CommandKilled
  BY <1>1 DEF CommandKilled, Interrupted
<1>2. CASE Reboot
  BY <1>2 DEF Reboot, Interrupted
<1>3. CASE DaemonDies
  BY <1>3 DEF DaemonDies, Goal, With, Moving
<1>4. CASE SettingsEdited
  <2>1. saved'.install = saved.install
    BY <1>4 DEF SettingsEdited, TypeOK, Saved
  <2>2. QED
    BY <1>4, <2>1 DEF SettingsEdited
<1>5. ASSUME NEW b \in Binary, NEW v \in Build \cup {Gone}, PackageChanges(b, v) PROVE MoveInv'
  BY <1>5 DEF PackageChanges, Goal, With, Moving
<1>6. QED
  BY <1>1, <1>2, <1>3, <1>4, <1>5 DEF World

-----------------------------------------------------------------------------
(* Every variable keeps its type, and the invariant holds: cut short after    *)
(* any effect, a relocation leaves a journal that describes what is there.    *)
THEOREM MoveInvariant == Spec => [](TypeOK /\ MoveInv)
<1>1. Init => TypeOK /\ MoveInv
  <2>1. Init => MoveInv
    BY DEF Init, MoveInv, StepsOfTheirOwn, JournalIsTheMoves, SoFar, CommittedIsDone, HalfwayIsOff
  <2>2. QED
    BY <2>1, InitType
<1>2. TypeOK /\ MoveInv /\ [Next]_vars => TypeOK' /\ MoveInv'
  <2> SUFFICES ASSUME TypeOK, MoveInv, [Next]_vars PROVE TypeOK' /\ MoveInv'
    OBVIOUS
  <2>1. CASE Effects
    <3>1. TypeOK'
      BY <2>1, EffectsType
    <3>2. MoveInv'
      <4>1. CASE EnableUnit \/ DisableUnit \/ Erase \/ Restart
        <5>1. cmd # Idle /\ ~Moving /\ journal' = journal /\ (Succeeds \/ Fails)
          BY <4>1 DEF EnableUnit, DisableUnit, Erase, Restart, At, Attempt, SetEnabled, SetActive,
                      MoveInv, StepsOfTheirOwn, MoveStep
        <5>2. QED
          BY <5>1, OtherCommandsKeep
      <4>2. QED
        BY <2>1, <4>1, PauseKeeps, StopUnitKeeps, SaveKeeps, InstallKeeps, AutostartKeeps,
           StartUnitKeeps, AwaitKeeps, CommitKeeps, RemoveKeeps, CheckKeeps DEF Effects
    <3>3. QED
      BY <3>1, <3>2
  <2>2. CASE Commands
    BY <2>2, CommandsType, CommandsKeep
  <2>3. CASE World
    BY <2>3, WorldType, WorldKeeps
  <2>4. CASE UNCHANGED vars
    BY <2>4 DEF vars, TypeOK, MoveInv, StepsOfTheirOwn, JournalIsTheMoves, SoFar, CommittedIsDone,
                HalfwayIsOff, Goal, With, Moving
  <2>5. QED
    BY <2>1, <2>2, <2>3, <2>4 DEF Next
<1>3. QED
  BY <1>1, <1>2, PTL DEF Spec

(* TypeOK of the runs. *)
THEOREM LifecycleTypes == Spec => []TypeOK
BY MoveInvariant, PTL

-----------------------------------------------------------------------------
(* A process starts from what is registered under what is saved.              *)
LEMMA LaunchedFrom ==
  Launched # Stopped => Launched.unit = unit /\ Launched.install = saved.install
BY DEF Launched

(* NoMixedStart: no executable is started under settings saved for another.   *)
THEOREM NeverMixed == Spec => NoMixedStart
<1>1. TypeOK /\ MoveInv /\ [Next]_vars =>
        [journal # NoJournal /\ whole /\ active' # active /\ active' # Stopped =>
           active'.unit = active'.install]_vars
  <2> SUFFICES ASSUME TypeOK, MoveInv, Next, journal # NoJournal, whole,
                      active' # active, active' # Stopped
               PROVE  active'.unit = active'.install
    OBVIOUS
  <2>1. CASE Effects
    <3>1. cmd # Idle => Moving
      BY DEF MoveInv, JournalIsTheMoves
    <3>2. ~Restart /\ ~DisableUnit
      BY <3>1 DEF Restart, DisableUnit, At, MoveInv, StepsOfTheirOwn, MoveStep
    <3>3. CASE StartUnit
      <4>1. cmd # Idle /\ cmd.pc = "start" /\ Moving
        BY <3>1, <3>3 DEF StartUnit, At
      <4>2. unit = saved.install /\ active = Stopped
        BY <4>1 DEF MoveInv, SoFar
      <4>3. active' = Launched
        BY <3>3, <4>2 DEF StartUnit, Attempt, SetActive
      <4>4. QED
        BY <4>2, <4>3, LaunchedFrom
    <3>4. CASE ~StartUnit
      BY <2>1, <3>2, <3>4
         DEF Effects, Pause, StopUnit, Save, Install, Autostart, EnableUnit, Erase, Await,
             Commit, Remove, Check, Attempt, SetEnabled, SetActive
    <3>5. QED
      BY <3>3, <3>4
  <2>2. CASE Commands
    BY <2>2 DEF Commands, Enable, T3, TurnOff, Control, Relocate, Recover
  <2>3. CASE Reboot
    BY <2>3, LaunchedFrom DEF Reboot, MoveInv, HalfwayIsOff
  <2>4. CASE DaemonDies
    BY <2>4, LaunchedFrom DEF DaemonDies, MoveInv, HalfwayIsOff
  <2>5. CASE World /\ ~Reboot /\ ~DaemonDies
    BY <2>5 DEF World, CommandKilled, SettingsEdited, PackageChanges
  <2>6. QED
    BY <2>1, <2>2, <2>3, <2>4, <2>5 DEF Next
<1>2. QED
  BY <1>1, MoveInvariant, PTL DEF Spec, NoMixedStart

(* What happens to the journal: relocate creates it, commit marks it, remove  *)
(* removes it.                                                                *)
LEMMA JournalSteps ==
  ASSUME TypeOK, MoveInv, Next
  PROVE  \/ journal' = journal
         \/ \E cli \in Version, b \in Binary : Relocate(b, cli) /\ saved.install # b
         \/ /\ Commit /\ journal' = [journal EXCEPT !.committed = TRUE]
            /\ UNCHANGED <<saved, managerVars>>
         \/ Remove /\ journal' = NoJournal /\ UNCHANGED <<saved, managerVars>>
<1>1. CASE Effects
  BY <1>1
     DEF Effects, Pause, StopUnit, Save, Install, Autostart, EnableUnit, DisableUnit, Erase,
         StartUnit, Restart, Await, Commit, Remove, Check, Attempt, SetEnabled, SetActive
<1>2. CASE Commands
  BY <1>2 DEF Commands, Enable, T3, TurnOff, Control, Relocate, Recover
<1>3. CASE World
  BY <1>3 DEF World, CommandKilled, Reboot, Interrupted, DaemonDies, SettingsEdited,
              PackageChanges
<1>4. QED
  BY <1>1, <1>2, <1>3 DEF Next

(* Where Commit and Remove find the state.                                    *)
LEMMA AtTheEnd ==
  ASSUME TypeOK, MoveInv
  PROVE  /\ Commit => /\ journal \in Journal /\ ~journal.committed
                      /\ saved = With(journal.after) /\ unit = journal.after
                      /\ enabled = journal.autostart
         /\ Remove => /\ journal \in Journal
                      /\ saved = With(IF journal.committed THEN journal.after ELSE journal.before)
                      /\ unit = saved.install /\ enabled = journal.autostart
<1>1. CASE Commit
  <2>1. cmd # Idle /\ cmd.pc = "commit" /\ cmd.op = "relocate" /\ Moving /\ journal \in Journal
    BY <1>1 DEF Commit, At, MoveInv, StepsOfTheirOwn, JournalIsTheMoves, Moving, Move, TypeOK
  <2>2. QED
    BY <1>1, <2>1 DEF MoveInv, SoFar, Goal, With, Remove, At
<1>2. CASE Remove
  <2>1. cmd # Idle /\ cmd.pc = "remove" /\ Moving /\ journal \in Journal
    BY <1>2 DEF Remove, At, MoveInv, StepsOfTheirOwn, JournalIsTheMoves, TypeOK
  <2>2. QED
    BY <1>2, <2>1 DEF MoveInv, SoFar, Commit, At
<1>3. QED
  BY <1>1, <1>2

(* JournalOutlivesMove: when the journal goes nothing is left to recover.     *)
THEOREM NothingLeftToRecover == Spec => JournalOutlivesMove
<1>1. TypeOK /\ MoveInv /\ [Next]_vars =>
        [journal # NoJournal /\ journal' = NoJournal =>
           /\ unit = saved.install
           /\ enabled = journal.autostart
           /\ saved.install = IF journal.committed THEN journal.after ELSE journal.before]_vars
  <2> SUFFICES ASSUME TypeOK, MoveInv, Next, journal # NoJournal, journal' = NoJournal
               PROVE  /\ unit = saved.install
                      /\ enabled = journal.autostart
                      /\ saved.install = IF journal.committed THEN journal.after ELSE journal.before
    OBVIOUS
  <2>1. Remove
    <3>1. ASSUME Commit, journal' = [journal EXCEPT !.committed = TRUE] PROVE FALSE
      <4>1. journal \in Journal
        BY <3>1, AtTheEnd
      <4>2. journal' \in Journal
        BY <3>1, <4>1 DEF Journal
      <4>3. QED
        BY <4>2, NullAssumption
    <3>2. \A cli \in Version, b \in Binary : ~Relocate(b, cli)
      BY DEF Relocate, MayBegin
    <3>3. QED
      BY <3>1, <3>2, JournalSteps
  <2>2. QED
    BY <2>1, AtTheEnd DEF With
<1>2. QED
  BY <1>1, MoveInvariant, PTL DEF Spec, JournalOutlivesMove

(* ForeignSettingsKept: only the moves' own settings are overwritten.         *)
THEOREM OnlyItsOwnSettings == Spec => ForeignSettingsKept
<1>1. TypeOK /\ MoveInv /\ [Next]_vars =>
        [journal # NoJournal /\ saved' # saved /\ cmd # Idle =>
           saved \in {With(journal.before), With(journal.after)}]_vars
  <2> SUFFICES ASSUME TypeOK, MoveInv, Next, journal # NoJournal, saved' # saved, cmd # Idle
               PROVE  saved \in {With(journal.before), With(journal.after)}
    OBVIOUS
  <2>1. Moving
    BY DEF MoveInv, JournalIsTheMoves
  <2>2. CASE Save
    BY <2>1, <2>2 DEF Save, At, MoveInv, SoFar
  <2>3. CASE Effects /\ ~Save
    BY <2>3
       DEF Effects, Pause, StopUnit, Install, Autostart, EnableUnit, DisableUnit, Erase,
           StartUnit, Restart, Await, Commit, Remove, Check, Attempt, SetEnabled, SetActive
  <2>4. CASE Commands
    BY <2>4 DEF Commands, Enable, T3, TurnOff, Control, Relocate, Recover
  <2>5. CASE World
    BY <2>5 DEF World, CommandKilled, Reboot, Interrupted, DaemonDies, SettingsEdited,
                PackageChanges
  <2>6. QED
    BY <2>2, <2>3, <2>4, <2>5 DEF Next
<1>2. QED
  BY <1>1, MoveInvariant, PTL DEF Spec, ForeignSettingsKept

(* PausedStaysPaused: nothing starts a stopped service unasked.               *)
THEOREM NothingStartsUnasked == Spec => PausedStaysPaused
<1>1. TypeOK /\ MoveInv /\ [Next]_vars =>
        [active = Stopped /\ active' # Stopped =>
           \/ cmd # Idle /\ cmd.op \in {"enable", "start"}
           \/ enabled /\ interrupts' # interrupts
           \/ journal # NoJournal /\ journal.running]_vars
  <2> SUFFICES ASSUME TypeOK, MoveInv, Next, active = Stopped, active' # Stopped
               PROVE  \/ cmd # Idle /\ cmd.op \in {"enable", "start"}
                      \/ enabled /\ interrupts' # interrupts
                      \/ journal # NoJournal /\ journal.running
    OBVIOUS
  <2>1. CASE StartUnit
    BY <2>1 DEF StartUnit, At, MoveInv, StepsOfTheirOwn, JournalIsTheMoves
  <2>2. CASE Restart
    BY <2>2 DEF Restart, At, Attempt, SetActive, MoveInv, StepsOfTheirOwn
  <2>3. CASE Effects /\ ~StartUnit /\ ~Restart
    BY <2>3
       DEF Effects, Pause, StopUnit, Save, Install, Autostart, EnableUnit, DisableUnit, Erase,
           Await, Commit, Remove, Check, Attempt, SetEnabled, SetActive
  <2>4. CASE Commands
    BY <2>4 DEF Commands, Enable, T3, TurnOff, Control, Relocate, Recover
  <2>5. CASE Reboot
    BY <2>5 DEF Reboot, Interrupted, TypeOK
  <2>6. CASE World /\ ~Reboot
    BY <2>6 DEF World, CommandKilled, Interrupted, DaemonDies, SettingsEdited, PackageChanges
  <2>7. QED
    BY <2>1, <2>2, <2>3, <2>4, <2>5, <2>6 DEF Next
<1>2. QED
  BY <1>1, MoveInvariant, PTL DEF Spec, PausedStaysPaused

(* RelocationIsAtomic: the commit is the one instant a move happens.          *)
THEOREM MovesAtOnce == Spec => RelocationIsAtomic
<1> DEFINE Profile == [install: Binary \cup {NoBinary}, t3: T3Mode, autostart: BOOLEAN]
           profile == IF Pending
                      THEN [install |-> journal.before, t3 |-> journal.t3,
                            autostart |-> journal.autostart]
                      ELSE [install |-> saved.install, t3 |-> saved.t3, autostart |-> enabled]
<1>1. TypeOK => profile \in Profile
  BY DEF TypeOK, Pending, Saved, Journal
<1>p. TypeOK' => profile' \in Profile
  BY DEF TypeOK, Pending, Saved, Journal
<1>2. Init => Atomic!MoveInit
  <2>1. Init => profile \in Profile
    BY <1>1, InitType
  <2>2. QED
    BY <2>1 DEF Init, Atomic!MoveInit, Pending
<1>3. TypeOK /\ MoveInv /\ TypeOK' /\ [Next]_vars =>
        [\/ Atomic!Configure \/ Atomic!Begin
         \/ Atomic!Commit \/ Atomic!RollBack]_<<profile, Pending>>
  <2> SUFFICES ASSUME TypeOK, MoveInv, TypeOK', [Next]_vars
               PROVE  \/ Atomic!Configure \/ Atomic!Begin \/ Atomic!Commit \/ Atomic!RollBack
                      \/ UNCHANGED <<profile, Pending>>
    OBVIOUS
  <2>1. CASE ~Pending /\ ~Pending'
    BY <1>p, <2>1 DEF Atomic!Configure
  <2>2. CASE Next /\ journal' = journal /\ Pending
    BY <2>2 DEF Pending
  <2>3. ASSUME NEW cli \in Version, NEW b \in Binary, Relocate(b, cli), saved.install # b
        PROVE  Atomic!Begin
    <3>1. ~Pending /\ UNCHANGED <<saved, enabled>>
      BY <2>3 DEF Relocate, MayBegin, Pending
    <3>2. /\ journal' # NoJournal /\ ~journal'.committed
          /\ journal'.before = saved.install /\ journal'.t3 = saved.t3
          /\ journal'.autostart = enabled
      BY <2>3, JournalCreated, NullAssumption
    <3>3. QED
      BY <3>1, <3>2 DEF Atomic!Begin, Pending
  <2>4. CASE /\ Commit /\ journal' = [journal EXCEPT !.committed = TRUE]
             /\ UNCHANGED <<saved, managerVars>>
    <3>1. /\ journal \in Journal /\ ~journal.committed /\ saved = With(journal.after)
          /\ enabled = journal.autostart
      BY <2>4, AtTheEnd
    <3>2. journal' \in Journal /\ journal'.committed
      BY <2>4, <3>1 DEF Journal
    <3>3. Pending /\ Pending' = FALSE
      BY <3>1, <3>2, NullAssumption DEF Pending
    <3>4. profile'.t3 = profile.t3 /\ profile'.autostart = profile.autostart
      BY <2>4, <3>1, <3>3 DEF With, managerVars
    <3>5. profile' \in Profile
      BY <1>p
    <3>6. QED
      BY <3>3, <3>4, <3>5 DEF Atomic!Commit, Atomic!Moved
  <2>5. CASE Remove /\ journal' = NoJournal /\ UNCHANGED <<saved, managerVars>> /\ Pending
    <3>1. saved = With(journal.before) /\ enabled = journal.autostart
      BY <2>5, AtTheEnd DEF Pending
    <3>2. QED
      BY <2>5, <3>1 DEF Atomic!RollBack, Pending, With
  <2>6. CASE UNCHANGED vars
    BY <2>6 DEF vars, Pending
  <2>7. QED
    BY <2>1, <2>2, <2>3, <2>4, <2>5, <2>6, JournalSteps, JournalCreated DEF Pending
<1>4. QED
  BY <1>2, <1>3, MoveInvariant, PTL DEF Spec, RelocationIsAtomic, Atomic!Move

-----------------------------------------------------------------------------
(* Between commands: what was asked of login startup, and what runs.          *)

(* What login startup is while a command runs, and what it will be said to be *)
(* when the command ends: only AutostartSurvives would not be inductive.      *)
StartupWished ==
  /\ journal = NoJournal => enabled \in (IF cmd = Idle THEN wish ELSE wish \cup Asked)
  /\ journal # NoJournal => journal.autostart \in wish
  /\ unit = NoUnit => ~enabled

StartupSteps ==
  cmd # Idle /\ ~Moving =>
    /\ cmd.op = "enable" => cmd.want.install # NoBinary
    /\ cmd.op = "enable" /\ cmd.pc \in {"restart", "wait"} => enabled
    /\ cmd.pc = "stop" => cmd.op = "stop"
    /\ cmd.pc = "wait" => cmd.op \in {"enable", "t3", "start"}
    /\ cmd.pc = "disable" => cmd.op \in {"disable", "unregister"}
    /\ cmd.pc = "autostart" => cmd.op = "autostart"
    /\ cmd.pc \in {"autostart", "enable"} => unit # NoUnit
    /\ cmd.pc = "erase" => cmd.op = "unregister" /\ ~enabled

StartupInv == StartupWished /\ StartupSteps

(* What runs agrees with what is saved and registered.                        *)
Agrees ==
  active # Stopped =>
    /\ active.t3 = saved.t3
    /\ unit = saved.install /\ active.unit = unit /\ active.install = unit

Configured(c) == c.op \in {"enable", "t3"}

ConfigSteps ==
  cmd # Idle /\ ~Moving =>
    /\ cmd.pc = "save" /\ cmd.op # "enable" => cmd.want.install = saved.install
    /\ cmd.op = "enable" => cmd.want.install # NoBinary
    /\ cmd.op = "t3" /\ ~cmd.flag => active = Stopped
    /\ Configured(cmd) =>
         /\ cmd.pc \in {"install", "enable", "restart", "wait"} => saved = cmd.want
         /\ cmd.pc \in {"enable", "restart", "wait"} => unit = saved.install
         /\ cmd.pc = "wait" => Agrees
         /\ cmd.pc \in {"save", "install", "enable", "restart", "wait"}

ConfigInv ==
  /\ saved.install = NoBinary => active = Stopped
  /\ cmd # Idle => last = Idle
  /\ last # Idle /\ Configured(last) => journal = NoJournal /\ Agrees
  /\ ConfigSteps

-----------------------------------------------------------------------------
(* What a step does to the wishes and to the command that goes on.            *)
LEMMA SucceedsWith ==
  ASSUME TypeOK, cmd # Idle, Succeeds
  PROVE  IF Following = "done"
         THEN /\ cmd' = Idle /\ wish' = (IF Asked = {} THEN wish ELSE Asked)
              /\ last' # Idle => last'.op = cmd.op
         ELSE /\ cmd' # Idle /\ cmd'.op = cmd.op /\ cmd'.pc = Following
              /\ cmd'.want = cmd.want /\ cmd'.flag = cmd.flag /\ wish' = wish /\ last' = last
<1>1. cmd \in Command
  BY DEF TypeOK
<1>2. CASE Following # "done"
  <2>1. Following \in Step
    BY <1>2, FollowingType
  <2>2. cmd' = [cmd EXCEPT !.pc = Following] /\ wish' = wish /\ last' = last
    BY <1>2 DEF Succeeds
  <2> HIDE DEF Following
  <2>3. cmd' \in Command /\ cmd'.op = cmd.op /\ cmd'.pc = Following /\ cmd'.want = cmd.want
        /\ cmd'.flag = cmd.flag
    BY <1>1, <2>1, <2>2 DEF Command
  <2>4. QED
    BY <1>2, <2>2, <2>3, NullAssumption
<1>3. CASE Following = "done"
  BY <1>3 DEF Succeeds, EndsWell
<1>4. QED
  BY <1>2, <1>3

LEMMA FailsWith ==
  ASSUME TypeOK, cmd # Idle, Fails
  PROVE  /\ last' = last
         /\ \/ cmd' = Idle /\ wish' = wish \cup Asked
            \/ /\ cmd.op = "relocate" /\ wish' = wish
               /\ cmd' # Idle /\ cmd'.op = "rollback" /\ cmd'.pc = "check"
<1>1. CASE cmd.op = "relocate"
  <2>1. /\ cmd \in Command /\ cmd' = [cmd EXCEPT !.op = "rollback", !.pc = "check"]
        /\ last' = last /\ wish' = wish
    BY <1>1 DEF Fails, TypeOK
  <2>2. cmd' \in Command /\ cmd'.op = "rollback" /\ cmd'.pc = "check"
    BY <2>1 DEF Command, Op, Move, Step
  <2>3. QED
    BY <1>1, <2>1, <2>2, NullAssumption
<1>2. CASE cmd.op # "relocate"
  BY <1>2 DEF Fails
<1>3. QED
  BY <1>1, <1>2

LEMMA AskedOfMoves ==
  /\ cmd # Idle /\ Moving => Asked = {}
  /\ cmd' # Idle /\ Moving' => Asked' = {}
BY DEF Asked, Moving, Move

(* A command that ends in failure, or hands over to the recovery.             *)
LEMMA FailureKeepsStartup ==
  ASSUME TypeOK, MoveInv, cmd # Idle, Fails,
         journal' = NoJournal => enabled' \in wish \cup Asked,
         journal' # NoJournal => journal'.autostart \in wish,
         unit' = NoUnit => ~enabled'
  PROVE  StartupInv'
<1>1. CASE cmd' = Idle /\ wish' = wish \cup Asked
  BY <1>1 DEF StartupInv, StartupWished, StartupSteps
<1>2. CASE /\ cmd.op = "relocate" /\ wish' = wish
           /\ cmd' # Idle /\ cmd'.op = "rollback" /\ cmd'.pc = "check"
  <2>1. Moving /\ Moving'
    BY <1>2 DEF Moving, Move
  <2>2. QED
    BY <1>2, <2>1, AskedOfMoves DEF StartupInv, StartupWished, StartupSteps
<1>3. QED
  BY <1>1, <1>2, FailsWith

LEMMA MoveKeepsStartup ==
  ASSUME TypeOK, MoveInv, cmd # Idle, Moving, Succeeds \/ Fails,
         journal' = NoJournal => enabled' \in wish,
         journal' # NoJournal => journal'.autostart \in wish,
         unit' = NoUnit => ~enabled'
  PROVE  StartupInv'
<1>1. CASE Fails
  BY <1>1, FailureKeepsStartup
<1>2. CASE Succeeds
  <2>1. CASE Following = "done"
    BY <1>2, <2>1, SucceedsWith, AskedOfMoves DEF StartupInv, StartupWished, StartupSteps
  <2>2. CASE Following # "done"
    <3>1. cmd' # Idle /\ cmd'.op = cmd.op /\ wish' = wish
      BY <1>2, <2>2, SucceedsWith
    <3>2. Moving'
      BY <3>1 DEF Moving
    <3>3. QED
      BY <3>1, <3>2, AskedOfMoves DEF StartupInv, StartupWished, StartupSteps
  <2>3. QED
    BY <2>1, <2>2
<1>3. QED
  BY <1>1, <1>2

LEMMA MovesKeepStartup ==
  ASSUME TypeOK, MoveInv, StartupInv, cmd # Idle, Moving, Effects
  PROVE  StartupInv'
<1>1. cmd.pc \in MoveStep /\ (cmd.pc # "check" => journal # NoJournal) /\ Asked = {}
  BY AskedOfMoves DEF MoveInv, StepsOfTheirOwn, JournalIsTheMoves
<1>2. journal # NoJournal => journal \in Journal /\ journal.autostart \in wish
  BY DEF TypeOK, StartupInv, StartupWished
<1>3. unit = NoUnit => ~enabled
  BY DEF StartupInv, StartupWished
<1>4. CASE Pause \/ StopUnit \/ Save \/ StartUnit
  BY <1>1, <1>2, <1>3, <1>4, MoveKeepsStartup
     DEF Pause, StopUnit, Save, StartUnit, At, Attempt, SetEnabled, SetActive
<1>5. CASE Install
  <2>1. Goal.install # NoUnit
    BY <1>1, <1>2, <1>5, LifecycleAssumption DEF Goal, Journal, Install, At
  <2>2. QED
    BY <1>1, <1>2, <1>3, <1>5, <2>1, MoveKeepsStartup DEF Install, At, Attempt
<1>6. CASE Autostart
  <2>1. unit # NoUnit
    BY <1>1, <1>2, <1>6, LifecycleAssumption DEF Goal, Journal, Autostart, At, MoveInv, SoFar
  <2>2. QED
    BY <1>1, <1>2, <1>6, <2>1, MoveKeepsStartup DEF Autostart, At, Attempt, SetEnabled
<1>7. CASE Await
  BY <1>1, <1>2, <1>3, <1>7, MoveKeepsStartup DEF Await, At
<1>8. CASE Commit
  <2>1. [journal EXCEPT !.committed = TRUE].autostart = journal.autostart
    BY <1>1, <1>2, <1>8 DEF Journal, Commit, At
  <2>2. [journal EXCEPT !.committed = TRUE] # NoJournal
    <3>1. [journal EXCEPT !.committed = TRUE] \in Journal
      BY <1>1, <1>2, <1>8 DEF Journal, Commit, At
    <3>2. QED
      BY <3>1, NullAssumption
  <2>3. CASE /\ journal' = [journal EXCEPT !.committed = TRUE] /\ UNCHANGED <<saved, managerVars>>
             /\ Succeeds \/ Fails
    <3>1. journal' # NoJournal /\ journal'.autostart \in wish
      BY <1>1, <1>2, <1>8, <2>1, <2>2, <2>3 DEF Commit, At
    <3>2. QED
      BY <1>3, <2>3, <3>1, MoveKeepsStartup
  <2>4. CASE UNCHANGED stateVars /\ Fails
    BY <1>1, <1>2, <1>3, <1>8, <2>4, MoveKeepsStartup DEF Commit, At
  <2>5. QED
    BY <1>8, <2>3, <2>4 DEF Commit, Attempt
<1>9. CASE Remove
  BY <1>1, <1>2, <1>3, <1>9, MoveKeepsStartup, AtTheEnd DEF Remove, At, Attempt
<1>10. CASE Check
  <2>1. CASE journal = NoJournal /\ EndsWell /\ wish' = wish /\ UNCHANGED stateVars
    BY <1>1, <2>1 DEF EndsWell, StartupInv, StartupWished, StartupSteps
  <2>2. CASE /\ journal # NoJournal /\ wish' = wish /\ UNCHANGED stateVars
             /\ cmd' = [cmd EXCEPT !.pc = IF journal.committed THEN "remove" ELSE "pause"]
    <3>1. cmd \in Command /\ cmd' \in Command /\ cmd'.op = cmd.op
      BY <2>2 DEF TypeOK, Command, Step
    <3>2. Moving'
      BY <3>1 DEF Moving
    <3>3. QED
      BY <1>2, <2>2, <3>2, AskedOfMoves DEF StartupInv, StartupWished, StartupSteps
  <2>3. CASE journal # NoJournal /\ Fails /\ UNCHANGED stateVars
    BY <1>2, <1>3, <2>3, MoveKeepsStartup
  <2>4. QED
    BY <1>10, <2>1, <2>2, <2>3 DEF Check
<1>11. CASE EnableUnit \/ DisableUnit \/ Erase \/ Restart
  BY <1>1, <1>11 DEF EnableUnit, DisableUnit, Erase, Restart, At, MoveStep
<1>12. QED
  BY <1>4, <1>5, <1>6, <1>7, <1>8, <1>9, <1>10, <1>11 DEF Effects

(* The commands that move nothing, effect by effect.                          *)
LEMMA OtherCommandsKeepStartup ==
  ASSUME TypeOK, MoveInv, StartupInv, cmd # Idle, ~Moving, Effects
  PROVE  StartupInv'
<1>1. /\ journal = NoJournal /\ cmd \in Command
      /\ cmd.pc \notin {"check", "pause", "commit", "remove"}
      /\ enabled \in wish \cup Asked /\ (unit = NoUnit => ~enabled)
  BY DEF MoveInv, StepsOfTheirOwn, JournalIsTheMoves, TypeOK, StartupInv, StartupWished
<1> DEFINE Kept == journal' = NoJournal /\ enabled' \in wish \cup Asked
                   /\ (unit' = NoUnit => ~enabled')
<1>2. ASSUME Fails, Kept PROVE StartupInv'
  BY <1>1, <1>2, FailureKeepsStartup
<1>3. ASSUME Succeeds, Kept, Following = "done", Asked # {} => enabled' \in Asked
      PROVE  StartupInv'
  BY <1>3, SucceedsWith DEF StartupInv, StartupWished, StartupSteps
<1>4. ASSUME Succeeds, Kept, Following # "done", StartupSteps' PROVE StartupInv'
  <2>1. cmd' # Idle /\ cmd'.op = cmd.op /\ cmd'.flag = cmd.flag /\ wish' = wish
    BY <1>4, SucceedsWith
  <2>2. Asked' = Asked
    BY <2>1 DEF Asked
  <2>3. QED
    BY <1>4, <2>1, <2>2 DEF StartupInv, StartupWished
<1> USE DEF StartupSteps, Moving
<1>5. CASE StopUnit
  <2>1. Following = "done" /\ Asked = {}
    BY <1>5 DEF StopUnit, At, Following, Asked, StartupInv
  <2>2. QED
    BY <1>1, <1>2, <1>3, <1>5, <2>1 DEF StopUnit, Attempt, SetActive
<1>6. CASE Save
  <2>1. /\ Following \in {"done", "disable", "install"}
        /\ Following = "done" => Asked = {}
        /\ Following = "disable" => cmd.op \in {"disable", "unregister"}
    BY <1>6 DEF Save, At, Following, Asked, StartupInv, MoveInv, StepsOfTheirOwn
  <2>2. Succeeds /\ Following # "done" => StartupSteps'
    BY <2>1, SucceedsWith DEF StartupInv
  <2>3. QED
    BY <1>1, <1>2, <1>3, <1>4, <1>6, <2>1, <2>2 DEF Save, Attempt
<1>7. CASE Install
  <2>1. /\ Following \in {"done", "enable", "restart"}
        /\ Following = "done" => Asked = {}
        /\ Following = "enable" => cmd.op = "enable"
        /\ Following = "restart" => cmd.op = "t3"
        /\ Goal.install \in Binary
    BY <1>7 DEF Install, At, Following, Asked, StartupInv, MoveInv, StepsOfTheirOwn, Goal
  <2>2. unit' = Goal.install /\ Succeeds /\ Following # "done" => StartupSteps'
    BY <2>1, SucceedsWith, LifecycleAssumption DEF StartupInv
  <2>3. Goal.install # NoUnit
    BY <2>1, LifecycleAssumption
  <2>4. QED
    BY <1>1, <1>2, <1>3, <1>4, <1>7, <2>1, <2>2, <2>3 DEF Install, Attempt
<1>8. CASE Autostart
  <2>1. Following = "done" /\ Asked = {cmd.flag} /\ unit # NoUnit
    BY <1>8 DEF Autostart, At, Following, Asked, StartupInv
  <2>2. QED
    BY <1>1, <1>2, <1>3, <1>8, <2>1 DEF Autostart, Attempt, SetEnabled
<1>9. CASE EnableUnit
  <2>1. Following = "restart" /\ Asked = {TRUE} /\ unit # NoUnit /\ cmd.op = "enable"
    BY <1>9 DEF EnableUnit, At, Following, Asked, StartupInv, MoveInv, StepsOfTheirOwn
  <2>2. enabled' = TRUE /\ Succeeds => StartupSteps'
    BY <2>1, SucceedsWith DEF StartupInv
  <2>3. QED
    BY <1>1, <1>2, <1>4, <1>9, <2>1, <2>2 DEF EnableUnit, Attempt, SetEnabled
<1>10. CASE DisableUnit
  <2>1. /\ Following = (IF cmd.op = "unregister" THEN "erase" ELSE "done") /\ Asked = {FALSE}
        /\ cmd.op \in {"disable", "unregister"} /\ cmd.pc = "disable"
    BY <1>10 DEF DisableUnit, At, Following, Asked, StartupInv
  <2>2. enabled' = FALSE /\ Succeeds /\ Following # "done" => StartupSteps'
    BY <2>1, SucceedsWith DEF StartupInv
  <2>3. ASSUME IF unit = NoUnit THEN UNCHANGED <<enabled, active>>
               ELSE enabled' = FALSE /\ active' = Stopped
        PROVE  enabled' = FALSE
    BY <1>1, <2>3 DEF TypeOK
  <2>4. QED
    BY <1>1, <1>2, <1>3, <1>4, <1>10, <2>1, <2>2, <2>3 DEF DisableUnit, Attempt
<1>11. CASE Erase
  <2>1. Following = "done" /\ Asked = {FALSE} /\ enabled = FALSE
    BY <1>11 DEF Erase, At, Following, Asked, StartupInv, TypeOK
  <2>2. QED
    BY <1>1, <1>2, <1>3, <1>11, <2>1 DEF Erase, Attempt
<1>12. CASE StartUnit \/ Restart
  <2>1. /\ cmd.pc \in {"start", "restart"} /\ Following = "wait"
        /\ cmd.op \in {"enable", "t3", "start"}
        /\ cmd.op = "enable" => enabled
    BY <1>12 DEF StartUnit, Restart, At, Following, StartupInv, MoveInv, StepsOfTheirOwn
  <2>2. enabled' = enabled /\ Succeeds => StartupSteps'
    BY <2>1, SucceedsWith DEF StartupInv
  <2>3. QED
    BY <1>1, <1>2, <1>4, <1>12, <2>1, <2>2 DEF StartUnit, Restart, Attempt, SetActive
<1>13. CASE Await
  <2>1. /\ Following = "done" /\ cmd.op \in {"enable", "t3", "start"}
        /\ cmd.op = "enable" => enabled
    BY <1>13 DEF Await, At, Following, StartupInv
  <2>2. Asked # {} => enabled \in Asked
    BY <2>1 DEF Asked, TypeOK
  <2>3. QED
    BY <1>1, <1>2, <1>3, <1>13, <2>1, <2>2 DEF Await
<1>14. CASE Pause \/ Commit \/ Remove \/ Check
  BY <1>1, <1>14 DEF Pause, Commit, Remove, Check, At
<1>15. QED
  BY <1>5, <1>6, <1>7, <1>8, <1>9, <1>10, <1>11, <1>12, <1>13, <1>14 DEF Effects

LEMMA CommandsKeepStartup ==
  ASSUME TypeOK, MoveInv, StartupInv, Commands
  PROVE  StartupInv'
<1> PICK cli \in Version :
      \/ \E b \in Binary, auto \in BOOLEAN, switch \in BOOLEAN : Enable(b, auto, switch, cli)
      \/ \E mode \in T3Mode : T3(mode, cli)
      \/ \E op \in Op : TurnOff(op, cli)
      \/ \E op \in Op, on \in BOOLEAN : Control(op, on, cli)
      \/ \E b \in Binary : Relocate(b, cli)
      \/ Recover(cli)
  BY DEF Commands
<1>1. cmd = Idle
  BY DEF Enable, T3, TurnOff, Control, Relocate, Recover, MayBegin
<1>2. /\ journal = NoJournal => enabled \in wish
      /\ journal # NoJournal => journal.autostart \in wish
      /\ unit = NoUnit => ~enabled
  BY <1>1 DEF StartupInv, StartupWished
<1>3. ASSUME NEW op \in Op, NEW pc \in {"save", "start", "stop", "autostart", "check"},
             NEW want \in Saved, NEW flag \in BOOLEAN, Begins(op, pc, want, flag, cli),
             op = "enable" => want.install # NoBinary,
             pc \in {"start", "stop", "autostart"} => op = pc,
             pc = "autostart" => unit # NoUnit,
             UNCHANGED <<unit, enabled, wish, journal>>
      PROVE  StartupInv'
  <2>1. cmd' # Idle /\ cmd'.op = op /\ cmd'.pc = pc /\ cmd'.want = want
    BY <1>3, BeginsTo DEF Step
  <2>2. QED
    BY <1>2, <1>3, <2>1 DEF StartupInv, StartupWished, StartupSteps
<1>4. ASSUME NEW b \in Binary, NEW auto \in BOOLEAN, NEW switch \in BOOLEAN,
             Enable(b, auto, switch, cli)
      PROVE  StartupInv'
  <2>1. [t3 |-> IF auto THEN "auto" ELSE saved.t3, install |-> b] \in Saved /\ b # NoBinary
    BY LifecycleAssumption DEF TypeOK, Saved, T3Mode
  <2>2. "enable" \in Op
    BY DEF Op
  <2>3. QED
    BY <1>3, <1>4, <2>1, <2>2 DEF Enable
<1>5. ASSUME NEW mode \in T3Mode, T3(mode, cli) PROVE StartupInv'
  <2>1. [saved EXCEPT !.t3 = mode] \in Saved
    BY DEF TypeOK, Saved
  <2>2. "t3" \in Op /\ (saved.install # NoBinary /\ active # Stopped) \in BOOLEAN
    BY DEF Op
  <2>3. QED
    BY <1>3, <1>5, <2>1, <2>2 DEF T3
<1>6. ASSUME NEW op \in Op, TurnOff(op, cli) PROVE StartupInv'
  BY <1>3, <1>6 DEF TurnOff, TypeOK
<1>7. ASSUME NEW op \in Op, NEW on \in BOOLEAN, Control(op, on, cli) PROVE StartupInv'
  BY <1>3, <1>7 DEF Control, TypeOK
<1>8. ASSUME NEW b \in Binary, Relocate(b, cli) PROVE StartupInv'
  <2>1. CASE saved.install = b
    BY <1>1, <1>2, <1>8, <2>1 DEF Relocate, StartupInv, StartupWished, StartupSteps
  <2>2. CASE saved.install # b
    <3>1. "relocate" \in Op /\ "pause" \in Step /\ saved \in Saved
      BY DEF Op, Move, Step, TypeOK
    <3>2. Begins("relocate", "pause", saved, FALSE, cli) /\ UNCHANGED <<unit, enabled, wish>>
      BY <1>8, <2>2 DEF Relocate
    <3>3. cmd' # Idle /\ Moving'
      BY <3>1, <3>2, BeginsTo DEF Moving, Move
    <3>4. journal' # NoJournal /\ journal'.autostart \in wish
      BY <1>2, <1>8, <2>2, JournalCreated, NullAssumption DEF Relocate, MayBegin
    <3>5. QED
      BY <1>2, <3>2, <3>3, <3>4 DEF StartupInv, StartupWished, StartupSteps
  <2>3. QED
    BY <2>1, <2>2
<1>9. ASSUME Recover(cli) PROVE StartupInv'
  <2>1. "recover" \in Op /\ saved \in Saved
    BY DEF Op, Move, TypeOK
  <2>2. QED
    BY <1>3, <1>9, <2>1 DEF Recover
<1>10. QED
  BY <1>4, <1>5, <1>6, <1>7, <1>8, <1>9

LEMMA WorldKeepsStartup ==
  ASSUME TypeOK, MoveInv, StartupInv, World
  PROVE  StartupInv'
<1> USE DEF StartupInv, StartupWished, StartupSteps
<1>1. CASE CommandKilled
  BY <1>1 DEF CommandKilled, Interrupted
<1>2. CASE Reboot
  BY <1>2 DEF Reboot, Interrupted
<1>3. CASE DaemonDies
  BY <1>3 DEF DaemonDies, Moving, Asked
<1>4. CASE SettingsEdited
  BY <1>4 DEF SettingsEdited
<1>5. ASSUME NEW b \in Binary, NEW v \in Build \cup {Gone}, PackageChanges(b, v)
      PROVE  StartupInv'
  BY <1>5 DEF PackageChanges, Moving, Asked
<1>6. QED
  BY <1>1, <1>2, <1>3, <1>4, <1>5 DEF World

(* AutostartSurvives: what the operator asked of login startup is what a     *)
(* relocation, a recovery or any other command leaves, wherever it is cut.    *)
THEOREM AutostartIsWished == Spec => []AutostartSurvives
<1>1. Init => StartupInv
  BY DEF Init, StartupInv, StartupWished, StartupSteps
<1>2. TypeOK /\ MoveInv /\ StartupInv /\ [Next]_vars => StartupInv'
  <2> SUFFICES ASSUME TypeOK, MoveInv, StartupInv, [Next]_vars PROVE StartupInv'
    OBVIOUS
  <2>1. CASE Effects
    <3>1. cmd # Idle
      BY <2>1 DEF Effects, Pause, StopUnit, Save, Install, Autostart, EnableUnit, DisableUnit,
                  Erase, StartUnit, Restart, Await, Commit, Remove, Check, At
    <3>2. QED
      BY <2>1, <3>1, MovesKeepStartup, OtherCommandsKeepStartup
  <2>2. CASE UNCHANGED vars
    BY <2>2 DEF vars, StartupInv, StartupWished, StartupSteps, Moving, Asked
  <2>3. QED
    BY <2>1, <2>2, CommandsKeepStartup, WorldKeepsStartup DEF Next
<1>3. TypeOK /\ StartupInv => AutostartSurvives
  BY DEF StartupInv, StartupWished, AutostartSurvives
<1>4. QED
  BY <1>1, <1>2, <1>3, MoveInvariant, PTL DEF Spec

-----------------------------------------------------------------------------
(* A process starts from what is saved and registered now.                    *)
LEMMA LaunchedAgrees ==
  unit = saved.install /\ Launched # Stopped =>
    Launched.t3 = saved.t3 /\ Launched.unit = unit /\ Launched.install = unit
BY DEF Launched

(* A command that fails, and every step of a move, leave no outcome to keep.  *)
LEMMA FailureKeepsConfig ==
  ASSUME TypeOK, MoveInv, ConfigInv, cmd # Idle, Fails,
         saved'.install = NoBinary => active' = Stopped
  PROVE  ConfigInv'
<1>1. last' = Idle
  BY FailsWith DEF ConfigInv
<1>2. CASE cmd' = Idle
  BY <1>1, <1>2 DEF ConfigInv, ConfigSteps
<1>3. CASE cmd' # Idle /\ cmd'.op = "rollback"
  BY <1>1, <1>3 DEF ConfigInv, ConfigSteps, Moving, Move
<1>4. QED
  BY <1>2, <1>3, FailsWith

LEMMA MovesKeepConfig ==
  ASSUME TypeOK, MoveInv, ConfigInv, cmd # Idle, Moving, Effects
  PROVE  ConfigInv'
<1>1. /\ cmd.pc \in MoveStep /\ (cmd.pc # "check" => journal # NoJournal)
      /\ cmd \in Command /\ last = Idle /\ (saved.install = NoBinary => active = Stopped)
  BY DEF MoveInv, StepsOfTheirOwn, JournalIsTheMoves, TypeOK, ConfigInv
<1>2. ASSUME Succeeds \/ Fails, saved'.install = NoBinary => active' = Stopped
      PROVE  ConfigInv'
  <2>1. CASE Fails
    BY <1>2, <2>1, FailureKeepsConfig
  <2>2. CASE Succeeds /\ Following = "done"
    BY <1>2, <2>2, SucceedsWith DEF ConfigInv, ConfigSteps, Moving, Move, Configured
  <2>3. CASE Succeeds /\ Following # "done"
    BY <1>1, <1>2, <2>3, SucceedsWith DEF ConfigInv, ConfigSteps, Moving
  <2>4. QED
    BY <1>2, <2>1, <2>2, <2>3
<1>3. CASE Pause \/ StopUnit \/ Install \/ Autostart \/ Await \/ Commit \/ Remove
  BY <1>1, <1>2, <1>3
     DEF Pause, StopUnit, Install, Autostart, Await, Commit, Remove, Attempt, SetEnabled,
         SetActive
<1>4. CASE Save
  <2>1. Goal.install # NoBinary
    BY <1>1, <1>4, LifecycleAssumption DEF Save, At, Goal, TypeOK, Journal
  <2>2. QED
    BY <1>1, <1>2, <1>4, <2>1 DEF Save, Attempt
<1>5. CASE StartUnit
  <2>1. saved.install = NoBinary => Launched = Stopped
    BY DEF Launched
  <2>2. QED
    BY <1>1, <1>2, <1>5, <2>1 DEF StartUnit, Attempt, SetActive
<1>6. CASE Check
  <2>1. CASE EndsWell /\ UNCHANGED stateVars
    BY <1>1, <2>1 DEF EndsWell, ConfigInv, ConfigSteps, Moving, Move, Configured
  <2>2. CASE /\ UNCHANGED stateVars /\ last' = last
             /\ cmd' = [cmd EXCEPT !.pc = IF journal.committed THEN "remove" ELSE "pause"]
    <3>1. cmd' \in Command /\ cmd'.op = cmd.op
      BY <1>1, <2>2 DEF Command, Step
    <3>2. QED
      BY <1>1, <2>2, <3>1 DEF ConfigInv, ConfigSteps, Moving
  <2>3. CASE Fails /\ UNCHANGED stateVars
    BY <1>1, <1>2, <2>3
  <2>4. QED
    BY <1>6, <2>1, <2>2, <2>3 DEF Check
<1>7. CASE EnableUnit \/ DisableUnit \/ Erase \/ Restart
  BY <1>1, <1>7 DEF EnableUnit, DisableUnit, Erase, Restart, At, MoveStep
<1>8. QED
  BY <1>3, <1>4, <1>5, <1>6, <1>7 DEF Effects

LEMMA OtherCommandsKeepConfig ==
  ASSUME TypeOK, MoveInv, ConfigInv, cmd # Idle, ~Moving, Effects
  PROVE  ConfigInv'
<1>1. /\ journal = NoJournal /\ cmd \in Command /\ last = Idle
      /\ cmd.pc \notin {"check", "pause", "commit", "remove"}
      /\ (saved.install = NoBinary => active = Stopped)
      /\ ConfigSteps
  BY DEF MoveInv, StepsOfTheirOwn, JournalIsTheMoves, TypeOK, ConfigInv
<1>2. ASSUME Fails, saved'.install = NoBinary => active' = Stopped PROVE ConfigInv'
  BY <1>2, FailureKeepsConfig
<1>3. ASSUME Succeeds, Following = "done", saved'.install = NoBinary => active' = Stopped,
             Configured(cmd) => journal' = NoJournal /\ Agrees'
      PROVE  ConfigInv'
  BY <1>3, SucceedsWith DEF ConfigInv, ConfigSteps, Configured
<1>4. ASSUME Succeeds, Following # "done", saved'.install = NoBinary => active' = Stopped,
             ConfigSteps'
      PROVE  ConfigInv'
  BY <1>1, <1>4, SucceedsWith DEF ConfigInv
<1> USE DEF ConfigSteps, Configured, Moving
<1>5. CASE StopUnit \/ Autostart \/ DisableUnit \/ Erase
  <2>1. ~Configured(cmd) /\ cmd.pc \in {"stop", "autostart", "disable", "erase"}
    BY <1>1, <1>5 DEF StopUnit, Autostart, DisableUnit, Erase, At
  <2>2. Following \in {"done", "erase"}
    BY <2>1 DEF Following
  <2>3. Succeeds /\ Following # "done" => ConfigSteps'
    BY <2>1, <2>2, SucceedsWith DEF Following
  <2>4. (Succeeds \/ Fails) /\ (saved'.install = NoBinary => active' = Stopped)
    BY <1>1, <1>5
       DEF StopUnit, Autostart, DisableUnit, Erase, Attempt, SetActive, SetEnabled
  <2>5. QED
    BY <1>2, <1>3, <1>4, <2>1, <2>3, <2>4
<1>6. CASE Save
  <2>1. /\ Goal = cmd.want /\ cmd.pc = "save"
        /\ cmd.want.install = NoBinary => active = Stopped
    BY <1>1, <1>6 DEF Save, At, Goal
  <2>2. /\ Following \in {"done", "disable", "install"}
        /\ Configured(cmd) /\ Following = "done" => active = Stopped
        /\ Following = "disable" <=> ~Configured(cmd)
    BY <1>1, <1>6, <2>1 DEF Following, MoveInv, StepsOfTheirOwn
  <2>3. ASSUME saved' = Goal /\ UNCHANGED <<managerVars, journal>>, Succeeds PROVE ConfigInv'
    <3>1. CASE Following = "done"
      BY <1>1, <1>3, <2>1, <2>2, <2>3, <3>1 DEF Agrees
    <3>2. CASE Following # "done"
      <4>1. ConfigSteps'
        BY <1>1, <2>1, <2>2, <2>3, <3>2, SucceedsWith
      <4>2. QED
        BY <1>4, <2>1, <2>3, <3>2, <4>1
    <3>3. QED
      BY <3>1, <3>2
  <2>4. QED
    BY <1>1, <1>2, <1>6, <2>1, <2>3 DEF Save, Attempt
<1>7. CASE Install
  <2>1. /\ cmd.pc = "install" /\ Goal = cmd.want /\ Configured(cmd) /\ saved = cmd.want
    BY <1>1, <1>7 DEF Install, At, Goal, MoveInv, StepsOfTheirOwn
  <2>2. /\ Following \in {"done", "enable", "restart"}
        /\ Following = "done" => active = Stopped
    BY <1>1, <2>1 DEF Following
  <2>3. ASSUME unit' = Goal.install /\ UNCHANGED <<saved, enabled, active, journal>>, Succeeds
        PROVE  ConfigInv'
    <3>1. CASE Following = "done"
      BY <1>1, <1>3, <2>2, <2>3, <3>1 DEF Agrees
    <3>2. CASE Following # "done"
      <4>1. ConfigSteps'
        BY <1>1, <2>1, <2>2, <2>3, <3>2, SucceedsWith
      <4>2. QED
        BY <1>1, <1>4, <2>3, <3>2, <4>1
    <3>3. QED
      BY <3>1, <3>2
  <2>4. QED
    BY <1>1, <1>2, <1>7, <2>3 DEF Install, Attempt
<1>8. CASE EnableUnit
  <2>1. cmd.pc = "enable" /\ cmd.op = "enable" /\ Following = "restart"
    BY <1>8 DEF EnableUnit, At, Following, MoveInv, StepsOfTheirOwn
  <2>2. SetEnabled(TRUE) /\ Succeeds => ConfigSteps'
    BY <1>1, <2>1, SucceedsWith DEF SetEnabled
  <2>3. QED
    BY <1>1, <1>2, <1>4, <1>8, <2>1, <2>2 DEF EnableUnit, Attempt, SetEnabled
<1>9. CASE StartUnit
  <2>1. cmd.pc = "start" /\ cmd.op = "start" /\ Following = "wait"
    BY <1>9 DEF StartUnit, At, Following, MoveInv, StepsOfTheirOwn
  <2>2. Succeeds => ConfigSteps'
    BY <2>1, SucceedsWith
  <2>3. saved.install = NoBinary => Launched = Stopped
    BY DEF Launched
  <2>4. QED
    BY <1>1, <1>2, <1>4, <1>9, <2>1, <2>2, <2>3 DEF StartUnit, Attempt, SetActive
<1>10. CASE Restart
  <2>1. /\ cmd.pc = "restart" /\ Configured(cmd) /\ Following = "wait"
        /\ saved = cmd.want /\ unit = saved.install
    BY <1>1, <1>10 DEF Restart, At, Following, MoveInv, StepsOfTheirOwn
  <2>2. saved.install = NoBinary => Launched = Stopped
    BY DEF Launched
  <2>3. ASSUME SetActive(IF cmd.op = "t3" /\ active = Stopped THEN Stopped ELSE Launched), Succeeds
        PROVE  ConfigSteps'
    <3>1. Agrees'
      BY <2>1, <2>3, LaunchedAgrees DEF SetActive, Agrees
    <3>2. cmd.op = "t3" /\ ~cmd.flag => active' = Stopped
      BY <1>1, <2>3 DEF SetActive
    <3>3. QED
      BY <1>1, <2>1, <2>3, <3>1, <3>2, SucceedsWith DEF SetActive
  <2>4. QED
    BY <1>1, <1>2, <1>4, <1>10, <2>1, <2>2, <2>3 DEF Restart, Attempt, SetActive
<1>11. CASE Await
  <2>1. cmd.pc = "wait" /\ Following = "done" /\ UNCHANGED stateVars /\ (Succeeds \/ Fails)
    BY <1>11 DEF Await, At, Following
  <2>2. Configured(cmd) => Agrees'
    BY <1>1, <2>1 DEF Agrees
  <2>3. QED
    BY <1>1, <1>2, <1>3, <2>1, <2>2
<1>12. CASE Pause \/ Commit \/ Remove \/ Check
  BY <1>1, <1>12 DEF Pause, Commit, Remove, Check, At
<1>13. QED
  BY <1>5, <1>6, <1>7, <1>8, <1>9, <1>10, <1>11, <1>12 DEF Effects

LEMMA CommandsKeepConfig ==
  ASSUME TypeOK, MoveInv, ConfigInv, Commands
  PROVE  ConfigInv'
<1> PICK cli \in Version :
      \/ \E b \in Binary, auto \in BOOLEAN, switch \in BOOLEAN : Enable(b, auto, switch, cli)
      \/ \E mode \in T3Mode : T3(mode, cli)
      \/ \E op \in Op : TurnOff(op, cli)
      \/ \E op \in Op, on \in BOOLEAN : Control(op, on, cli)
      \/ \E b \in Binary : Relocate(b, cli)
      \/ Recover(cli)
  BY DEF Commands
<1>1. cmd = Idle /\ (saved.install = NoBinary => active = Stopped)
  BY DEF Enable, T3, TurnOff, Control, Relocate, Recover, MayBegin, ConfigInv
<1>2. ASSUME NEW op \in Op, NEW pc \in {"save", "start", "stop", "autostart", "check", "pause"},
             NEW want \in Saved, NEW flag \in BOOLEAN, Begins(op, pc, want, flag, cli),
             op = "enable" => want.install # NoBinary,
             pc = "save" /\ op # "enable" => want.install = saved.install,
             op \in {"enable", "t3"} => pc = "save",
             op = "t3" /\ ~flag => active = Stopped,
             UNCHANGED <<saved, unit, active>>
      PROVE  ConfigInv'
  <2>1. /\ cmd' # Idle /\ cmd'.op = op /\ cmd'.pc = pc /\ cmd'.want = want /\ last' = Idle
        /\ cmd'.flag = flag
    BY <1>2, BeginsTo DEF Step, Begins
  <2>2. QED
    BY <1>1, <1>2, <2>1 DEF ConfigInv, ConfigSteps, Configured
<1>3. ASSUME NEW b \in Binary, NEW auto \in BOOLEAN, NEW switch \in BOOLEAN,
             Enable(b, auto, switch, cli)
      PROVE  ConfigInv'
  <2>1. [t3 |-> IF auto THEN "auto" ELSE saved.t3, install |-> b] \in Saved /\ b # NoBinary
    BY LifecycleAssumption DEF TypeOK, Saved, T3Mode
  <2>2. "enable" \in Op
    BY DEF Op
  <2>3. QED
    BY <1>2, <1>3, <2>1, <2>2 DEF Enable
<1>4. ASSUME NEW mode \in T3Mode, T3(mode, cli) PROVE ConfigInv'
  <2>1. /\ [saved EXCEPT !.t3 = mode] \in Saved
        /\ [saved EXCEPT !.t3 = mode].install = saved.install
    BY DEF TypeOK, Saved
  <2>2. "t3" \in Op /\ (saved.install # NoBinary /\ active # Stopped) \in BOOLEAN
    BY DEF Op
  <2>3. QED
    BY <1>1, <1>2, <1>4, <2>1, <2>2 DEF T3
<1>5. ASSUME NEW op \in Op, TurnOff(op, cli) PROVE ConfigInv'
  BY <1>2, <1>5 DEF TurnOff, TypeOK
<1>6. ASSUME NEW op \in Op, NEW on \in BOOLEAN, Control(op, on, cli) PROVE ConfigInv'
  BY <1>2, <1>6 DEF Control, TypeOK
<1>7. ASSUME NEW b \in Binary, Relocate(b, cli) PROVE ConfigInv'
  <2>1. CASE saved.install = b
    BY <1>1, <1>7, <2>1 DEF Relocate, ConfigInv, ConfigSteps, Configured
  <2>2. CASE saved.install # b
    <3>1. "relocate" \in Op /\ saved \in Saved
      BY DEF Op, Move, TypeOK
    <3>2. QED
      BY <1>2, <1>7, <2>2, <3>1 DEF Relocate
  <2>3. QED
    BY <2>1, <2>2
<1>8. ASSUME Recover(cli) PROVE ConfigInv'
  <2>1. "recover" \in Op /\ saved \in Saved
    BY DEF Op, Move, TypeOK
  <2>2. QED
    BY <1>2, <1>8, <2>1 DEF Recover
<1>9. QED
  BY <1>3, <1>4, <1>5, <1>6, <1>7, <1>8

LEMMA WorldKeepsConfig ==
  ASSUME TypeOK, MoveInv, ConfigInv, World
  PROVE  ConfigInv'
<1> USE DEF ConfigInv, ConfigSteps, Configured, Agrees
<1>1. saved.install = NoBinary => Launched = Stopped
  BY DEF Launched
<1>2. CASE CommandKilled
  BY <1>2 DEF CommandKilled, Interrupted
<1>3. CASE Reboot
  BY <1>1, <1>3 DEF Reboot, Interrupted
<1>4. CASE DaemonDies
  BY <1>1, <1>4, LaunchedAgrees DEF DaemonDies, Moving
<1>5. CASE SettingsEdited
  <2>1. saved'.install = saved.install
    BY <1>5 DEF SettingsEdited, TypeOK, Saved
  <2>2. QED
    BY <1>5, <2>1 DEF SettingsEdited
<1>6. ASSUME NEW b \in Binary, NEW v \in Build \cup {Gone}, PackageChanges(b, v)
      PROVE  ConfigInv'
  BY <1>6 DEF PackageChanges, Moving
<1>7. QED
  BY <1>2, <1>3, <1>4, <1>5, <1>6 DEF World

(* ConfiguredIsRunning: after a successful enable or t3 the daemon that runs, *)
(* or that a crash brings back, has the settings that are saved.              *)
THEOREM ConfiguredRuns == Spec => []ConfiguredIsRunning
<1>1. Init => ConfigInv
  BY DEF Init, ConfigInv, ConfigSteps
<1>2. TypeOK /\ MoveInv /\ ConfigInv /\ [Next]_vars => ConfigInv'
  <2> SUFFICES ASSUME TypeOK, MoveInv, ConfigInv, [Next]_vars PROVE ConfigInv'
    OBVIOUS
  <2>1. CASE Effects
    <3>1. cmd # Idle
      BY <2>1 DEF Effects, Pause, StopUnit, Save, Install, Autostart, EnableUnit, DisableUnit,
                  Erase, StartUnit, Restart, Await, Commit, Remove, Check, At
    <3>2. QED
      BY <2>1, <3>1, MovesKeepConfig, OtherCommandsKeepConfig
  <2>2. CASE UNCHANGED vars
    BY <2>2 DEF vars, ConfigInv, ConfigSteps, Configured, Agrees, Moving
  <2>3. QED
    BY <2>1, <2>2, CommandsKeepConfig, WorldKeepsConfig DEF Next
<1>3. ConfigInv => ConfiguredIsRunning
  BY DEF ConfigInv, Configured, Agrees, ConfiguredIsRunning
<1>4. QED
  BY <1>1, <1>2, <1>3, MoveInvariant, PTL DEF Spec
=============================================================================
