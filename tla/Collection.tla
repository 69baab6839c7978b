------------------------------ MODULE Collection ------------------------------
(***************************************************************************)
(* Quota collection in usagestatd: the poller thread (ai-usage-daemon       *)
(* main.rs start_poller), the dashboard settings transactions               *)
(* (settings.rs route), the refresh request and the shutdown, which share   *)
(* the configuration file, the refresh flag and the application state.      *)
(* Other programs edit the file too; the daemon may die anywhere.           *)
(***************************************************************************)
EXTENDS Integers, Sequences

CONSTANTS
  Provider,      \* provider instances
  Account,       \* credentials or sources an instance can be configured with
  Targets,       \* the order in which a cycle visits the instances
  Client,        \* open dashboards
  MaxEdits,      \* bound of the model: edits by other programs
  MaxPatches,    \* bound of the model: forms saved
  MaxCrashes,    \* bound of the model: deaths of the daemon
  Off, Broken, NoSnapshot, NoForm, Idle

ASSUME CollectionAssumption ==
  /\ Targets \in Seq(Provider)
  /\ \A p \in Provider : \E i \in 1..Len(Targets) : Targets[i] = p
  /\ MaxEdits \in Nat /\ MaxPatches \in Nat /\ MaxCrashes \in Nat
  /\ Off \notin Account

Text     == [Provider -> Account \cup {Off}]
Snapshot == [account: Account, cancelled: BOOLEAN]
Step     == {"recheck", "write", "publish", "flag"}
Patching == [pc: Step, raw: Text, text: Text]

ASSUME AbsenceAssumption ==
  /\ Broken \notin Text /\ NoForm \notin Text
  /\ NoSnapshot \notin Snapshot /\ Idle \notin Patching

VARIABLES
  file,          \* what the configuration file says, or Broken
  saved,         \* the snapshots in cache.json
  history,       \* the last record of history.jsonl
  up,            \* the daemon runs
  flag,          \* refresh_flag
  shutdown,      \* the shutdown flag
  providers,     \* AppState.providers
  cache,         \* AppState.cache
  pc, config, next, result,    \* the poller thread
  touched,       \* the file's modification time is not the one this cycle began with
  form,          \* Client -> the configuration its open form was filled from
  handler,       \* Client -> its PATCH in progress, or Idle
  edits, patches, crashes,
  \* history
  agreed,        \* what the last saved form left, until somebody edits it
  late,          \* snapshots recorded since then for another configuration
  asked          \* instances not visited since a refresh was last requested

diskVars   == <<file, saved, history>>
stateVars  == <<providers, cache>>
pollerVars == <<pc, config, next, result>>
clientVars == <<form, handler>>
ghostVars  == <<agreed, late, asked>>
boundVars  == <<edits, patches, crashes>>
others     == <<up, shutdown, clientVars, boundVars>>   \* what the poller never changes
vars == <<file, saved, history, up, flag, shutdown, providers, cache, pc, config, next, result, touched,
          form, handler, edits, patches, crashes, agreed, late, asked>>

PollerStep == {"begin", "stat", "load", "publish", "visit", "probe", "judge", "store", "rest",
               "sleep", "ended"}

Shown == [Provider -> Snapshot \cup {NoSnapshot}]

TypeOK ==
  /\ file \in Text \cup {Broken}
  /\ saved \in Shown /\ cache \in Shown /\ history \in Snapshot \cup {NoSnapshot}
  /\ up \in BOOLEAN /\ flag \in BOOLEAN /\ shutdown \in BOOLEAN
  /\ providers \in Text
  /\ pc \in PollerStep /\ config \in Text /\ touched \in BOOLEAN
  /\ next \in 1..Len(Targets) + 1
  /\ result \in Snapshot \cup {NoSnapshot}
  /\ form \in [Client -> Text \cup {NoForm}]
  /\ handler \in [Client -> Patching \cup {Idle}]
  /\ edits \in Nat /\ patches \in Nat /\ crashes \in Nat
  /\ agreed \in Text \cup {NoForm} /\ late \in Nat /\ asked \subseteq Provider

Unread == [p \in Provider |-> NoSnapshot]
AllOff == [p \in Provider |-> Off]

Init ==
  /\ file \in Text
  /\ saved = Unread /\ cache = Unread /\ history = NoSnapshot
  /\ up = FALSE /\ flag = FALSE /\ shutdown = FALSE
  /\ providers = AllOff
  /\ pc = "ended" /\ config = AllOff /\ touched = FALSE /\ next = 1 /\ result = NoSnapshot
  /\ form = [c \in Client |-> NoForm] /\ handler = [c \in Client |-> Idle]
  /\ edits = 0 /\ patches = 0 /\ crashes = 0
  /\ agreed = NoForm /\ late = 0 /\ asked = {}

-----------------------------------------------------------------------------
(* The daemon starts and ends *)

(* main: an unreadable configuration keeps the daemon from starting.        *)
Start ==
  /\ ~up /\ file # Broken
  /\ up' = TRUE /\ flag' = FALSE /\ shutdown' = FALSE
  /\ providers' = file /\ cache' = saved
  /\ pc' = "begin" /\ config' = file /\ next' = 1 /\ result' = NoSnapshot /\ touched' = FALSE
  /\ late' = 0 /\ asked' = {}
  /\ UNCHANGED <<diskVars, clientVars, boundVars, agreed>>

(* The process is gone, and with it what its threads were doing.            *)
Ended ==
  /\ up' = FALSE /\ flag' = FALSE /\ shutdown' = FALSE
  /\ providers' = AllOff /\ cache' = Unread
  /\ pc' = "ended" /\ config' = AllOff /\ next' = 1 /\ result' = NoSnapshot /\ touched' = FALSE
  /\ handler' = [c \in Client |-> Idle]
  /\ asked' = {}
  /\ UNCHANGED <<diskVars, form, edits, patches, agreed, late>>

(* POST /v1/daemon/shutdown, once its response is written, or a signal.     *)
RequestShutdown ==
  /\ up /\ ~shutdown /\ crashes < MaxCrashes
  /\ shutdown' = TRUE /\ crashes' = crashes + 1
  /\ UNCHANGED <<diskVars, up, flag, stateVars, pollerVars, touched, clientVars, edits, patches,
                 ghostVars>>

(* Three seconds for the poller to end; then the process exits anyway.      *)
Exit == up /\ shutdown /\ Ended /\ UNCHANGED crashes

Crash == up /\ crashes < MaxCrashes /\ crashes' = crashes + 1 /\ Ended

-----------------------------------------------------------------------------
(* The poller thread *)

Poll(step) == up /\ pc = step

Begin ==
  /\ Poll("begin")
  /\ IF shutdown THEN pc' = "ended" /\ UNCHANGED flag
     ELSE pc' = "stat" /\ flag' = FALSE
  /\ UNCHANGED <<others, diskVars, stateVars, config, next, result, ghostVars, touched>>

Stat ==
  /\ Poll("stat")
  /\ touched' = FALSE /\ pc' = "load"
  /\ UNCHANGED <<others, diskVars, flag, stateVars, config, next, result, ghostVars>>

(* mutant: the configuration is read once, at the start *)
LoadNothing ==
  /\ Poll("load")
  /\ pc' = "publish"
  /\ UNCHANGED <<others, diskVars, flag, stateVars, config, next, result, ghostVars, touched>>

(* "retaining the last valid configuration" *)
Load ==
  /\ Poll("load")
  /\ config' = IF file = Broken THEN config ELSE file
  /\ pc' = "publish"
  /\ UNCHANGED <<others, diskVars, flag, stateVars, next, result, ghostVars, touched>>

(* mutant: the refresh flag is cleared only here *)
PublishClearing ==
  /\ Poll("publish")
  /\ providers' = config /\ flag' = FALSE
  /\ pc' = "visit" /\ next' = 1
  /\ UNCHANGED <<others, diskVars, cache, config, result, ghostVars, touched>>

Publish ==
  /\ Poll("publish")
  /\ providers' = config
  /\ pc' = "visit" /\ next' = 1
  /\ UNCHANGED <<others, diskVars, flag, cache, config, result, ghostVars, touched>>

(* mutant: a cycle goes on whatever was requested *)
VisitAll ==
  /\ Poll("visit")
  /\ IF next > Len(Targets) \/ shutdown
     THEN pc' = "rest" /\ UNCHANGED <<next, asked>>
     ELSE /\ asked' = asked \ {Targets[next]}
          /\ IF config[Targets[next]] = Off
             THEN next' = next + 1 /\ UNCHANGED pc
             ELSE pc' = "probe" /\ UNCHANGED next
  /\ UNCHANGED <<others, diskVars, flag, stateVars, config, result, agreed, late, touched>>

(* One turn of the loop: leave it, pass a disabled instance or probe.       *)
Visit ==
  /\ Poll("visit")
  /\ IF next > Len(Targets) \/ shutdown \/ flag
     THEN pc' = "rest" /\ UNCHANGED <<next, asked>>
     ELSE /\ asked' = asked \ {Targets[next]}
          /\ IF config[Targets[next]] = Off
             THEN next' = next + 1 /\ UNCHANGED pc
             ELSE pc' = "probe" /\ UNCHANGED next
  /\ UNCHANGED <<others, diskVars, flag, stateVars, config, result, agreed, late, touched>>

(* probe_provider: the shutdown flag interrupts it through its token.       *)
Probe ==
  /\ Poll("probe")
  /\ \E cancelled \in {FALSE, shutdown} :
       result' = [account |-> config[Targets[next]], cancelled |-> cancelled]
  /\ pc' = "judge"
  /\ UNCHANGED <<others, diskVars, flag, stateVars, config, next, ghostVars, touched>>

(* mutant: the result of an interrupted probe is recorded too *)
JudgeNothing ==
  /\ Poll("judge")
  /\ pc' = "store"
  /\ UNCHANGED <<others, diskVars, flag, stateVars, config, next, result, ghostVars, touched>>

Judge ==
  /\ Poll("judge")
  /\ pc' = IF shutdown THEN "rest" ELSE "store"
  /\ UNCHANGED <<others, diskVars, flag, stateVars, config, next, result, ghostVars, touched>>

(* Under the state's mutex; writing cache.json or history.jsonl may fail.   *)
Store ==
  LET p == Targets[next]
  IN  /\ Poll("store")
      /\ cache' = [cache EXCEPT ![p] = result]
      /\ saved' \in {saved, cache'}
      /\ history' \in {history, result}
      /\ late' = IF agreed # NoForm /\ result.account # agreed[p] THEN late + 1 ELSE late
      /\ pc' = "visit" /\ next' = next + 1 /\ result' = NoSnapshot
      /\ UNCHANGED <<others, file, flag, providers, config, agreed, asked, touched>>

(* mutant: a refresh requested during the cycle counts as done *)
RestClearing ==
  /\ Poll("rest")
  /\ pc' = "sleep" /\ flag' = FALSE /\ result' = NoSnapshot
  /\ UNCHANGED <<others, diskVars, stateVars, config, next, ghostVars, touched>>

Rest ==
  /\ Poll("rest")
  /\ pc' = IF flag THEN "begin" ELSE "sleep"
  /\ result' = NoSnapshot
  /\ UNCHANGED <<others, diskVars, flag, stateVars, config, next, ghostVars, touched>>

(* The sleep ends by shutdown, early, or when the polling interval is over. *)
WakeTo(step) ==
  /\ Poll("sleep")
  /\ pc' = step
  /\ UNCHANGED <<others, diskVars, flag, stateVars, config, next, result, ghostVars, touched>>

WakeToEnd == shutdown /\ WakeTo("ended")
WakeEarly == (flag \/ touched) /\ WakeTo("begin")
WakeDue   == WakeTo("begin")

-----------------------------------------------------------------------------
(* The dashboard and other writers *)

(* mutant: settings requests do not exclude each other *)
FreeAlways == TRUE

(* SettingsApi.transaction *)
Free == \A c \in Client : handler[c] = Idle

(* SettingsApi.read: a missing file is the empty configuration, one that is *)
(* too large or does not parse is an error.                                 *)
Readable == file # Broken

(* apply_patch: the fields the form names replace those of one instance, the *)
(* rest of the document stays.                                              *)
Patched(text, p, setting) == [text EXCEPT ![p] = setting]

(* GET /v1/settings *)
OpenForm(c) ==
  /\ up /\ Free /\ handler[c] = Idle /\ Readable
  /\ form' = [form EXCEPT ![c] = file]
  /\ UNCHANGED <<diskVars, up, flag, shutdown, stateVars, pollerVars, touched, handler, boundVars, ghostVars>>

(* PATCH /v1/settings with the revision of the form: the transaction up to  *)
(* apply_patch.  The requests it turns away change nothing.                 *)
SaveForm(c, p, setting) ==
  /\ up /\ Free /\ handler[c] = Idle /\ patches < MaxPatches
  /\ Readable /\ form[c] = file
  /\ handler' = [handler EXCEPT ![c] = [pc |-> "recheck", raw |-> file,
                                        text |-> Patched(file, p, setting)]]
  /\ patches' = patches + 1
  /\ UNCHANGED <<diskVars, up, flag, shutdown, stateVars, pollerVars, touched, form, edits, crashes, ghostVars>>

Handling(c, step) == handler[c] # Idle /\ handler[c].pc = step

GoesOn(c, step) == handler' = [handler EXCEPT ![c].pc = step]
Refused(c)      == handler' = [handler EXCEPT ![c] = Idle]

(* "An external preferences writer may have changed the file" *)
Recheck(c) ==
  /\ Handling(c, "recheck")
  /\ IF file = handler[c].raw THEN GoesOn(c, "write") ELSE Refused(c)
  /\ UNCHANGED <<diskVars, up, flag, shutdown, stateVars, pollerVars, touched, form, boundVars, ghostVars>>

(* Two writes may fall within one tick of the file system's clock.          *)
Replaced(text) == file' = text /\ touched' \in {touched, TRUE}

Write(c) ==
  /\ Handling(c, "write")
  /\ \/ Replaced(handler[c].text) /\ GoesOn(c, "publish") /\ agreed' = NoForm
     \/ Refused(c) /\ UNCHANGED <<file, touched, agreed>>
  /\ UNCHANGED <<saved, history, up, flag, shutdown, stateVars, pollerVars, form, boundVars, late, asked>>

PublishPatch(c) ==
  /\ Handling(c, "publish")
  /\ providers' = handler[c].text
  /\ GoesOn(c, "flag")
  /\ UNCHANGED <<diskVars, up, flag, shutdown, cache, pollerVars, touched, form, boundVars, ghostVars>>

(* The flag, then the response with the new revision. *)
Answer(c) ==
  /\ Handling(c, "flag")
  /\ flag' = TRUE /\ asked' = Provider
  /\ Refused(c)
  /\ form' = [form EXCEPT ![c] = handler[c].text]
  /\ agreed' = IF file = handler[c].text THEN file ELSE NoForm
  /\ late' = 0
  /\ UNCHANGED <<diskVars, up, shutdown, stateVars, pollerVars, touched, boundVars>>

(* POST /v1/refresh *)
Refresh ==
  /\ up
  /\ flag' = TRUE /\ asked' = Provider
  /\ UNCHANGED <<diskVars, up, shutdown, stateVars, pollerVars, touched, clientVars, boundVars, agreed, late>>

(* A preferences program replaces the file, or leaves it unreadable.        *)
EditOutside(text) ==
  /\ edits < MaxEdits /\ edits' = edits + 1
  /\ Replaced(text)
  /\ agreed' = NoForm
  /\ UNCHANGED <<saved, history, up, flag, shutdown, stateVars, pollerVars, clientVars, patches, crashes, late, asked>>

Poller ==
  \/ Begin \/ Stat \/ Load \/ Publish \/ Visit \/ Probe \/ Judge \/ Store \/ Rest
  \/ WakeToEnd \/ WakeEarly \/ WakeDue

Handler(c) == Recheck(c) \/ Write(c) \/ PublishPatch(c) \/ Answer(c)

Next ==
  \/ Start \/ RequestShutdown \/ Exit \/ Crash
  \/ Poller
  \/ Refresh
  \/ \E c \in Client :
       \/ OpenForm(c) \/ Handler(c)
       \/ \E p \in Provider, setting \in Account \cup {Off} : SaveForm(c, p, setting)
  \/ \E text \in Text \cup {Broken} : EditOutside(text)

Spec == Init /\ [][Next]_vars

(* Threads are scheduled and every probe has a timeout. *)
Fairness ==
  /\ WF_vars(Poller) /\ \A c \in Client : WF_vars(Handler(c))
  /\ WF_vars(Start) /\ WF_vars(Exit)
FairSpec == Spec /\ Fairness

-----------------------------------------------------------------------------
(* Properties *)

(* "Writes serialize within this daemon": a saved form replaces exactly the *)
(* configuration it was made from, however two dashboards save at once,     *)
(* while the daemon is the only writer of the file.                         *)
WritesSerialize ==
  [][\A c \in Client :
       edits = 0 /\ Handling(c, "write") /\ handler'[c] # Idle /\ handler'[c].pc = "publish" =>
         file = handler[c].raw]_vars

(* What a saved form published stays published, or the poller is about to   *)
(* read the file again: it never falls back for a whole cycle to the        *)
(* configuration it had loaded before.                                      *)
Due == flag \/ pc \in {"begin", "stat", "load"} \/ (pc = "publish" /\ config = agreed)
SavedIsPublishedOrDue ==
  up /\ ~shutdown /\ agreed # NoForm => providers = agreed \/ Due

(* "an in-flight probe may finish first": after a form is saved at most one *)
(* more snapshot is recorded for the configuration it replaced.             *)
OneProbeMayFinish == late <= 1

(* A refresh is never forgotten: the poller goes to sleep only when it has  *)
(* visited every instance since the last request, or when one is pending.   *)
RefreshIsServed == up /\ ~shutdown /\ pc = "sleep" => flag \/ asked = {}

(* What a probe interrupted by the shutdown reports is recorded nowhere.    *)
InterruptedIsDropped ==
  \A s \in {cache[p] : p \in Provider} \cup {saved[p] : p \in Provider} \cup {history} :
    s # NoSnapshot => ~s.cancelled

(* "Polling reloads the saved configuration without a restart ...  Changes  *)
(* from other local configuration writers are detected too": when the file  *)
(* rests, readable, and nobody asks for refreshes for ever, every enabled   *)
(* instance shows a snapshot made with the account the file names.          *)
Rests == /\ <>[][~Refresh]_vars
         /\ <>[](up /\ ~shutdown /\ file # Broken)
Converges ==
  Rests => <>[](/\ providers = file
                /\ \A p \in Provider : file[p] # Off =>
                     cache[p] # NoSnapshot /\ cache[p].account = file[p])

(* settings.rs: "An external preferences writer may have changed the file   *)
(* since this form was opened.  Never publish its old credential values."   *)
(* It does not hold: the text was made before the file changed again.       *)
OutsideEditsKept ==
  [][file' # file /\ edits' = edits =>
       \E c \in Client : handler[c] # Idle /\ file = handler[c].raw]_vars
=============================================================================
