--------------------------- MODULE SettingsEditor ---------------------------
(***************************************************************************)
(* The collection settings of the dashboard: its page (dashboard.html), the *)
(* client that holds the launch's token and the last view it was given      *)
(* (dashboard-backend.js), and the daemon's answers (settings.rs route).    *)
(* Requests and answers take their time: the user types, switches scopes    *)
(* and tabs and reloads meanwhile, another window saves its own edits, and  *)
(* the daemon may be restarted with another token.                          *)
(*                                                                         *)
(* A form has a field that this window's user types in (a number for each   *)
(* text) and one that only the other window changes; a patch sends both.    *)
(* The revision of a configuration is the configuration.                    *)
(***************************************************************************)
EXTENDS Integers

CONSTANTS
  Form,          \* the forms of the page, one per configured source
  MaxTexts,      \* bound of the model: texts typed
  MaxOutside,    \* bound of the model: saves of the other window and restarts of the daemon
  None, NoSave, NoLoad, Refreshing, Waiting


Fields == [mine: 0..MaxTexts, theirs: 0..MaxOutside]
View   == [Form -> Fields]
Token  == 0..1 + MaxOutside           \* of a launch; 0 is of one before
Drafts == UNION {[fs -> Fields] : fs \in SUBSET Form}
NoDrafts == [f \in {} |-> None]

VARIABLES
  config, launch,          \* the daemon: its file, its launch
  session, data,           \* the client: the token remembered, the last view
  section, active,         \* the scope of the settings, whether their tab is shown
  page, edited,            \* the forms in the document and the ones marked as edited
  dirty, drafts,           \* S.collectionDirty, S.collectionDrafts
  error, keyFile,          \* S.collectionError, S.collectionKeyFile: told or not
  save, load,              \* the requests under way
  texts, foreign,          \* bounds
  typed                    \* history: what was last typed in a form and neither saved nor discarded

daemonVars == <<config, launch, foreign>>
clientVars == <<session, data>>
pageVars   == <<page, edited, dirty>>
vars == <<config, launch, session, data, section, active, page, edited, dirty, drafts,
          error, keyFile, save, load, texts, foreign, typed>>

Lost   == 0                           \* the connection was, and the answer with it
Answer == [status: {200, 401, 409, Lost}, view: View \cup {None}, token: Token \cup {None}]
Save   == [form: Form, fields: Fields, base: View, session: Token \cup {None}, since: Token,
           kept: Drafts, answer: Answer \cup {Waiting}]
Load   == [step: {"session", "read"}, session: Token \cup {None}, key: BOOLEAN, since: Token,
           answer: Answer \cup {Waiting}]

(* What stands for none of them is none of them.                             *)
ASSUME EditorAssumption ==
  /\ MaxTexts \in Nat /\ MaxOutside \in Nat
  /\ None \notin View /\ NoLoad \notin Load /\ {NoSave, Refreshing} \cap Save = {}

TypeOK ==
  /\ config \in View /\ launch \in 1..1 + MaxOutside
  /\ session \in Token \cup {None} /\ data \in View \cup {None}
  /\ section \in {"collection", "display"} /\ active \in BOOLEAN
  /\ page \in View \cup {None} /\ edited \subseteq Form
  /\ dirty \in BOOLEAN /\ drafts \in Drafts
  /\ error \in BOOLEAN /\ keyFile \in BOOLEAN
  /\ save \in Save \cup {NoSave, Refreshing} /\ load \in Load \cup {NoLoad}
  /\ texts \in 0..MaxTexts /\ foreign \in 0..MaxOutside /\ typed \in [Form -> 0..MaxTexts]

MoreOutside == foreign + launch <= MaxOutside

Asking(step, token, key) ==
  [step |-> step, session |-> token, key |-> key, since |-> launch, answer |-> Waiting]

(* A tab opened on the collection settings; sessionStorage may hold a token. *)
Init ==
  /\ config = [f \in Form |-> [mine |-> 0, theirs |-> 0]] /\ launch = 1
  /\ session \in {None, 0, 1} /\ data = None
  /\ section = "collection" /\ active = TRUE
  /\ page = None /\ edited = {} /\ dirty = FALSE /\ drafts = NoDrafts
  /\ error = FALSE /\ keyFile = FALSE
  /\ save = NoSave /\ load = Asking("session", session, FALSE)
  /\ texts = 0 /\ foreign = 0 /\ typed = [f \in Form |-> 0]

-----------------------------------------------------------------------------
(* The document *)

Captured(but) == [f \in edited \ but |-> page[f]]

(* Forms of the view, drafts over them. (mutant: restored, but not marked)   *)
RenderUnmarked(d, dr, err, l) ==
  /\ page' = IF d = None THEN None ELSE [f \in Form |-> IF f \in DOMAIN dr THEN dr[f] ELSE d[f]]
  /\ edited' = IF d = None THEN {} ELSE DOMAIN dr
  /\ dirty' = FALSE
  /\ load' = IF d = None /\ l = NoLoad /\ ~err THEN Asking("session", session', FALSE) ELSE l

Render(d, dr, err, l) ==
  /\ page' = IF d = None THEN None ELSE [f \in Form |-> IF f \in DOMAIN dr THEN dr[f] ELSE d[f]]
  /\ edited' = IF d = None THEN {} ELSE DOMAIN dr
  /\ dirty' = IF d = None THEN dirty ELSE DOMAIN dr # {}
  /\ load' = IF d = None /\ l = NoLoad /\ ~err THEN Asking("session", session', FALSE) ELSE l

Shown == active /\ section = "collection"

(* A change of the client, shown at once where the forms are on screen.      *)
RenderIfShown(d, dr, err, l) ==
  IF Shown THEN Render(d, dr, err, l) ELSE load' = l /\ UNCHANGED pageVars

Type(f) ==
  /\ Shown /\ page # None /\ texts < MaxTexts
  /\ texts' = texts + 1
  /\ page' = [page EXCEPT ![f].mine = texts + 1]
  /\ edited' = edited \cup {f} /\ dirty' = TRUE
  /\ typed' = [typed EXCEPT ![f] = texts + 1]
  /\ UNCHANGED <<daemonVars, clientVars, section, active, drafts, error, keyFile, save, load>>

DraftsOnLeaving == IF section = "collection" /\ dirty THEN Captured({}) ELSE drafts

SwitchSection ==
  /\ active
  /\ drafts' = DraftsOnLeaving
  /\ \/ /\ section = "collection" /\ section' = "display"
        /\ page' = None /\ edited' = {}
        /\ UNCHANGED <<dirty, load, session>>
     \/ /\ section = "display" /\ section' = "collection"
        /\ UNCHANGED session
        /\ Render(data, drafts, error, load)
  /\ UNCHANGED <<daemonVars, data, active, error, keyFile, save, texts, typed>>

SwitchTab ==
  /\ active' = ~active
  /\ drafts' = IF active THEN DraftsOnLeaving ELSE drafts
  /\ UNCHANGED session
  /\ IF ~active /\ section = "collection" /\ ~dirty
     THEN Render(data, drafts, error, load)
     ELSE UNCHANGED <<pageVars, load>>
  /\ UNCHANGED <<daemonVars, data, section, error, keyFile, save, texts, typed>>

(* The view's timer, an answer to it or preferences of another tab.          *)
BackgroundRefresh ==
  /\ Shown /\ ~dirty
  /\ UNCHANGED session
  /\ Render(data, drafts, error, load)
  /\ UNCHANGED <<daemonVars, data, section, active, drafts, error, keyFile, save, texts, typed>>

-----------------------------------------------------------------------------
(* The user's requests *)

Submit(f) ==
  /\ Shown /\ page # None /\ save = NoSave
  /\ error' = (data = None)
  /\ save' = IF data = None THEN NoSave
             ELSE [form |-> f, fields |-> page[f], base |-> data, session |-> session,
                   since |-> launch, kept |-> Captured({f}), answer |-> Waiting]
  /\ UNCHANGED <<daemonVars, clientVars, section, active, pageVars, drafts, keyFile, load,
                 texts, typed>>

Reload ==
  /\ Shown
  /\ dirty' = FALSE /\ drafts' = NoDrafts
  /\ load' = IF load = NoLoad THEN Asking("session", session, FALSE) ELSE load
  /\ typed' = [f \in Form |-> 0]
  /\ UNCHANGED <<daemonVars, clientVars, section, active, page, edited, error, keyFile, save, texts>>

(* The file of the private setup key is chosen.                              *)
Unlock ==
  /\ Shown /\ page = None /\ keyFile /\ load = NoLoad
  /\ load' = Asking("session", session, TRUE)
  /\ UNCHANGED <<daemonVars, clientVars, section, active, pageVars, drafts, error, keyFile, save,
                 texts, typed>>

-----------------------------------------------------------------------------
(* The daemon *)

Says(status, view, token) == [status |-> status, view |-> view, token |-> token]

(* PATCH /v1/settings, the transaction of module Collection as one step.     *)
ServeSave ==
  /\ save \notin {NoSave, Refreshing} /\ save.answer = Waiting
  /\ \/ /\ save.session = launch /\ save.base = config
        /\ config' = [config EXCEPT ![save.form] = save.fields]
        /\ save' = [save EXCEPT !.answer = Says(200, config', None)]
     \/ /\ save.session = launch /\ save.base # config
        /\ save' = [save EXCEPT !.answer = Says(409, None, None)]
        /\ UNCHANGED config
     \/ /\ save.session # launch
        /\ save' = [save EXCEPT !.answer = Says(401, None, None)]
        /\ UNCHANGED config
  /\ UNCHANGED <<launch, foreign, clientVars, section, active, pageVars, drafts, error, keyFile,
                 load, texts, typed>>

(* GET /v1/settings/session and GET /v1/settings.                            *)
Reply ==
  CASE load.step = "session" /\ (load.session = launch \/ load.key) -> Says(200, None, launch)
    [] load.step = "read" /\ load.session = launch                  -> Says(200, config, None)
    [] OTHER                                                        -> Says(401, None, None)

ServeLoad ==
  /\ load # NoLoad /\ load.answer = Waiting
  /\ load' = [load EXCEPT !.answer = Reply]
  /\ UNCHANGED <<daemonVars, clientVars, section, active, pageVars, drafts, error, keyFile, save,
                 texts, typed>>

Restart ==
  /\ MoreOutside /\ launch' = launch + 1
  /\ UNCHANGED <<config, foreign, clientVars, section, active, pageVars, drafts, error, keyFile,
                 save, load, texts, typed>>

(* Requests of before a restart, served or not, may end with no answer.      *)
Cut(request) == request.since < launch

LoseAnswer ==
  /\ \/ /\ save \notin {NoSave, Refreshing} /\ Cut(save)
        /\ save' = [save EXCEPT !.answer = Says(Lost, None, None)]
        /\ UNCHANGED load
     \/ /\ load # NoLoad /\ Cut(load)
        /\ load' = [load EXCEPT !.answer = Says(Lost, None, None)]
        /\ UNCHANGED save
  /\ UNCHANGED <<daemonVars, clientVars, section, active, pageVars, drafts, error, keyFile,
                 texts, typed>>

OtherSaves(f) ==
  /\ MoreOutside /\ foreign' = foreign + 1
  /\ config' = [config EXCEPT ![f].theirs = foreign + 1]
  /\ UNCHANGED <<launch, clientVars, section, active, pageVars, drafts, error, keyFile, save, load,
                 texts, typed>>

-----------------------------------------------------------------------------
(* The answers *)

(* The daemon of a refused request does not know the token: both are gone.   *)
Forget(status) ==
  /\ session' = IF status = 401 THEN None ELSE session
  /\ data' = IF status = 401 THEN None ELSE data

(* saveCollectionPatch after its await. The page's own refresh follows.      *)
Saved ==
  /\ save \notin {NoSave, Refreshing} /\ save.answer # Waiting /\ save.answer.status = 200
  /\ data' = save.answer.view /\ UNCHANGED session
  /\ drafts' = save.kept /\ error' = FALSE /\ save' = Refreshing
  /\ typed' = [typed EXCEPT ![save.form] = 0]
  /\ \/ Shown /\ Render(data', drafts', FALSE, load)
     \/ ~Shown /\ dirty' = FALSE /\ UNCHANGED <<page, edited, load>>
  /\ UNCHANGED <<daemonVars, section, active, keyFile, texts>>

SaveFailed ==
  /\ save \notin {NoSave, Refreshing} /\ save.answer # Waiting /\ save.answer.status # 200
  /\ Forget(save.answer.status)
  /\ error' = TRUE /\ save' = NoSave
  /\ UNCHANGED <<daemonVars, section, active, pageVars, drafts, keyFile, load, texts, typed>>

SaveRefreshed ==
  /\ save = Refreshing /\ save' = NoSave
  /\ UNCHANGED session
  /\ IF Shown /\ ~dirty THEN Render(data, drafts, error, load) ELSE UNCHANGED <<pageVars, load>>
  /\ UNCHANGED <<daemonVars, data, section, active, drafts, error, keyFile, texts, typed>>

(* Backend.load: the token of the launch, then the view.                     *)
Entered ==
  /\ load # NoLoad /\ load.answer # Waiting /\ load.answer.status = 200 /\ load.step = "session"
  /\ session' = load.answer.token
  /\ load' = Asking("read", session', FALSE)
  /\ UNCHANGED <<daemonVars, data, section, active, pageVars, drafts, error, keyFile, save,
                 texts, typed>>

Loaded ==
  /\ load # NoLoad /\ load.answer # Waiting /\ load.answer.status = 200 /\ load.step = "read"
  /\ data' = load.answer.view /\ UNCHANGED session
  /\ error' = FALSE
  /\ RenderIfShown(data', drafts, FALSE, NoLoad)
  /\ UNCHANGED <<daemonVars, section, active, drafts, keyFile, save, texts, typed>>

(* (mutant: a failed request leaves the page loading)                        *)
LoadHangs ==
  /\ load # NoLoad /\ load.answer # Waiting /\ load.answer.status # 200
  /\ Forget(load.answer.status)
  /\ error' = TRUE
  /\ keyFile' = (keyFile \/ (load.answer.status = 401 /\ load.step = "session"))
  /\ UNCHANGED <<daemonVars, section, active, pageVars, load, drafts, save, texts, typed>>

LoadFailed ==
  /\ load # NoLoad /\ load.answer # Waiting /\ load.answer.status # 200
  /\ Forget(load.answer.status)
  /\ error' = TRUE
  /\ keyFile' = (keyFile \/ (load.answer.status = 401 /\ load.step = "session"))
  /\ RenderIfShown(data', drafts, TRUE, NoLoad)
  /\ UNCHANGED <<daemonVars, section, active, drafts, save, texts, typed>>

-----------------------------------------------------------------------------

(* Every request ends, since the daemon's sockets have their timeouts, and   *)
(* the page goes on with what comes of it.                                   *)
SaveGoesOn == ServeSave \/ Saved \/ SaveFailed \/ SaveRefreshed
LoadGoesOn == ServeLoad \/ Entered \/ Loaded \/ LoadFailed

Next ==
  \/ \E f \in Form : Type(f) \/ Submit(f) \/ OtherSaves(f)
  \/ SwitchSection \/ SwitchTab \/ BackgroundRefresh
  \/ Reload \/ Unlock
  \/ Restart \/ LoseAnswer
  \/ SaveGoesOn \/ LoadGoesOn

Spec == Init /\ [][Next]_vars /\ WF_vars(SaveGoesOn) /\ WF_vars(LoadGoesOn)

-----------------------------------------------------------------------------
(* What may be relied on *)

(* What the user typed is guarded from background refreshes, which rebuild   *)
(* the forms unless the page is marked: also what was restored from drafts,  *)
(* and after a save, a failure or a tab switched to and fro. Only a reload   *)
(* under way has given it up.                                                *)
TextIsGuarded == Shown /\ edited # {} /\ load = NoLoad => dirty

(* Neither button stays dead: a save and a load come to their end, also when *)
(* the daemon was restarted in between. And a panel without settings is      *)
(* fetching them, or tells why there are none so that a reload or the setup  *)
(* key brings them: it is never left saying that it is loading.              *)
NeverBlank == Shown /\ page = None /\ data = None => load # NoLoad \/ error
PanelGoesOn ==
  /\ []NeverBlank
  /\ save # NoSave ~> save = NoSave
  /\ load # NoLoad ~> load = NoLoad

(* docs/dashboard-settings.md: "Unsaved forms survive background refreshes,  *)
(* switching the two settings scopes, and saving another form."  It does not *)
(* hold of what is typed while another form is being saved.                  *)
UnsavedSurvive ==
  \A f \in Form : typed[f] # 0 =>
    \/ page # None /\ page[f].mine = typed[f]
    \/ page = None /\ f \in DOMAIN drafts /\ drafts[f].mine = typed[f]

(* docs/dashboard-settings.md: "A revision check rejects an outdated form    *)
(* when the file has changed; reload before saving again."  It does not hold *)
(* of a form whose view was replaced under it.                               *)
OutdatedRefused == [][\A f \in Form : config'[f].theirs >= config[f].theirs]_vars
=============================================================================
