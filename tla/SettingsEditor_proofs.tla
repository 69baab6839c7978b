------------------------ MODULE SettingsEditor_proofs ------------------------
(***************************************************************************)
(* Proofs about the collection settings in SettingsEditor, for any forms     *)
(* and any number of texts typed, saves of another window and restarts.      *)
(***************************************************************************)
EXTENDS SettingsEditor, TLAPS

USE DEF daemonVars, clientVars, pageVars

-----------------------------------------------------------------------------
(* The inductive invariant                                                   *)

(* Only forms that are in the document are marked.                            *)
MarkedAreShown == page = None => edited = {}

(* An answer of a save or of a read that succeeded carries the view.          *)
AnswersCarry ==
  /\ save \in Save /\ save.answer # Waiting /\ save.answer.status = 200 => save.answer.view # None
  /\ load \in Load /\ load.answer # Waiting /\ load.step = "read" /\ load.answer.status = 200 =>
       load.answer.view # None

(* NeverBlank, also of a tab that is not shown but will be shown as it is,    *)
(* since it is marked.                                                        *)
Fetching ==
  section = "collection" /\ page = None /\ data = None /\ (active \/ dirty) =>
    load # NoLoad \/ error

EditorInv == TypeOK /\ MarkedAreShown /\ AnswersCarry /\ TextIsGuarded /\ Fetching

-----------------------------------------------------------------------------
(* Values                                                                    *)

LEMMA Apart ==
  /\ MaxTexts \in Nat /\ MaxOutside \in Nat
  /\ None \notin View /\ NoLoad \notin Load /\ NoSave \notin Save /\ Refreshing \notin Save
BY EditorAssumption

(* A load that is begun.                                                      *)
LEMMA Begun ==
  ASSUME TypeOK, NEW step \in {"session", "read"}, NEW token \in Token \cup {None}, NEW key \in BOOLEAN
  PROVE  /\ Asking(step, token, key) \in Load
         /\ Asking(step, token, key).step = step /\ Asking(step, token, key).answer = Waiting
<1>1. launch \in Token
  BY Apart DEF TypeOK, Token
<1>2. Waiting \in Answer \cup {Waiting}
  OBVIOUS
<1> QED  BY <1>1, <1>2 DEF Asking, Load

LEMMA SaidIsAnAnswer ==
  ASSUME NEW status \in {200, 401, 409, Lost}, NEW view \in View \cup {None},
         NEW token \in Token \cup {None}
  PROVE  /\ Says(status, view, token) \in Answer
         /\ Says(status, view, token).status = status /\ Says(status, view, token).view = view
BY DEF Says, Answer

(* A request that is answered is still that request.                          *)
LEMMA SaveAnswered ==
  ASSUME NEW s \in Save, NEW a \in Answer
  PROVE  /\ [s EXCEPT !.answer = a] \in Save
         /\ [s EXCEPT !.answer = a].answer = a
BY DEF Save

LEMMA LoadAnswered ==
  ASSUME NEW l \in Load, NEW a \in Answer
  PROVE  /\ [l EXCEPT !.answer = a] \in Load
         /\ [l EXCEPT !.answer = a].answer = a /\ [l EXCEPT !.answer = a].step = l.step
BY DEF Load

(* What is taken from the document is a draft of each form that is marked.    *)
LEMMA CapturedAreDrafts ==
  ASSUME TypeOK, MarkedAreShown, NEW but \in SUBSET Form
  PROVE  Captured(but) \in Drafts
<1>1. edited \subseteq Form /\ page \in View \cup {None}
  BY DEF TypeOK
<1>2. \A f \in edited \ but : page[f] \in Fields
  BY <1>1 DEF MarkedAreShown, View
<1>3. Captured(but) \in [edited \ but -> Fields]
  BY <1>2 DEF Captured
<1>4. edited \ but \in SUBSET Form
  BY <1>1
<1> QED  BY <1>3, <1>4 DEF Drafts

LEMMA NoDraftsAreDrafts == NoDrafts \in Drafts
<1>1. NoDrafts \in [{} -> Fields]
  BY DEF NoDrafts
<1> QED  BY <1>1 DEF Drafts

(* Rendering: what is on screen afterwards, and what it fetches.              *)
LEMMA Rendered ==
  ASSUME TypeOK, NEW d \in View \cup {None}, NEW dr \in Drafts, NEW err \in BOOLEAN,
         NEW l \in Load \cup {NoLoad}, session' \in Token \cup {None}, Render(d, dr, err, l)
  PROVE  /\ page' \in View \cup {None} /\ edited' \subseteq Form /\ dirty' \in BOOLEAN
         /\ load' \in Load \cup {NoLoad}
         /\ page' = None => edited' = {}
         /\ edited' # {} => dirty'
         /\ d = None /\ ~err => load' # NoLoad
         /\ load' = l \/ (load' \in Load /\ load'.step = "session")
<1>1. dr \in [DOMAIN dr -> Fields] /\ DOMAIN dr \in SUBSET Form
  BY DEF Drafts
<1>2. d # None => d \in View /\ [f \in Form |-> IF f \in DOMAIN dr THEN dr[f] ELSE d[f]] \in View
  BY <1>1 DEF View
<1>3. /\ Asking("session", session', FALSE) \in Load
      /\ Asking("session", session', FALSE).step = "session"
  BY Begun
<1>4. page' \in View \cup {None} /\ (page' = None => edited' = {})
  BY <1>2, Apart DEF Render
<1>5. edited' \subseteq Form /\ dirty' \in BOOLEAN /\ (edited' # {} => dirty')
  BY <1>1 DEF Render, TypeOK
<1>6. /\ load' \in Load \cup {NoLoad} /\ (d = None /\ ~err => load' # NoLoad)
      /\ load' = l \/ (load' \in Load /\ load'.step = "session")
  BY <1>3, Apart DEF Render
<1> QED  BY <1>4, <1>5, <1>6

-----------------------------------------------------------------------------
(* The start                                                                 *)

LEMMA InitEditor == ASSUME Init PROVE EditorInv
<1>1. /\ launch \in 1..1 + MaxOutside /\ 0 \in 0..MaxTexts /\ 0 \in 0..MaxOutside
      /\ session \in Token \cup {None}
  BY Apart DEF Init, Token
<1>2. config \in View /\ typed \in [Form -> 0..MaxTexts]
  BY <1>1 DEF Init, View, Fields
<1>3. load \in Load /\ load.answer = Waiting
  <2>1. launch \in Token /\ Waiting \in Answer \cup {Waiting}
    BY <1>1 DEF Init, Token
  <2>2. load = [step |-> "session", session |-> session, key |-> FALSE, since |-> launch,
                answer |-> Waiting]
    BY DEF Init, Asking
  <2> QED  BY <1>1, <2>1, <2>2 DEF Load
<1>4. TypeOK
  BY <1>1, <1>2, <1>3, NoDraftsAreDrafts DEF Init, TypeOK
<1>5. save \notin Save
  BY Apart DEF Init
<1>6. MarkedAreShown /\ AnswersCarry /\ TextIsGuarded /\ Fetching
  BY <1>3, <1>5, Apart DEF Init, MarkedAreShown, AnswersCarry, TextIsGuarded, Fetching
<1> QED  BY <1>4, <1>6 DEF EditorInv

-----------------------------------------------------------------------------
(* The document's steps                                                      *)

LEMMA TypeKeeps == ASSUME EditorInv, NEW f \in Form, Type(f) PROVE EditorInv'
<1> USE DEF EditorInv
<1>1. page \in View /\ texts + 1 \in 0..MaxTexts
  BY Apart DEF Type, TypeOK
<1>2. page' \in View /\ page' # None
  <2>1. page[f] \in Fields /\ [page[f] EXCEPT !.mine = texts + 1] \in Fields
    BY <1>1 DEF View, Fields
  <2>2. page' = [page EXCEPT ![f] = [page[f] EXCEPT !.mine = texts + 1]]
    BY DEF Type
  <2> QED  BY <1>1, <2>1, <2>2, Apart DEF View
<1>3. TypeOK'
  BY <1>1, <1>2 DEF Type, TypeOK
<1>4. MarkedAreShown' /\ AnswersCarry' /\ TextIsGuarded' /\ Fetching'
  BY <1>2 DEF Type, MarkedAreShown, AnswersCarry, TextIsGuarded, Fetching
<1> QED  BY <1>3, <1>4

LEMMA DraftsLeft == ASSUME EditorInv PROVE DraftsOnLeaving \in Drafts
BY CapturedAreDrafts DEF EditorInv, DraftsOnLeaving, TypeOK

(* A rendering by itself, of the view the client has.                         *)
LEMMA RenderKeeps ==
  ASSUME EditorInv, Render(data, drafts, error, load), drafts' \in Drafts,
         active' \in BOOLEAN, section' \in {"collection", "display"}, save' \in {save, NoSave},
         UNCHANGED <<daemonVars, clientVars, error, keyFile, texts, typed>>
  PROVE  EditorInv'
<1> USE DEF EditorInv
<1>1. /\ page' \in View \cup {None} /\ edited' \subseteq Form /\ dirty' \in BOOLEAN
      /\ load' \in Load \cup {NoLoad}
      /\ page' = None => edited' = {}
      /\ edited' # {} => dirty'
      /\ data = None /\ ~error => load' # NoLoad
      /\ load' = load \/ (load' \in Load /\ load'.step = "session")
  BY Rendered DEF TypeOK
<1>2. TypeOK'
  BY <1>1 DEF TypeOK
<1>3. MarkedAreShown' /\ TextIsGuarded'
  BY <1>1 DEF MarkedAreShown, TextIsGuarded
<1>4. AnswersCarry'
  BY <1>1, Apart DEF AnswersCarry
<1>5. Fetching'
  BY <1>1 DEF Fetching
<1> QED  BY <1>2, <1>3, <1>4, <1>5

LEMMA SwitchSectionKeeps == ASSUME EditorInv, SwitchSection PROVE EditorInv'
<1> USE DEF EditorInv
<1>1. drafts' \in Drafts
  BY DraftsLeft DEF SwitchSection
<1>2. CASE section' = "display"
  <2>1. /\ page' = None /\ edited' = {} /\ UNCHANGED <<dirty, load, session>>
        /\ UNCHANGED <<daemonVars, data, active, error, keyFile, save, texts, typed>>
    BY <1>2 DEF SwitchSection
  <2>2. TypeOK'
    BY <1>1, <1>2, <2>1 DEF TypeOK
  <2>3. MarkedAreShown' /\ AnswersCarry' /\ TextIsGuarded' /\ Fetching'
    BY <1>2, <2>1 DEF MarkedAreShown, AnswersCarry, TextIsGuarded, Fetching
  <2> QED  BY <2>2, <2>3
<1>3. CASE section' # "display"
  <2>1. /\ Render(data, drafts, error, load) /\ section' = "collection"
        /\ UNCHANGED <<daemonVars, clientVars, active, error, keyFile, save, texts, typed>>
    BY <1>3 DEF SwitchSection
  <2> QED  BY <1>1, <2>1, RenderKeeps DEF TypeOK
<1> QED  BY <1>2, <1>3

LEMMA SwitchTabKeeps == ASSUME EditorInv, SwitchTab PROVE EditorInv'
<1> USE DEF EditorInv
<1>1. drafts' \in Drafts /\ active' = ~active
  BY DraftsLeft DEF SwitchTab, TypeOK
<1>u. UNCHANGED <<daemonVars, clientVars, section, error, keyFile, save, texts, typed>>
  BY DEF SwitchTab
<1>2. CASE ~active /\ section = "collection" /\ ~dirty
  <2>1. Render(data, drafts, error, load)
    BY <1>2 DEF SwitchTab
  <2> QED  BY <1>1, <1>u, <2>1, RenderKeeps DEF TypeOK
<1>3. CASE ~(~active /\ section = "collection" /\ ~dirty)
  <2>1. UNCHANGED <<pageVars, load>>
    BY <1>3 DEF SwitchTab
  <2>2. TypeOK'
    BY <1>1, <1>u, <2>1 DEF TypeOK
  <2>3. MarkedAreShown' /\ AnswersCarry'
    BY <1>u, <2>1 DEF MarkedAreShown, AnswersCarry
  <2>4. TextIsGuarded' /\ Fetching'
    BY <1>1, <1>3, <1>u, <2>1 DEF TextIsGuarded, Fetching, Shown, TypeOK
  <2> QED  BY <2>2, <2>3, <2>4
<1> QED  BY <1>2, <1>3

LEMMA BackgroundRefreshKeeps == ASSUME EditorInv, BackgroundRefresh PROVE EditorInv'
BY RenderKeeps DEF BackgroundRefresh, EditorInv, TypeOK

-----------------------------------------------------------------------------
(* The user's requests and the daemon's answers                              *)

LEMMA SubmitKeeps == ASSUME EditorInv, NEW f \in Form, Submit(f) PROVE EditorInv'
<1> USE DEF EditorInv
<1>1. /\ page \in View /\ Captured({f}) \in Drafts /\ launch \in Token /\ error' \in BOOLEAN
      /\ Waiting \in Answer \cup {Waiting}
  BY CapturedAreDrafts, Apart DEF Submit, TypeOK, Token
<1>2. save' \in Save \cup {NoSave} /\ (save' \in Save => save'.answer = Waiting)
  <2>1. CASE data = None
    BY <2>1, Apart DEF Submit
  <2>2. CASE data # None
    <3>1. save' = [form |-> f, fields |-> page[f], base |-> data, session |-> session,
                   since |-> launch, kept |-> Captured({f}), answer |-> Waiting]
      BY <2>2 DEF Submit
    <3>2. page[f] \in Fields /\ data \in View /\ session \in Token \cup {None}
      BY <1>1, <2>2 DEF TypeOK, View
    <3> QED  BY <1>1, <3>1, <3>2 DEF Save
  <2> QED  BY <2>1, <2>2
<1>3. UNCHANGED <<daemonVars, clientVars, section, active, pageVars, drafts, keyFile, load, texts, typed>>
  BY DEF Submit
<1>4. TypeOK'
  BY <1>1, <1>2, <1>3 DEF TypeOK
<1>5. MarkedAreShown' /\ AnswersCarry' /\ TextIsGuarded'
  BY <1>2, <1>3 DEF MarkedAreShown, AnswersCarry, TextIsGuarded, Shown
<1>6. Fetching'
  BY <1>3 DEF Submit, Fetching
<1> QED  BY <1>4, <1>5, <1>6

LEMMA ReloadKeeps == ASSUME EditorInv, Reload PROVE EditorInv'
<1> USE DEF EditorInv
<1>1. /\ load' \in Load /\ load' # NoLoad
      /\ load' = load \/ load'.step = "session"
  BY Begun, Apart DEF Reload, TypeOK
<1>2. TypeOK'
  <2>1. typed' \in [Form -> 0..MaxTexts]
    BY Apart DEF Reload
  <2> QED  BY <1>1, <2>1, NoDraftsAreDrafts DEF Reload, TypeOK
<1>3. MarkedAreShown' /\ AnswersCarry' /\ TextIsGuarded' /\ Fetching'
  BY <1>1 DEF Reload, MarkedAreShown, AnswersCarry, TextIsGuarded, Fetching
<1> QED  BY <1>2, <1>3

LEMMA UnlockKeeps == ASSUME EditorInv, Unlock PROVE EditorInv'
<1> USE DEF EditorInv
<1>1. load' \in Load /\ load' # NoLoad /\ load'.step = "session"
  BY Begun, Apart DEF Unlock, TypeOK
<1>2. TypeOK'
  BY <1>1 DEF Unlock, TypeOK
<1>3. MarkedAreShown' /\ AnswersCarry' /\ TextIsGuarded' /\ Fetching'
  BY <1>1 DEF Unlock, MarkedAreShown, AnswersCarry, TextIsGuarded, Fetching
<1> QED  BY <1>2, <1>3

LEMMA ServeSaveKeeps == ASSUME EditorInv, ServeSave PROVE EditorInv'
<1> USE DEF EditorInv
<1>1. save \in Save /\ config \in View
  BY DEF ServeSave, TypeOK
<1>2. config' \in View
  <2>1. save.form \in Form /\ save.fields \in Fields
    BY <1>1 DEF Save
  <2> QED  BY <1>1, <2>1 DEF ServeSave, View
<1>3. PICK a \in Answer : save' = [save EXCEPT !.answer = a] /\ (a.status = 200 => a.view # None)
  <2>1. CASE save' = [save EXCEPT !.answer = Says(200, config', None)]
    <3>1. /\ Says(200, config', None) \in Answer
          /\ Says(200, config', None).status = 200 => Says(200, config', None).view # None
      BY <1>2, SaidIsAnAnswer, Apart
    <3> QED  BY <2>1, <3>1
  <2>2. CASE save' = [save EXCEPT !.answer = Says(409, None, None)]
    <3>1. /\ Says(409, None, None) \in Answer
          /\ Says(409, None, None).status = 200 => Says(409, None, None).view # None
      BY SaidIsAnAnswer
    <3> QED  BY <2>2, <3>1
  <2>3. CASE save' = [save EXCEPT !.answer = Says(401, None, None)]
    <3>1. /\ Says(401, None, None) \in Answer
          /\ Says(401, None, None).status = 200 => Says(401, None, None).view # None
      BY SaidIsAnAnswer
    <3> QED  BY <2>3, <3>1
  <2> QED  BY <2>1, <2>2, <2>3 DEF ServeSave
<1>4. save' \in Save /\ (save'.answer.status = 200 => save'.answer.view # None)
  BY <1>1, <1>3, SaveAnswered
<1>5. UNCHANGED <<launch, foreign, clientVars, section, active, pageVars, drafts, error, keyFile,
                  load, texts, typed>>
  BY DEF ServeSave
<1>6. TypeOK'
  BY <1>2, <1>4, <1>5 DEF TypeOK
<1>7. MarkedAreShown' /\ AnswersCarry' /\ TextIsGuarded' /\ Fetching'
  BY <1>4, <1>5 DEF MarkedAreShown, AnswersCarry, TextIsGuarded, Shown, Fetching
<1> QED  BY <1>6, <1>7

LEMMA ServeLoadKeeps == ASSUME EditorInv, ServeLoad PROVE EditorInv'
<1> USE DEF EditorInv
<1>1. load \in Load /\ config \in View /\ launch \in Token
  BY Apart DEF ServeLoad, TypeOK, Token
<1>2. Reply \in Answer /\ (load.step = "read" /\ Reply.status = 200 => Reply.view # None)
  <2>1. /\ Says(200, None, launch) \in Answer
        /\ Says(200, config, None) \in Answer /\ Says(200, config, None).view # None
        /\ Says(401, None, None) \in Answer /\ Says(401, None, None).status = 401
    BY <1>1, SaidIsAnAnswer, Apart
  <2> QED  BY <2>1 DEF Reply
<1>3. /\ load' \in Load /\ load' # NoLoad
      /\ load'.step = "read" /\ load'.answer.status = 200 => load'.answer.view # None
  BY <1>1, <1>2, LoadAnswered, Apart DEF ServeLoad
<1>4. UNCHANGED <<daemonVars, clientVars, section, active, pageVars, drafts, error, keyFile, save,
                  texts, typed>>
  BY DEF ServeLoad
<1>5. TypeOK'
  BY <1>3, <1>4 DEF TypeOK
<1>6. MarkedAreShown' /\ AnswersCarry' /\ TextIsGuarded' /\ Fetching'
  BY <1>3, <1>4 DEF MarkedAreShown, AnswersCarry, TextIsGuarded, Fetching
<1> QED  BY <1>5, <1>6

LEMMA RestartKeeps == ASSUME EditorInv, Restart PROVE EditorInv'
<1> USE DEF EditorInv
<1>1. launch' \in 1..1 + MaxOutside
  <2>1. launch \in 1..1 + MaxOutside /\ foreign \in 0..MaxOutside /\ foreign + launch <= MaxOutside
    BY DEF Restart, MoreOutside, TypeOK
  <2> QED  BY <2>1, Apart DEF Restart
<1>2. TypeOK'
  BY <1>1 DEF Restart, TypeOK
<1>3. MarkedAreShown' /\ AnswersCarry' /\ TextIsGuarded' /\ Fetching'
  BY DEF Restart, MarkedAreShown, AnswersCarry, TextIsGuarded, Shown, Fetching
<1> QED  BY <1>2, <1>3

LEMMA LoseAnswerKeeps == ASSUME EditorInv, LoseAnswer PROVE EditorInv'
<1> USE DEF EditorInv
<1>0. Says(Lost, None, None) \in Answer /\ Says(Lost, None, None).status # 200
  <2>1. Lost # 200
    BY DEF Lost
  <2> QED  BY <2>1, SaidIsAnAnswer
<1>1. CASE save' # save
  <2>1. save \in Save /\ save' = [save EXCEPT !.answer = Says(Lost, None, None)] /\ load' = load
    BY <1>1 DEF LoseAnswer, TypeOK
  <2>2. save' \in Save /\ save'.answer.status # 200
    BY <1>0, <2>1, SaveAnswered
  <2>3. TypeOK'
    BY <2>1, <2>2 DEF LoseAnswer, TypeOK
  <2>4. MarkedAreShown' /\ AnswersCarry' /\ TextIsGuarded' /\ Fetching'
    BY <2>1, <2>2 DEF LoseAnswer, MarkedAreShown, AnswersCarry, TextIsGuarded, Shown, Fetching
  <2> QED  BY <2>3, <2>4
<1>2. CASE save' = save
  <2>1. load' = load \/ (load \in Load /\ load' = [load EXCEPT !.answer = Says(Lost, None, None)])
    BY <1>2 DEF LoseAnswer, TypeOK
  <2>2. load' = load \/ (load' \in Load /\ load'.answer.status # 200)
    <3>1. CASE load \in Load /\ load' = [load EXCEPT !.answer = Says(Lost, None, None)]
      <4>1. load' \in Load /\ load'.answer = Says(Lost, None, None)
        BY <1>0, <3>1, LoadAnswered
      <4> QED  BY <1>0, <4>1
    <3> QED  BY <2>1, <3>1
  <2>3. TypeOK'
    BY <1>2, <2>2 DEF LoseAnswer, TypeOK
  <2>4. MarkedAreShown' /\ AnswersCarry' /\ TextIsGuarded' /\ Fetching'
    BY <1>2, <2>2, Apart
       DEF LoseAnswer, MarkedAreShown, AnswersCarry, TextIsGuarded, Shown, Fetching
  <2> QED  BY <2>3, <2>4
<1> QED  BY <1>1, <1>2

LEMMA OtherSavesKeeps == ASSUME EditorInv, NEW f \in Form, OtherSaves(f) PROVE EditorInv'
<1> USE DEF EditorInv
<1>1. foreign + 1 \in 0..MaxOutside /\ config \in View
  <2>1. launch \in 1..1 + MaxOutside /\ foreign \in 0..MaxOutside /\ foreign + launch <= MaxOutside
    BY DEF OtherSaves, MoreOutside, TypeOK
  <2> QED  BY <2>1, Apart DEF TypeOK
<1>2. config' \in View
  <2>1. config[f] \in Fields /\ [config[f] EXCEPT !.theirs = foreign + 1] \in Fields
    BY <1>1 DEF View, Fields
  <2>2. config' = [config EXCEPT ![f] = [config[f] EXCEPT !.theirs = foreign + 1]]
    BY DEF OtherSaves
  <2> QED  BY <1>1, <2>1, <2>2 DEF View
<1>3. TypeOK'
  BY <1>1, <1>2 DEF OtherSaves, TypeOK
<1>4. MarkedAreShown' /\ AnswersCarry' /\ TextIsGuarded' /\ Fetching'
  BY DEF OtherSaves, MarkedAreShown, AnswersCarry, TextIsGuarded, Shown, Fetching
<1> QED  BY <1>3, <1>4

-----------------------------------------------------------------------------
(* What comes of the answers                                                 *)

LEMMA Forgotten ==
  ASSUME TypeOK, NEW status, Forget(status)
  PROVE  /\ session' \in Token \cup {None} /\ data' \in View \cup {None}
         /\ data' = None \/ data' = data
BY DEF TypeOK, Forget

LEMMA SavedKeeps == ASSUME EditorInv, Saved PROVE EditorInv'
<1> USE DEF EditorInv
<1>1. /\ save \in Save /\ save.answer \in Answer /\ save.answer.view \in View /\ save.kept \in Drafts
      /\ save.form \in Form
  <2>1. save \in Save /\ save.answer \in Answer /\ save.kept \in Drafts /\ save.form \in Form
    BY DEF Saved, TypeOK, Save
  <2>2. save.answer.view \in View \cup {None}
    BY <2>1 DEF Answer
  <2> QED  BY <2>1, <2>2 DEF Saved, AnswersCarry
<1>2. /\ data' \in View /\ data' # None /\ drafts' \in Drafts /\ session' = session
      /\ typed' \in [Form -> 0..MaxTexts]
  <2>1. typed' \in [Form -> 0..MaxTexts]
    BY <1>1, Apart DEF Saved, TypeOK
  <2> QED  BY <1>1, <2>1, Apart DEF Saved
<1>3. /\ page' \in View \cup {None} /\ edited' \subseteq Form /\ dirty' \in BOOLEAN
      /\ load' \in Load \cup {NoLoad}
      /\ page' = None => edited' = {}
      /\ Shown => (edited' # {} => dirty')
      /\ load' = load \/ (load' \in Load /\ load'.step = "session")
  <2>1. CASE Shown
    <3>1. Render(data', drafts', FALSE, load)
      BY <2>1 DEF Saved
    <3> DEFINE d == data'
               dr == drafts'
    <3>2. d \in View \cup {None} /\ dr \in Drafts /\ Render(d, dr, FALSE, load)
      BY <1>2, <3>1
    <3>3. session' \in Token \cup {None} /\ load \in Load \cup {NoLoad}
      BY <1>2 DEF TypeOK
    <3> HIDE DEF d, dr
    <3> QED  BY <3>2, <3>3, Rendered
  <2>2. CASE ~Shown
    <3>1. UNCHANGED <<page, edited, load>> /\ dirty' = FALSE
      BY <2>2 DEF Saved
    <3> QED  BY <2>2, <3>1 DEF TypeOK, MarkedAreShown
  <2> QED  BY <2>1, <2>2
<1>4. UNCHANGED <<daemonVars, section, active, keyFile, texts>> /\ save' = Refreshing /\ error' = FALSE
  BY DEF Saved
<1>5. TypeOK'
  BY <1>2, <1>3, <1>4 DEF TypeOK
<1>6. MarkedAreShown' /\ TextIsGuarded' /\ Fetching'
  BY <1>2, <1>3, <1>4 DEF MarkedAreShown, TextIsGuarded, Shown, Fetching
<1>7. AnswersCarry'
  BY <1>3, <1>4, Apart DEF AnswersCarry
<1> QED  BY <1>5, <1>6, <1>7

LEMMA SaveFailedKeeps == ASSUME EditorInv, SaveFailed PROVE EditorInv'
<1> USE DEF EditorInv
<1>1. session' \in Token \cup {None} /\ data' \in View \cup {None}
  BY Forgotten DEF SaveFailed
<1>2. TypeOK'
  BY <1>1 DEF SaveFailed, TypeOK
<1>3. MarkedAreShown' /\ AnswersCarry' /\ TextIsGuarded' /\ Fetching'
  BY Apart DEF SaveFailed, MarkedAreShown, AnswersCarry, TextIsGuarded, Shown, Fetching
<1> QED  BY <1>2, <1>3

LEMMA SaveRefreshedKeeps == ASSUME EditorInv, SaveRefreshed PROVE EditorInv'
<1> USE DEF EditorInv
<1>1. CASE Shown /\ ~dirty
  BY <1>1, RenderKeeps DEF SaveRefreshed, TypeOK
<1>2. CASE ~(Shown /\ ~dirty)
  <2>1. /\ UNCHANGED <<pageVars, load, daemonVars, clientVars, section, active, drafts, error,
                       keyFile, texts, typed>>
        /\ save' = NoSave
    BY <1>2 DEF SaveRefreshed
  <2>2. TypeOK'
    BY <2>1 DEF TypeOK
  <2>3. MarkedAreShown' /\ AnswersCarry' /\ TextIsGuarded' /\ Fetching'
    BY <2>1, Apart DEF MarkedAreShown, AnswersCarry, TextIsGuarded, Shown, Fetching
  <2> QED  BY <2>2, <2>3
<1> QED  BY <1>1, <1>2

LEMMA EnteredKeeps == ASSUME EditorInv, Entered PROVE EditorInv'
<1> USE DEF EditorInv
<1>1. session' \in Token \cup {None}
  <2>1. load.answer \in Answer
    BY DEF Entered, TypeOK, Load
  <2> QED  BY <2>1 DEF Entered, Answer
<1>2. load' \in Load /\ load' # NoLoad /\ load'.answer = Waiting
  <2>1. TypeOK
    OBVIOUS
  <2>2. Asking("read", session', FALSE) \in Load /\ Asking("read", session', FALSE).answer = Waiting
    BY ONLY <1>1, <2>1, Begun
  <2>3. load' = Asking("read", session', FALSE)
    BY DEF Entered
  <2> QED  BY <2>2, <2>3, Apart
<1>3. TypeOK'
  BY <1>1, <1>2 DEF Entered, TypeOK
<1>4. MarkedAreShown' /\ AnswersCarry' /\ TextIsGuarded' /\ Fetching'
  BY <1>2 DEF Entered, MarkedAreShown, AnswersCarry, TextIsGuarded, Fetching
<1> QED  BY <1>3, <1>4

(* An answer to a load, shown at once where the forms are on screen.          *)
LEMMA LoadEnds ==
  ASSUME EditorInv, NEW d \in View \cup {None}, NEW err \in BOOLEAN, d # None \/ err,
         data' = d, session' \in Token \cup {None}, error' = err, keyFile' \in BOOLEAN,
         RenderIfShown(d, drafts, err, NoLoad),
         UNCHANGED <<daemonVars, section, active, drafts, save, texts, typed>>
  PROVE  EditorInv'
<1> USE DEF EditorInv
<1>1. /\ page' \in View \cup {None} /\ edited' \subseteq Form /\ dirty' \in BOOLEAN
      /\ load' \in Load \cup {NoLoad}
      /\ page' = None => edited' = {}
      /\ Shown => (edited' # {} => dirty')
      /\ load' = NoLoad \/ (load' \in Load /\ load'.step = "session")
  <2>1. CASE Shown
    <3>1. Render(d, drafts, err, NoLoad)
      BY <2>1 DEF RenderIfShown
    <3> QED  BY <3>1, Rendered DEF TypeOK
  <2>2. CASE ~Shown
    BY <2>2 DEF RenderIfShown, TypeOK, MarkedAreShown
  <2> QED  BY <2>1, <2>2
<1>2. TypeOK'
  BY <1>1 DEF TypeOK
<1>3. MarkedAreShown' /\ TextIsGuarded' /\ Fetching'
  BY <1>1 DEF MarkedAreShown, TextIsGuarded, Shown, Fetching
<1>4. AnswersCarry'
  BY <1>1, Apart DEF AnswersCarry
<1> QED  BY <1>2, <1>3, <1>4

LEMMA LoadedKeeps == ASSUME EditorInv, Loaded PROVE EditorInv'
<1> USE DEF EditorInv
<1> DEFINE d == load.answer.view
<1>1. d \in View /\ d # None
  <2>1. load \in Load /\ load.answer \in Answer
    BY DEF Loaded, TypeOK, Load
  <2>2. load.answer.view \in View \cup {None}
    BY <2>1 DEF Answer
  <2> QED  BY <2>1, <2>2 DEF Loaded, AnswersCarry
<1>2. /\ data' = d /\ error' = FALSE /\ session' \in Token \cup {None} /\ keyFile' \in BOOLEAN
      /\ RenderIfShown(d, drafts, FALSE, NoLoad)
      /\ UNCHANGED <<daemonVars, section, active, drafts, save, texts, typed>>
  BY DEF Loaded, TypeOK
<1> HIDE DEF d
<1> QED  BY <1>1, <1>2, LoadEnds

LEMMA LoadFailedKeeps == ASSUME EditorInv, LoadFailed PROVE EditorInv'
<1> USE DEF EditorInv
<1>1. session' \in Token \cup {None} /\ data' \in View \cup {None} /\ keyFile' \in BOOLEAN
  BY Forgotten DEF LoadFailed, TypeOK
<1>2. PICK d \in View \cup {None} : data' = d
  BY <1>1
<1>3. /\ error' = TRUE /\ RenderIfShown(d, drafts, TRUE, NoLoad)
      /\ UNCHANGED <<daemonVars, section, active, drafts, save, texts, typed>>
  BY <1>2 DEF LoadFailed
<1> QED  BY <1>1, <1>2, <1>3, LoadEnds

LEMMA NothingKeeps == ASSUME EditorInv, UNCHANGED vars PROVE EditorInv'
<1> USE DEF EditorInv
<1>1. TypeOK'
  BY DEF vars, TypeOK
<1>2. MarkedAreShown' /\ AnswersCarry' /\ TextIsGuarded' /\ Fetching'
  BY DEF vars, MarkedAreShown, AnswersCarry, TextIsGuarded, Shown, Fetching
<1> QED  BY <1>1, <1>2

-----------------------------------------------------------------------------
(* The theorems                                                              *)

(* The invariant, for any forms and bounds.                                   *)
THEOREM EditorInvariant == Spec => []EditorInv
<1>1. Init => EditorInv
  BY InitEditor
<1>2. EditorInv /\ [Next]_vars => EditorInv'
  BY TypeKeeps, SubmitKeeps, OtherSavesKeeps, SwitchSectionKeeps, SwitchTabKeeps,
     BackgroundRefreshKeeps, ReloadKeeps, UnlockKeeps, RestartKeeps, LoseAnswerKeeps,
     ServeSaveKeeps, SavedKeeps, SaveFailedKeeps, SaveRefreshedKeeps, ServeLoadKeeps,
     EnteredKeeps, LoadedKeeps, LoadFailedKeeps, NothingKeeps DEF Next, SaveGoesOn, LoadGoesOn
<1> QED  BY <1>1, <1>2, PTL DEF Spec

(* TextIsGuarded: no background refresh rebuilds a form that the user has     *)
(* typed in (dashboard.html).                                                 *)
THEOREM TypedTextIsGuarded == Spec => []TextIsGuarded
BY EditorInvariant, PTL DEF EditorInv

(* NeverBlank: a panel without settings is fetching them or tells why there   *)
(* are none.                                                                   *)
THEOREM PanelIsNeverBlank == Spec => []NeverBlank
<1>1. EditorInv => NeverBlank
  BY DEF EditorInv, Fetching, NeverBlank, Shown
<1> QED  BY <1>1, EditorInvariant, PTL
=============================================================================
