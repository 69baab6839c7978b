------------------------- MODULE MCProviders_proofs -------------------------
(***************************************************************************)
(* The invariants of the providers of MCProviders, and that they are kept   *)
(* for any accounts, tokens, pages, intervals and clock: one invariant for  *)
(* each machine, over the registers it uses, and of all of them the four    *)
(* composite properties.  The three providers of CodexProvider are proved   *)
(* once, for any number of places, native or not, sealed or not, through    *)
(* the instance AnyCodex.                                                   *)
(***************************************************************************)
EXTENDS MCProviders, FiniteSetTheorems, TLAPS

(* What the modules assume of the constants.                                  *)
LEMMA Assumed ==
  /\ Requests!RequestsAssumption /\ Muse!MuseAssumption /\ OAuth!OAuthAssumption
  /\ Copilot!CopilotAssumption /\ Antigravity!AntigravityAssumption /\ ClaudeCli!ClaudeAssumption
  /\ CodexTokens \in Nat /\ OtherTokens \in Nat
BY ProviderAssumption DEF ProviderAssumption, Codex!CodexAssumption, Files!CodexAssumption

-----------------------------------------------------------------------------
(* The Codex adapters: what their invariants speak of.                      *)

AnyCodex(places, native, sealed, tokens) == INSTANCE CodexProvider WITH
  store <- stored, valid <- accepted, aging <- stale, signedIn <- r1,
  dropped <- r2, twice <- r3, crossed <- r4,
  Places <- places, Native <- native, ReadOnly <- sealed, Accounts <- People,
  MaxTokens <- tokens

Account == People \cup {"none"}
Credentials == [access : Nat, refresh : Nat, account : Account, named : BOOLEAN]
NoCredentials == [access |-> 0, refresh |-> 0, account |-> "none", named |-> FALSE]
Phase == {"idle", "load", "reload", "refresh", "compare", "replace", "fetch", "retry", "failed"}
CodexProbe ==
  [phase : Phase, place : Nat, auth : Credentials, revision : Credentials,
   stage : {"first", "proactive", "reloaded", "last"}, refused : BOOLEAN, rotated : BOOLEAN,
   began : Account, rejected : SUBSET Nat, spent : SUBSET Nat]
Saving == probe.phase \in {"compare", "replace"}

(* Registers hold what a Codex provider may hold.                            *)
CodexTypes(places) ==
  /\ stored \in [1..places -> Credentials] /\ r1 \in [1..places -> Account]
  /\ issued \in Nat /\ accepted \subseteq 1..issued
  /\ probe \in CodexProbe
  /\ r2 \subseteq Nat /\ r3 \in BOOLEAN /\ r4 \in BOOLEAN
  /\ probe.phase # "idle" => probe.place \in 1..places

(* Both tokens of a login were issued at once, and none is held that was not. *)
Whole(auth) ==
  /\ auth.access = auth.refresh /\ auth.refresh <= issued
  /\ auth.refresh = 0 => auth = NoCredentials
Issuing(places) ==
  /\ \A i \in 1..places : Whole(stored[i])
  /\ Whole(probe.auth) /\ Whole(probe.revision)
  /\ probe.rejected \subseteq 0..issued

(* Two places never hold one token, nor does a probe hold one of another place. *)
Apart(places) ==
  /\ \A i, j \in 1..places : i # j => stored[i].refresh # stored[j].refresh \/ stored[i].refresh = 0
  /\ \A i \in 1..places : i # probe.place => 
        stored[i].refresh # probe.auth.refresh \/ stored[i].refresh = 0

(* What the probe holds is what it read, until it rotates.                    *)
OfRevision(places) ==
  /\ probe.auth.account = probe.began /\ probe.revision.account = probe.began
  /\ ~probe.rotated => probe.auth = probe.revision
  /\ probe.place \in 1..places /\ stored[probe.place].refresh = probe.revision.refresh =>
       stored[probe.place] = probe.revision
  /\ probe.auth.refresh = probe.revision.refresh => probe.auth = probe.revision
  /\ probe.place \in 1..places /\ stored[probe.place].refresh = probe.auth.refresh =>
       stored[probe.place] = probe.auth

(* Rotated tokens that are to be saved are accepted, and in no store yet.     *)
Rotated(places, sealed) ==
  Saving => /\ ~sealed /\ probe.rotated /\ probe.auth.refresh \in accepted
            /\ \A i \in 1..places : stored[i].refresh # probe.auth.refresh
            /\ probe.auth.access \notin probe.rejected

(* But for the tokens spent on a rotation that was lost, what is stored is    *)
(* accepted, or spent and about to be replaced by what is: a native host      *)
(* saves only over what the probe read.                                       *)
Usable(places, native) ==
  (native => ~r3) =>
    \A i \in 1..places : stored[i] # NoCredentials =>
      \/ stored[i].refresh \in accepted \cup r2
      \/ /\ Saving /\ i = probe.place /\ (native => stored[i] = probe.revision)
         /\ stored[i].refresh \in probe.spent

(* A sign-in stays, unless it fell between a comparison and its replacement.  *)
Kept(places, native) ==
  native /\ ~r4 =>
    /\ \A i \in 1..places : stored[i].account = r1[i]
    /\ probe.phase = "replace" => probe.auth.account = r1[probe.place]

(* What was rejected is not what is asked with next.                          *)
Fresh ==
  /\ probe.phase = "fetch" => probe.auth.access \notin probe.rejected
  /\ probe.stage \in {"first", "proactive"} /\ probe.phase \notin {"retry", "failed"} => probe.rejected = {}
  /\ probe.phase = "retry" => probe.rejected = {probe.auth.access}
  /\ probe.phase = "reload" => probe.stage = "first"

(* Places are the stores a provider tries in order, native is the host that   *)
(* compares before it replaces, and sealed the one that may not write.        *)
CodexInv(places, native, sealed) ==
  /\ CodexTypes(places) /\ Issuing(places) /\ Apart(places) /\ OfRevision(places)
  /\ Rotated(places, sealed) /\ Usable(places, native) /\ Kept(places, native) /\ Fresh

-----------------------------------------------------------------------------
(* Muse.                                                                   *)

(* A refresh posts once with the action it kept, and once with the one it found. *)
MuseInv ==
  /\ probe \in Muse!Step
  /\ r2 \in 0..2 /\ (probe = "post" => r2 = 0) /\ (probe \in {"discover", "repost"} => r2 < 2)
  /\ Muse!ExpiredWasRefused /\ Muse!KeptWasProven

LEMMA MuseStarts == Muse!Init => MuseInv
<1> SUFFICES ASSUME Muse!Init PROVE MuseInv
  OBVIOUS
<1>1. probe \in Muse!Step /\ r2 \in 0..2 /\ probe = "idle"
  BY DEF Muse!Init, Muse!Step
<1>2. Muse!KeptWasProven
  BY DEF Muse!Init, Muse!KeptWasProven
<1>3. told # "expired"
  BY Assumed DEF Muse!Init, Muse!MuseAssumption
<1> QED  BY <1>1, <1>2, <1>3 DEF MuseInv, Muse!ExpiredWasRefused

LEMMA MuseKeeps == ASSUME MuseInv, Muse!Next PROVE MuseInv'
<1> USE DEF MuseInv, Muse!Step, Muse!ExpiredWasRefused, Muse!KeptWasProven, Muse!siteVars, Muse!Tells, Muse!Reject,
        Muse!SignedOut, Muse!Stale
<1>1. CASE Muse!Deploy \/ Muse!SignOut \/ Muse!SignIn
  BY <1>1 DEF Muse!Deploy, Muse!SignOut, Muse!SignIn
<1>2. CASE Muse!Begin
  <2>1. NoAction # "expired"
    BY Assumed DEF Muse!MuseAssumption
  <2>2. told' # "expired" /\ stored' = stored /\ r4' = r4
    BY <1>2, <2>1 DEF Muse!Begin
  <2>3. r2' = 0 /\ probe' \in Muse!Step
    BY <1>2 DEF Muse!Begin
  <2> QED  BY <2>2, <2>3
<1>3. CASE Muse!Post
  BY <1>3 DEF Muse!Post
<1>4. CASE Muse!Discover
  BY <1>4 DEF Muse!Discover
<1>5. CASE Muse!Repost
  <2>0. probe = "repost" /\ r2' = r2 + 1
    BY <1>5 DEF Muse!Repost
  <2>1. r2' = r2 + 1 /\ (r2 = 0 \/ r2 = 1)
    BY <2>0
  <2>2. r2' \in 0..2
    BY <2>1
  <2>3. probe' = "idle" /\ (told' = "expired" => r5')
    BY <1>5 DEF Muse!Repost
  <2>4. stored' # NoAction => stored' \in r4'
    <3>1. \/ stored' = stored /\ r4' = r4
          \/ stored' = cache /\ r4' = r4 \cup {cache}
      BY <1>5 DEF Muse!Repost
    <3> QED  BY <3>1
  <2> QED  BY <2>2, <2>3, <2>4
<1> QED  BY <1>1, <1>2, <1>3, <1>4, <1>5 DEF Muse!Next

LEMMA MuseHolds == MuseInv => Muse!AttemptsBounded /\ Muse!ExpiredWasRefused /\ Muse!KeptWasProven
BY DEF MuseInv, Muse!AttemptsBounded, Muse!Step

-----------------------------------------------------------------------------
(* The Codex adapters.                                                     *)

LEMMA CodexStarts ==
  ASSUME NEW places \in Nat, NEW native \in BOOLEAN, NEW sealed \in BOOLEAN, NEW tokens \in Nat,
         AnyCodex(places, native, sealed, tokens)!Init
  PROVE  CodexInv(places, native, sealed)
<1> USE DEF AnyCodex!Init, AnyCodex!Idle, AnyCodex!Absent
<1>1. probe \in CodexProbe
  BY DEF CodexProbe, Phase, Credentials, Account
<1>2. CodexTypes(places)
  BY <1>1 DEF CodexTypes, Credentials, Account
<1>3. Issuing(places) /\ Usable(places, native)
  BY DEF Issuing, Whole, NoCredentials, Usable
<1>4. Apart(places) /\ OfRevision(places) /\ Rotated(places, sealed)
  BY DEF Apart, OfRevision, Rotated, Saving
<1>5. Kept(places, native) /\ Fresh
  BY DEF Kept, Fresh
<1> QED  BY <1>2, <1>3, <1>4, <1>5 DEF CodexInv

(* The owner of the store signs out.                                          *)
LEMMA LogoutKeeps ==
  ASSUME NEW places \in Nat, NEW native \in BOOLEAN, NEW sealed \in BOOLEAN, NEW tokens \in Nat,
         CodexInv(places, native, sealed), NEW i \in 1..places,
         AnyCodex(places, native, sealed, tokens)!CliLogout(i)
  PROVE  CodexInv(places, native, sealed)'
<1> USE DEF AnyCodex!CliLogout, AnyCodex!Absent
<1>1. /\ CodexTypes(places) /\ UNCHANGED <<accepted, issued, probe, r2, r3>>
      /\ stored' \in [1..places -> Credentials] /\ r1' \in [1..places -> Account] /\ r4' \in BOOLEAN
      /\ \A j \in 1..places : stored'[j] = IF j = i THEN NoCredentials ELSE stored[j]
      /\ \A j \in 1..places : r1'[j] = IF j = i THEN "none" ELSE r1[j]
      /\ ~r4' => ~r4 /\ ~(probe.place = i /\ probe.phase = "replace")
  BY DEF CodexInv, CodexTypes, Credentials, Account, NoCredentials
<1> HIDE DEF AnyCodex!CliLogout
<1>2. CodexTypes(places)'
  BY <1>1 DEF CodexTypes
<1>3. NoCredentials.refresh = 0 /\ NoCredentials.access = 0 /\ NoCredentials.account = "none"
  BY DEF NoCredentials
<1>4. issued \in Nat /\ accepted \subseteq 1..issued
  BY <1>1 DEF CodexTypes
<1>5. Issuing(places)'
  <2>1. Whole(probe.auth)' /\ Whole(probe.revision)' /\ (probe.rejected \subseteq 0..issued)'
    BY <1>1 DEF CodexInv, Issuing, Whole
  <2>2. ASSUME NEW j \in 1..places PROVE Whole(stored[j])'
    BY <1>1, <1>3, <1>4 DEF CodexInv, Issuing, Whole
  <2> QED  BY <2>1, <2>2 DEF Issuing
<1>6. Apart(places)'
  BY <1>1, <1>3 DEF CodexInv, Apart
<1>7. OfRevision(places)'
  BY <1>1, <1>3 DEF CodexInv, OfRevision, Issuing, Whole
<1>8. Rotated(places, sealed)'
  BY <1>1, <1>3, <1>4 DEF CodexInv, Rotated, Saving
<1>9. Usable(places, native)'
  BY <1>1 DEF CodexInv, Usable, Saving
<1>10. Kept(places, native)'
  BY <1>1, <1>3 DEF CodexInv, Kept, CodexTypes
<1>11. Fresh'
  BY <1>1 DEF CodexInv, Fresh
<1> QED  BY <1>2, <1>5, <1>6, <1>7, <1>8, <1>9, <1>10, <1>11 DEF CodexInv

(* The owner of the store: it signs in, and rotates its own tokens.           *)
LEMMA OwnerKeepsCodex ==
  ASSUME NEW places \in Nat, NEW native \in BOOLEAN, NEW sealed \in BOOLEAN, NEW tokens \in Nat,
         CodexInv(places, native, sealed), NEW i \in 1..places,
         \/ \E a \in People, named \in BOOLEAN : AnyCodex(places, native, sealed, tokens)!CliLogin(i, a, named)
         \/ AnyCodex(places, native, sealed, tokens)!CliRefresh(i)
  PROVE  CodexInv(places, native, sealed)'
<1> USE DEF AnyCodex!CliLogin, AnyCodex!CliRefresh
<1> DEFINE new == issued + 1
           given == stored'[i]
<1>0. CodexTypes(places)
  BY DEF CodexInv
<1>1. /\ issued' = new /\ new \notin 0..issued /\ probe' = probe /\ r2' = r2 /\ r3' = r3
      /\ new \in accepted' /\ accepted' \subseteq accepted \cup {new}
      /\ \A t \in accepted : t # stored[i].refresh => t \in accepted'
  BY <1>0 DEF CodexTypes
<1>2. given \in Credentials /\ given.access = new /\ given.refresh = new
  <2>1. CASE \E a \in People, named \in BOOLEAN : AnyCodex(places, native, sealed, tokens)!CliLogin(i, a, named)
    BY <1>0, <2>1 DEF CodexTypes, Credentials, Account
  <2>2. CASE AnyCodex(places, native, sealed, tokens)!CliRefresh(i)
    BY <1>0, <2>2 DEF CodexTypes, Credentials, Account
  <2> QED  BY <2>1, <2>2
<1>3. /\ \A j \in 1..places : stored'[j] = IF j = i THEN given ELSE stored[j]
      /\ stored' \in [1..places -> Credentials]
  <2>1. CASE \E a \in People, named \in BOOLEAN : AnyCodex(places, native, sealed, tokens)!CliLogin(i, a, named)
    BY <1>0, <1>2, <2>1 DEF CodexTypes
  <2>2. CASE AnyCodex(places, native, sealed, tokens)!CliRefresh(i)
    BY <1>0, <1>2, <2>2 DEF CodexTypes
  <2> QED  BY <2>1, <2>2
<1>4. /\ r1' \in [1..places -> Account] /\ r4' \in BOOLEAN
      /\ native /\ ~r4' => ~r4 /\ (probe.phase = "replace" => r1'[probe.place] = r1[probe.place])
      /\ \A j \in 1..places : j # i => r1'[j] = r1[j]
      /\ stored[i].account = r1[i] => given.account = r1'[i]
  <2>1. CASE \E a \in People, named \in BOOLEAN : AnyCodex(places, native, sealed, tokens)!CliLogin(i, a, named)
    BY <1>0, <2>1 DEF CodexTypes, Account
  <2>2. CASE AnyCodex(places, native, sealed, tokens)!CliRefresh(i)
    BY <1>0, <2>2 DEF CodexTypes, Credentials
  <2> QED  BY <2>1, <2>2
<1> HIDE DEF AnyCodex!CliLogin, AnyCodex!CliRefresh, new, given
<1>5. CodexTypes(places)'
  BY <1>0, <1>1, <1>3, <1>4 DEF CodexTypes, new
<1>6. /\ new \in Nat /\ new > issued /\ issued \in Nat
      /\ \A j \in 1..places : stored[j] \in Credentials /\ Whole(stored[j])
      /\ probe.auth \in Credentials /\ Whole(probe.auth)
      /\ probe.revision \in Credentials /\ Whole(probe.revision)
  BY <1>0 DEF CodexInv, CodexTypes, Issuing, CodexProbe, new
<1>7. \A c \in Credentials : Whole(c) =>
        Whole(c)' /\ c.refresh # new /\ c.access # new /\ given # c
  BY <1>1, <1>2, <1>6 DEF Whole, Credentials
<1>8. given.access = given.refresh /\ given.refresh <= issued' /\ given.refresh # 0
  BY <1>1, <1>2, <1>6
<1>10. Issuing(places)'
  <2>1. \A j \in 1..places : Whole(stored[j])'
    <3>1. Whole(stored[i])'
      BY <1>3, <1>8 DEF Whole
    <3>2. ASSUME NEW j \in 1..places, j # i PROVE Whole(stored[j])'
      BY <1>3, <1>6, <1>7, <3>2 DEF Whole
    <3> QED  BY <3>1, <3>2
  <2>2. Whole(probe.auth)' /\ Whole(probe.revision)'
    BY <1>1, <1>6, <1>7 DEF Whole
  <2>3. (probe.rejected \subseteq 0..issued)'
    BY <1>1, <1>6 DEF CodexInv, Issuing
  <2> QED  BY <2>1, <2>2, <2>3 DEF Issuing
<1>11. Apart(places)' /\ OfRevision(places)' /\ Rotated(places, sealed)'
  <2>1. Apart(places)'
    BY <1>1, <1>2, <1>3, <1>6, <1>7 DEF CodexInv, Apart
  <2>2. OfRevision(places)'
    BY <1>1, <1>2, <1>3, <1>6, <1>7 DEF CodexInv, OfRevision
  <2>3. Rotated(places, sealed)'
    BY <1>1, <1>2, <1>3, <1>6, <1>7 DEF CodexInv, Rotated, Saving
  <2> QED  BY <2>1, <2>2, <2>3
<1>12. Usable(places, native)'
  <2>1. \A j \in 1..places : j # i /\ stored[j].refresh \in accepted => stored[j].refresh \in accepted'
    <3>1. 0 \notin accepted
      BY <1>0 DEF CodexTypes
    <3> QED  BY <1>1, <3>1 DEF CodexInv, Apart
  <2> QED  BY <1>1, <1>2, <1>3, <2>1 DEF CodexInv, Usable, Saving
<1>9. Kept(places, native)' /\ Fresh'
  BY <1>0, <1>1, <1>3, <1>4 DEF CodexInv, CodexTypes, Kept, Fresh
<1> QED  BY <1>5, <1>9, <1>10, <1>11, <1>12 DEF CodexInv

(* The probe goes on with what it holds, or ends before it saved.             *)
LEMMA MovesKeep ==
  ASSUME NEW places \in Nat, NEW native \in BOOLEAN, NEW sealed \in BOOLEAN,
         CodexInv(places, native, sealed),
         UNCHANGED <<stored, issued, accepted, r1, r3, r4>>, r2' \subseteq Nat, r2 \subseteq r2',
         probe' \in CodexProbe, Fresh', probe'.phase # "idle", probe.phase # "idle",
         probe'.place = probe.place, probe'.auth = probe.auth, probe'.revision = probe.revision,
         probe'.began = probe.began, probe'.rotated = probe.rotated,
         probe'.rejected \subseteq 0..issued,
         Saving' => Saving /\ probe'.rejected = probe.rejected /\ probe'.spent = probe.spent,
         probe'.phase = "replace" => (native => stored[probe.place] = probe.revision),
         Saving /\ ~Saving' => \/ native /\ stored[probe.place] # probe.revision
                               \/ probe.spent \subseteq r2'
  PROVE  CodexInv(places, native, sealed)'
<1>1. CodexTypes(places)'
  BY DEF CodexInv, CodexTypes
<1>2. Issuing(places)' /\ Apart(places)' /\ OfRevision(places)' /\ Rotated(places, sealed)'
  BY DEF CodexInv, Issuing, Whole, Apart, OfRevision, Rotated, Saving
<1>3. Usable(places, native)'
  BY DEF CodexInv, Usable, Saving
<1>4. Kept(places, native)'
  BY DEF CodexInv, CodexTypes, Kept, OfRevision, Saving
<1> QED  BY <1>1, <1>2, <1>3, <1>4 DEF CodexInv

(* It is over, or goes to another place.                                      *)
LEMMA ResetKeeps ==
  ASSUME NEW places \in Nat, NEW native \in BOOLEAN, NEW sealed \in BOOLEAN,
         CodexInv(places, native, sealed),
         UNCHANGED <<stored, issued, accepted, r1, r3, r4>>, r2' \subseteq Nat, r2 \subseteq r2',
         Saving => probe.spent \subseteq r2',
         probe' \in CodexProbe, probe'.phase \in {"idle", "load"},
         probe'.phase = "idle" \/ probe'.place \in 1..places,
         probe'.auth = NoCredentials, probe'.revision = NoCredentials, probe'.began = "none",
         probe'.rejected = {}
  PROVE  CodexInv(places, native, sealed)'
<1>1. CodexTypes(places)'
  BY DEF CodexInv, CodexTypes
<1>2. Issuing(places)'
  BY DEF CodexInv, CodexTypes, Issuing, Whole, NoCredentials
<1>4. Apart(places)' /\ OfRevision(places)' /\ Rotated(places, sealed)'
  <2>1. Apart(places)'
    BY DEF CodexInv, Apart, NoCredentials
  <2>2. OfRevision(places)'
    <3>1. \A i \in 1..places : stored'[i].refresh = 0 => stored'[i] = NoCredentials
      BY DEF CodexInv, Issuing, Whole
    <3>2. NoCredentials.refresh = 0 /\ NoCredentials.account = "none"
      BY DEF NoCredentials
    <3> QED  BY <3>1, <3>2 DEF OfRevision
  <2>3. Rotated(places, sealed)'
    BY DEF Rotated, Saving
  <2> QED  BY <2>1, <2>2, <2>3
<1>3. Usable(places, native)' /\ Kept(places, native)' /\ Fresh'
  BY DEF CodexInv, CodexTypes, Usable, Saving, Kept, Fresh
<1> QED  BY <1>1, <1>2, <1>3, <1>4 DEF CodexInv

(* It takes what its place holds now.                                         *)
LEMMA AdoptKeeps ==
  ASSUME NEW places \in Nat, NEW native \in BOOLEAN, NEW sealed \in BOOLEAN,
         CodexInv(places, native, sealed),
         UNCHANGED <<stored, issued, accepted, r1, r2, r3, r4>>,
         probe' \in CodexProbe, Fresh', ~Saving, ~Saving',
         probe'.place = probe.place, probe.place \in 1..places,
         probe'.auth = stored[probe.place], probe'.revision = stored[probe.place],
         probe'.began = stored[probe.place].account,
         probe'.rejected \subseteq 0..issued
  PROVE  CodexInv(places, native, sealed)'
<1>1. CodexTypes(places)'
  BY DEF CodexInv, CodexTypes
<1>2. Issuing(places)' /\ Apart(places)' /\ OfRevision(places)' /\ Rotated(places, sealed)'
  BY DEF CodexInv, CodexTypes, Issuing, Whole, Apart, OfRevision, Rotated
<1>3. Usable(places, native)' /\ Kept(places, native)'
  BY DEF CodexInv, CodexTypes, Usable, Kept, Saving
<1> QED  BY <1>1, <1>2, <1>3 DEF CodexInv

(* A step of the probe on what it read and what its place holds now.          *)
LEMMA CodexGoes ==
  ASSUME NEW places \in Nat, NEW native \in BOOLEAN, NEW sealed \in BOOLEAN, NEW tokens \in Nat,
         CodexInv(places, native, sealed),
         \/ AnyCodex(places, native, sealed, tokens)!Begin /\ places > 0
         \/ AnyCodex(places, native, sealed, tokens)!NextPlace
         \/ \E readable \in BOOLEAN :
              \/ AnyCodex(places, native, sealed, tokens)!Load(readable)
              \/ AnyCodex(places, native, sealed, tokens)!ReloadAhead(readable)
              \/ AnyCodex(places, native, sealed, tokens)!ReloadAfter401(readable)
         \/ AnyCodex(places, native, sealed, tokens)!RefreshRefused
         \/ AnyCodex(places, native, sealed, tokens)!RefreshFailed
         \/ AnyCodex(places, native, sealed, tokens)!Compare
         \/ AnyCodex(places, native, sealed, tokens)!ReplaceFails
         \/ AnyCodex(places, native, sealed, tokens)!Fetch401
  PROVE  CodexInv(places, native, sealed)'
<1> USE DEF AnyCodex!Goes, AnyCodex!Idle, AnyCodex!Absent
<1>0. /\ probe \in CodexProbe /\ CodexTypes(places) /\ Fresh /\ probe.rejected \subseteq 0..issued
      /\ r2 \subseteq Nat
      /\ \A i \in 1..places : stored[i] \in Credentials
      /\ probe.phase # "idle" => probe.place \in 1..places
      /\ probe.auth.account = probe.began /\ probe.auth \in Credentials /\ probe.revision \in Credentials
      /\ probe.auth.access = probe.auth.refresh /\ probe.auth.refresh \in 0..issued
      /\ \A i \in 1..places : stored[i].access = stored[i].refresh /\ stored[i].refresh \in 0..issued
  BY DEF CodexInv, CodexTypes, OfRevision, Issuing, Whole, CodexProbe, Credentials
<1>a. /\ AnyCodex(places, native, sealed, tokens)!Idle \in CodexProbe
      /\ \A n \in Nat : [AnyCodex(places, native, sealed, tokens)!Idle EXCEPT !.phase = "load", !.place = n] \in CodexProbe
  BY DEF CodexProbe, Phase, Credentials, Account
<1>1. CASE AnyCodex(places, native, sealed, tokens)!Begin /\ places > 0
  <2>1. /\ probe' = [AnyCodex(places, native, sealed, tokens)!Idle EXCEPT !.phase = "load", !.place = 1]
        /\ probe.phase = "idle" /\ UNCHANGED <<stored, issued, accepted, r1, r2, r3, r4>>
    BY <1>1 DEF AnyCodex!Begin
  <2>2. /\ probe'.phase = "load" /\ probe'.place \in 1..places
        /\ probe'.auth = NoCredentials /\ probe'.revision = NoCredentials /\ probe'.began = "none"
        /\ probe'.rejected = {}
    BY <1>1, <2>1 DEF NoCredentials
  <2> QED  BY <1>0, <1>a, <2>1, <2>2, ResetKeeps DEF CodexTypes, Saving
<1>2. CASE AnyCodex(places, native, sealed, tokens)!NextPlace
  <2>1. /\ \/ probe' = AnyCodex(places, native, sealed, tokens)!Idle
           \/ /\ probe.place + 1 \in 1..places
              /\ probe' = [AnyCodex(places, native, sealed, tokens)!Idle EXCEPT !.phase = "load", !.place = probe.place + 1]
        /\ probe.phase = "failed" /\ UNCHANGED <<stored, issued, accepted, r1, r2, r3, r4>>
    BY <1>0, <1>2 DEF AnyCodex!NextPlace, AnyCodex!Goes
  <2>2. CASE probe' = AnyCodex(places, native, sealed, tokens)!Idle
    <3>1. /\ probe'.phase = "idle" /\ probe'.began = "none" /\ probe'.rejected = {}
          /\ probe'.auth = NoCredentials /\ probe'.revision = NoCredentials
      BY <2>2 DEF NoCredentials
    <3> QED  BY <1>0, <1>a, <2>1, <2>2, <3>1, ResetKeeps DEF CodexTypes, Saving
  <2>3. CASE probe' # AnyCodex(places, native, sealed, tokens)!Idle
    <3>1. /\ probe'.phase = "load" /\ probe'.place \in 1..places /\ probe'.began = "none"
          /\ probe'.rejected = {} /\ probe'.auth = NoCredentials /\ probe'.revision = NoCredentials
      BY <2>1, <2>3 DEF NoCredentials
    <3>2. probe' \in CodexProbe
      <4>1. probe.place + 1 \in Nat
        BY <2>1, <2>3
      <4> QED  BY <1>a, <2>1, <2>3, <4>1
    <3> QED  BY <1>0, <2>1, <3>1, <3>2, ResetKeeps DEF CodexTypes, Saving
  <2> QED  BY <2>2, <2>3
<1>3. CASE \E readable \in BOOLEAN : AnyCodex(places, native, sealed, tokens)!Load(readable)
  <2> PICK readable \in BOOLEAN : AnyCodex(places, native, sealed, tokens)!Load(readable)
    BY <1>3
  <2>1. probe.phase = "load" /\ probe.place \in 1..places /\ ~Saving
        /\ UNCHANGED <<stored, issued, accepted, r1, r2, r3, r4>>
    BY <1>0 DEF AnyCodex!Load, Saving
  <2>2. CASE ~readable \/ stored[probe.place] = NoCredentials
    <3>1. probe' = [probe EXCEPT !.phase = "failed"]
      BY <2>2 DEF AnyCodex!Load, NoCredentials
    <3>2. /\ probe' \in CodexProbe /\ probe'.phase = "failed" /\ probe'.place = probe.place
          /\ probe'.auth = probe.auth /\ probe'.revision = probe.revision /\ probe'.began = probe.began
          /\ probe'.rotated = probe.rotated /\ probe'.rejected = probe.rejected
          /\ probe'.stage = probe.stage
      BY <1>0, <3>1 DEF CodexProbe, Phase
    <3>3. Fresh' /\ ~Saving'
      BY <1>0, <3>2 DEF Fresh, Saving
    <3> QED  BY <1>0, <2>1, <3>2, <3>3, MovesKeep
  <2>3. CASE readable /\ stored[probe.place] # NoCredentials
    <3>1. \E p \in {"reload", "fetch"} :
            probe' = [AnyCodex(places, native, sealed, tokens)!Idle EXCEPT !.phase = p,
                        !.place = probe.place, !.auth = stored[probe.place],
                        !.revision = stored[probe.place], !.began = stored[probe.place].account]
      BY <2>3 DEF AnyCodex!Load, NoCredentials
    <3>2. /\ probe'.phase \in {"reload", "fetch"} /\ probe'.place = probe.place
          /\ probe'.auth = stored[probe.place] /\ probe'.revision = stored[probe.place]
          /\ probe'.began = stored[probe.place].account /\ probe'.rejected = {}
          /\ probe'.stage = "first"
      BY <3>1
    <3>4. probe' \in CodexProbe
      <4>1. stored[probe.place] \in Credentials /\ stored[probe.place].account \in Account
        BY <1>0, <2>1 DEF Credentials
      <4>2. AnyCodex(places, native, sealed, tokens)!Idle \in CodexProbe
        BY DEF AnyCodex!Idle, AnyCodex!Absent, CodexProbe, Phase, Credentials, Account
      <4>3. probe.place \in Nat
        BY <1>0 DEF CodexProbe
      <4> QED  BY <3>1, <4>1, <4>2, <4>3 DEF CodexProbe, Phase
    <3>3. Fresh' /\ ~Saving'
      BY <3>2 DEF Fresh, Saving
    <3> QED  BY <2>1, <3>2, <3>3, <3>4, AdoptKeeps
  <2> QED  BY <2>2, <2>3
<1> DEFINE current == stored[probe.place]
<1>4. ASSUME probe' = [probe EXCEPT !.phase = "failed"], probe.phase # "idle", ~Saving,
             UNCHANGED <<stored, issued, accepted, r1, r2, r3, r4>>
      PROVE  CodexInv(places, native, sealed)'
  <2>1. /\ probe' \in CodexProbe /\ probe'.phase = "failed" /\ probe'.place = probe.place
        /\ probe'.auth = probe.auth /\ probe'.revision = probe.revision /\ probe'.began = probe.began
        /\ probe'.rotated = probe.rotated /\ probe'.rejected = probe.rejected
        /\ probe'.stage = probe.stage
    BY <1>0, <1>4 DEF CodexProbe, Phase
  <2>2. Fresh' /\ ~Saving'
    BY <2>1 DEF Fresh, Saving
  <2> QED  BY <1>0, <1>4, <2>1, <2>2, MovesKeep
<1>5. ASSUME probe.phase \in {"reload", "retry"}, current # probe.auth,
             UNCHANGED <<stored, issued, accepted, r1, r2, r3, r4>>,
             probe' \in CodexProbe, probe'.phase \in {"refresh", "fetch"},
             probe'.stage = (IF probe.phase = "reload" THEN "proactive" ELSE "reloaded"),
             probe'.auth = current, probe'.revision = current, probe'.place = probe.place,
             probe'.began = current.account, probe'.rejected = probe.rejected
      PROVE  CodexInv(places, native, sealed)'
  <2>1. current.access # probe.auth.access
    BY <1>0, <1>5 DEF CodexInv, OfRevision
  <2>2. Fresh'
    BY <1>0, <1>5, <2>1 DEF Fresh
  <2> QED  BY <1>0, <1>5, <2>2, AdoptKeeps DEF Saving
<1>6. ASSUME ~Saving, probe.phase \notin {"idle", "load", "failed"},
             UNCHANGED <<stored, issued, accepted, r1, r2, r3, r4>>,
             probe' \in CodexProbe, probe'.phase \in {"refresh", "fetch"},
             probe'.stage \in {"proactive", "last"}, probe'.phase = "fetch" => probe'.stage = "proactive",
             probe'.stage = "proactive" => probe.stage \in {"first", "proactive"} /\ probe.phase # "retry",
             probe'.auth = probe.auth, probe'.revision = probe.revision, probe'.place = probe.place,
             probe'.began = probe.began, probe'.rejected = probe.rejected, probe'.rotated = probe.rotated
      PROVE  CodexInv(places, native, sealed)'
  <2>1. Fresh' /\ ~Saving'
    BY <1>0, <1>6 DEF Fresh, Saving
  <2> QED  BY <1>0, <1>6, <2>1, MovesKeep
<1> DEFINE adopted == AnyCodex(places, native, sealed, tokens)!Adopted(probe, current)
           conflict == AnyCodex(places, native, sealed, tokens)!Conflict(probe.auth, current)
<1>c. ASSUME probe.phase \in {"reload", "retry"}, ~conflict
      PROVE  /\ current \in Credentials
             /\ adopted = [probe EXCEPT !.auth = current, !.revision = current, !.began = current.account]
             /\ adopted \in CodexProbe
  <2>1. current \in Credentials
    BY <1>0, <1>c
  <2>2. CASE probe.auth.named
    <3>1. current.account = probe.began
      BY <1>0, <1>c, <2>2 DEF AnyCodex!Conflict
    <3> QED  BY <1>0, <2>1, <2>2, <3>1 DEF AnyCodex!Adopted, CodexProbe
  <2>3. CASE ~probe.auth.named
    BY <1>0, <2>1, <2>3 DEF AnyCodex!Adopted, CodexProbe, Credentials
  <2>4. adopted = [probe EXCEPT !.auth = current, !.revision = current, !.began = current.account]
    BY <2>2, <2>3
  <2>5. current.account \in Account
    BY <2>1 DEF Credentials
  <2> HIDE DEF current, adopted, conflict
  <2>6. adopted \in CodexProbe
    BY <1>0, <2>1, <2>4, <2>5 DEF CodexProbe
  <2> QED  BY <2>1, <2>4, <2>6
<1> HIDE DEF current, adopted, conflict
<1>7. CASE \E readable \in BOOLEAN : AnyCodex(places, native, sealed, tokens)!ReloadAhead(readable)
  <2>1. /\ probe.phase = "reload" /\ probe.stage = "first" /\ ~Saving
        /\ UNCHANGED <<stored, issued, accepted, r1, r2, r3, r4>>
    BY <1>0, <1>7 DEF AnyCodex!ReloadAhead, Saving, Fresh
  <2> DEFINE ahead(l, p) == [l EXCEPT !.phase = p, !.stage = "proactive"]
  <2>2. \/ probe' = [probe EXCEPT !.phase = "failed"]
        \/ /\ ~conflict /\ current # probe.auth
           /\ \E p \in {"refresh", "fetch"} : probe' = ahead(adopted, p)
        \/ \E p \in {"refresh", "fetch"} : probe' = ahead(probe, p)
    BY <1>7 DEF AnyCodex!ReloadAhead, AnyCodex!Reread, current, adopted, conflict
  <2>3. CASE probe' = [probe EXCEPT !.phase = "failed"]
    BY <1>4, <2>1, <2>3
  <2>4. CASE ~conflict /\ current # probe.auth /\ \E p \in {"refresh", "fetch"} : probe' = ahead(adopted, p)
    <3>2. PICK p \in {"refresh", "fetch"} : probe' = ahead(adopted, p)
      BY <2>4
    <3>3. /\ probe' \in CodexProbe /\ probe'.phase = p /\ probe'.stage = "proactive"
          /\ probe'.auth = current /\ probe'.revision = current /\ probe'.place = probe.place
          /\ probe'.began = current.account /\ probe'.rejected = probe.rejected
      <4>1. probe' \in CodexProbe
        BY <1>c, <2>1, <2>4, <3>2 DEF CodexProbe, Phase
      <4>2. adopted.auth = current /\ adopted.revision = current /\ adopted.began = current.account
            /\ adopted.place = probe.place /\ adopted.rejected = probe.rejected
        BY <1>0, <1>c, <2>1, <2>4 DEF CodexProbe
      <4>3. /\ probe'.phase = p /\ probe'.stage = "proactive" /\ probe'.auth = adopted.auth
            /\ probe'.revision = adopted.revision /\ probe'.place = adopted.place
            /\ probe'.began = adopted.began /\ probe'.rejected = adopted.rejected
        BY <1>c, <2>1, <2>4, <3>2 DEF CodexProbe
      <4> QED  BY <4>1, <4>2, <4>3
    <3> QED  BY <1>5, <2>1, <2>4, <3>3
  <2>5. CASE \E p \in {"refresh", "fetch"} : probe' = ahead(probe, p)
    <3>1. PICK p \in {"refresh", "fetch"} : probe' = ahead(probe, p)
      BY <2>5
    <3>2. /\ probe' \in CodexProbe /\ probe'.phase = p /\ probe'.stage = "proactive"
          /\ probe'.auth = probe.auth /\ probe'.revision = probe.revision /\ probe'.place = probe.place
          /\ probe'.began = probe.began /\ probe'.rejected = probe.rejected /\ probe'.rotated = probe.rotated
      BY <1>0, <3>1 DEF CodexProbe, Phase
    <3> QED  BY <1>6, <2>1, <3>2
  <2> QED  BY <2>2, <2>3, <2>4, <2>5
<1>8. CASE \E readable \in BOOLEAN : AnyCodex(places, native, sealed, tokens)!ReloadAfter401(readable)
  <2>1. /\ probe.phase = "retry" /\ ~Saving /\ UNCHANGED <<stored, issued, accepted, r1, r2, r3, r4>>
    BY <1>8 DEF AnyCodex!ReloadAfter401, Saving
  <2>2. \/ probe' = [probe EXCEPT !.phase = "failed"]
        \/ /\ ~conflict /\ current # probe.auth
           /\ probe' = [adopted EXCEPT !.phase = "fetch", !.stage = "reloaded", !.refused = FALSE]
        \/ probe' = [probe EXCEPT !.phase = "refresh", !.stage = "last"]
    BY <1>8 DEF AnyCodex!ReloadAfter401, AnyCodex!Reread, current, adopted, conflict
  <2>3. CASE probe' = [probe EXCEPT !.phase = "failed"]
    BY <1>4, <2>1, <2>3
  <2>4. CASE ~conflict /\ current # probe.auth
             /\ probe' = [adopted EXCEPT !.phase = "fetch", !.stage = "reloaded", !.refused = FALSE]
    <3>3. /\ probe' \in CodexProbe /\ probe'.phase = "fetch" /\ probe'.stage = "reloaded"
          /\ probe'.auth = current /\ probe'.revision = current /\ probe'.place = probe.place
          /\ probe'.began = current.account /\ probe'.rejected = probe.rejected
      BY <1>0, <1>c, <2>1, <2>4 DEF CodexProbe, Phase, Credentials
    <3> QED  BY <1>5, <2>1, <2>4, <3>3
  <2>5. CASE probe' = [probe EXCEPT !.phase = "refresh", !.stage = "last"]
    <3>2. /\ probe' \in CodexProbe /\ probe'.phase = "refresh" /\ probe'.stage = "last"
          /\ probe'.auth = probe.auth /\ probe'.revision = probe.revision /\ probe'.place = probe.place
          /\ probe'.began = probe.began /\ probe'.rejected = probe.rejected /\ probe'.rotated = probe.rotated
      BY <1>0, <2>5 DEF CodexProbe, Phase
    <3> QED  BY <1>6, <2>1, <3>2
  <2> QED  BY <2>2, <2>3, <2>4, <2>5
<1>9. CASE AnyCodex(places, native, sealed, tokens)!RefreshRefused \/ AnyCodex(places, native, sealed, tokens)!RefreshFailed
  <2>1. /\ probe.phase = "refresh" /\ ~Saving /\ UNCHANGED <<stored, issued, accepted, r1, r2, r3, r4>>
        /\ \E rf \in BOOLEAN : probe' = AnyCodex(places, native, sealed, tokens)!WithoutToken(rf)
    BY <1>9 DEF AnyCodex!RefreshRefused, AnyCodex!RefreshFailed, Saving
  <2>2. CASE probe.stage # "proactive"
    BY <1>4, <2>1, <2>2 DEF AnyCodex!WithoutToken
  <2>3. CASE probe.stage = "proactive"
    <3>1. PICK rf \in BOOLEAN : probe' = [probe EXCEPT !.phase = "fetch", !.refused = rf]
      BY <2>1, <2>3 DEF AnyCodex!WithoutToken
    <3>2. /\ probe' \in CodexProbe /\ probe'.phase = "fetch" /\ probe'.stage = probe.stage
          /\ probe'.auth = probe.auth /\ probe'.revision = probe.revision /\ probe'.place = probe.place
          /\ probe'.began = probe.began /\ probe'.rejected = probe.rejected /\ probe'.rotated = probe.rotated
      BY <1>0, <3>1 DEF CodexProbe, Phase
    <3> QED  BY <1>6, <2>1, <2>3, <3>2
  <2> QED  BY <2>2, <2>3
<1>10. CASE AnyCodex(places, native, sealed, tokens)!Compare
  <2>1. PICK p \in {"replace", "fetch"} :
          /\ probe' = [probe EXCEPT !.phase = p, !.spent = IF p = "replace" THEN @ ELSE {}]
          /\ p = "replace" <=> ~sealed /\ (~native \/ current = probe.revision)
    <3>1. CASE ~sealed /\ (~native \/ current = probe.revision)
      <4>1. probe' = [probe EXCEPT !.phase = "replace"]
        BY <1>10, <3>1 DEF AnyCodex!Compare, current
      <4>2. probe' = [probe EXCEPT !.phase = "replace", !.spent = probe.spent]
        BY <1>0, <4>1 DEF CodexProbe
      <4> QED  BY <3>1, <4>2
    <3>2. CASE ~(~sealed /\ (~native \/ current = probe.revision))
      BY <1>10, <3>2 DEF AnyCodex!Compare, current
    <3> QED  BY <3>1, <3>2
  <2>2. /\ probe' \in CodexProbe /\ probe'.phase = p /\ probe'.stage = probe.stage
        /\ probe'.auth = probe.auth /\ probe'.revision = probe.revision /\ probe'.place = probe.place
        /\ probe'.began = probe.began /\ probe'.rejected = probe.rejected /\ probe'.rotated = probe.rotated
        /\ p = "replace" => probe'.spent = probe.spent
    BY <1>0, <2>1 DEF CodexProbe, Phase
  <2>3. /\ probe.phase = "compare" /\ Saving /\ ~sealed /\ probe.auth.access \notin probe.rejected
        /\ UNCHANGED <<stored, issued, accepted, r1, r2, r3, r4>>
    BY <1>10 DEF AnyCodex!Compare, CodexInv, Rotated, Saving
  <2>4. Fresh' /\ (Saving' <=> p = "replace")
    BY <1>0, <2>2, <2>3 DEF Fresh, Saving
  <2> QED  BY <1>0, <2>1, <2>2, <2>3, <2>4, MovesKeep DEF current, CodexTypes
<1>12. CASE AnyCodex(places, native, sealed, tokens)!ReplaceFails
  <2>1. /\ probe.phase = "replace" /\ probe' = [probe EXCEPT !.phase = "fetch", !.spent = {}]
        /\ r2' = r2 \cup probe.spent /\ UNCHANGED <<stored, issued, accepted, r1, r3, r4>>
    BY <1>12 DEF AnyCodex!ReplaceFails
  <2>2. /\ probe' \in CodexProbe /\ probe'.phase = "fetch" /\ probe'.stage = probe.stage
        /\ probe'.auth = probe.auth /\ probe'.revision = probe.revision /\ probe'.place = probe.place
        /\ probe'.began = probe.began /\ probe'.rejected = probe.rejected /\ probe'.rotated = probe.rotated
    BY <1>0, <2>1 DEF CodexProbe, Phase
  <2>3. /\ r2' \subseteq Nat /\ r2 \subseteq r2' /\ probe.spent \subseteq r2'
        /\ probe.auth.access \notin probe.rejected /\ Saving
    BY <1>0, <2>1 DEF CodexTypes, CodexProbe, CodexInv, Rotated, Saving
  <2>4. Fresh' /\ ~Saving'
    BY <1>0, <2>1, <2>2, <2>3 DEF Fresh, Saving
  <2> QED  BY <1>0, <2>1, <2>2, <2>3, <2>4, MovesKeep
<1>11. CASE AnyCodex(places, native, sealed, tokens)!Fetch401
  <2> DEFINE l == [probe EXCEPT !.rejected = @ \cup {probe.auth.access}]
  <2>1. /\ probe.phase = "fetch" /\ ~Saving /\ UNCHANGED <<stored, issued, accepted, r1, r2, r3, r4>>
        /\ probe.stage \in {"first", "proactive", "reloaded", "last"}
    BY <1>0, <1>11 DEF AnyCodex!Fetch401, Saving, CodexProbe
  <2>2. l \in CodexProbe /\ l.rejected = probe.rejected \cup {probe.auth.access}
        /\ l.auth = probe.auth /\ l.revision = probe.revision /\ l.place = probe.place
        /\ l.began = probe.began /\ l.stage = probe.stage /\ l.rotated = probe.rotated
    BY <1>0 DEF CodexProbe, Credentials
  <2>3. l.rejected \subseteq 0..issued
    BY <1>0, <2>2
  <2>4. \E p \in {"retry", "refresh", "failed"}, st \in {"first", "proactive", "reloaded", "last"} :
          /\ probe' = [l EXCEPT !.phase = p, !.stage = st]
          /\ p = "retry" => probe.stage \in {"first", "proactive"}
          /\ p = "refresh" => st = "last"
    <3>1. CASE probe.stage \in {"first", "proactive"}
      <4>1. probe' = [l EXCEPT !.phase = "retry"]
        BY <1>11, <3>1 DEF AnyCodex!Fetch401
      <4>2. probe' = [l EXCEPT !.phase = "retry", !.stage = probe.stage]
        BY <2>2, <4>1 DEF CodexProbe
      <4> QED  BY <3>1, <4>2
    <3>2. CASE probe.stage = "reloaded"
      BY <1>11, <3>2 DEF AnyCodex!Fetch401
    <3>3. CASE probe.stage = "last"
      <4>1. probe' = [l EXCEPT !.phase = "failed"]
        BY <1>11, <3>3 DEF AnyCodex!Fetch401
      <4>2. probe' = [l EXCEPT !.phase = "failed", !.stage = probe.stage]
        BY <2>2, <4>1 DEF CodexProbe
      <4> QED  BY <3>3, <4>2
    <3> QED  BY <2>1, <3>1, <3>2, <3>3
  <2> HIDE DEF l
  <2>7. PICK p \in {"retry", "refresh", "failed"}, st \in {"first", "proactive", "reloaded", "last"} :
          /\ probe' = [l EXCEPT !.phase = p, !.stage = st]
          /\ p = "retry" => probe.stage \in {"first", "proactive"}
          /\ p = "refresh" => st = "last"
    BY <2>4
  <2>5. /\ probe' \in CodexProbe /\ probe'.phase = p /\ probe'.stage = st
        /\ probe'.auth = probe.auth /\ probe'.revision = probe.revision /\ probe'.place = probe.place
        /\ probe'.began = probe.began /\ probe'.rejected = l.rejected /\ probe'.rotated = probe.rotated
    BY <2>2, <2>7 DEF CodexProbe, Phase
  <2>6. Fresh' /\ ~Saving'
    BY <1>0, <2>1, <2>2, <2>7, <2>5 DEF Fresh, Saving
  <2> QED  BY <1>0, <2>1, <2>3, <2>5, <2>6, MovesKeep
<1> QED  BY <1>1, <1>2, <1>3, <1>7, <1>8, <1>9, <1>10, <1>11, <1>12

(* The server rotates; the answer may be lost.                                *)
LEMMA RotateKeeps ==
  ASSUME NEW places \in Nat, NEW native \in BOOLEAN, NEW sealed \in BOOLEAN, NEW tokens \in Nat,
         CodexInv(places, native, sealed), NEW arrives \in BOOLEAN,
         AnyCodex(places, native, sealed, tokens)!Rotate(arrives)
  PROVE  CodexInv(places, native, sealed)'
<1> USE DEF AnyCodex!Rotate
<1> DEFINE new == issued + 1
<1>1. /\ probe \in CodexProbe /\ issued \in Nat /\ accepted \subseteq 1..issued
      /\ probe.phase = "refresh" /\ ~Saving /\ probe.auth.refresh \in accepted /\ ~sealed
      /\ probe.auth \in Credentials /\ probe.place \in 1..places
  BY DEF CodexInv, CodexTypes, CodexProbe, Saving
<1>2. /\ UNCHANGED <<stored, r1, r4>> /\ issued' = new /\ new \in Nat /\ new > issued
      /\ accepted' = (accepted \ {probe.auth.refresh}) \cup {new} /\ accepted' \subseteq 1..new
  BY <1>1
<1>3. \A c \in Credentials : Whole(c) => Whole(c)' /\ c.refresh # new /\ c.access # new
  BY <1>1, <1>2 DEF Whole, Credentials
<1>4. \A i \in 1..places : stored[i] \in Credentials /\ Whole(stored[i])
  BY DEF CodexInv, CodexTypes, Issuing
<1>5. probe.revision \in Credentials /\ Whole(probe.revision) /\ Whole(probe.auth)
  BY <1>1 DEF CodexInv, Issuing, CodexProbe
<1> HIDE DEF new
<1>6. CASE arrives
  <2>1. /\ probe' = [probe EXCEPT !.phase = "compare", !.rotated = TRUE,
                         !.spent = {probe.auth.refresh},
                         !.auth = [@ EXCEPT !.access = new, !.refresh = new]]
        /\ r2' = r2 /\ r3' = (r3 \/ probe.rotated)
    BY <1>6 DEF new
  <2>2. /\ probe' \in CodexProbe /\ probe'.phase = "compare" /\ probe'.rotated /\ probe'.place = probe.place
        /\ probe'.revision = probe.revision /\ probe'.began = probe.began /\ probe'.rejected = probe.rejected
        /\ probe'.auth \in Credentials /\ probe'.auth.access = new /\ probe'.auth.refresh = new
        /\ probe'.auth.account = probe.auth.account /\ probe'.stage = probe.stage
        /\ probe'.spent = {probe.auth.refresh}
    BY <1>1, <1>2, <2>1 DEF CodexProbe, Phase, Credentials
  <2>3. CodexTypes(places)'
    BY <1>1, <1>2, <2>1, <2>2 DEF CodexInv, CodexTypes
  <2>4. Issuing(places)'
    <3>1. \A i \in 1..places : Whole(stored[i])'
      BY <1>2, <1>3, <1>4 DEF Whole
    <3>2. Whole(probe.auth)'
      BY <1>1, <1>2, <2>2 DEF Whole
    <3>3. Whole(probe.revision)'
      BY <1>3, <1>5, <2>2 DEF Whole
    <3>4. (probe.rejected \subseteq 0..issued)'
      BY <1>1, <1>2, <2>2 DEF CodexInv, Issuing
    <3> QED  BY <3>1, <3>2, <3>3, <3>4 DEF Issuing
  <2>5. Apart(places)'
    BY <1>2, <1>3, <1>4, <2>2 DEF CodexInv, Apart
  <2>6. OfRevision(places)'
    BY <1>2, <1>3, <1>4, <1>5, <2>2 DEF CodexInv, OfRevision
  <2>7. Rotated(places, sealed)'
    <3>1. new \notin probe.rejected
      BY <1>1, <1>2 DEF CodexInv, Issuing
    <3> QED  BY <1>1, <1>2, <1>3, <1>4, <2>2, <3>1 DEF Rotated
  <2>8. Usable(places, native)'
    <3>1. ASSUME native => ~r3', NEW i \in 1..places, stored[i] # NoCredentials,
                 stored[i].refresh \notin accepted' \cup r2'
          PROVE  i = probe.place /\ (native => stored[i] = probe.revision) /\ stored[i].refresh = probe.auth.refresh
      <4>1. stored[i].refresh = probe.auth.refresh
        BY <1>1, <1>2, <2>1, <3>1 DEF CodexInv, Usable
      <4>2. i = probe.place
        <5>1. probe.auth.refresh # 0
          BY <1>1
        <5> QED  BY <4>1, <5>1 DEF CodexInv, Apart
      <4>3. ASSUME native PROVE stored[i] = probe.revision
        <5>1. ~probe.rotated
          BY <2>1, <3>1, <4>3
        <5> QED  BY <1>1, <4>1, <4>2, <5>1 DEF CodexInv, OfRevision
      <4> QED  BY <4>1, <4>2, <4>3
    <3> QED  BY <1>2, <2>2, <3>1 DEF Usable, Saving
  <2>9. Kept(places, native)' /\ Fresh'
    <3>1. Fresh'
      BY <1>1, <2>2 DEF CodexInv, Fresh
    <3> QED  BY <1>2, <2>2, <3>1 DEF CodexInv, Kept
  <2> QED  BY <2>3, <2>4, <2>5, <2>6, <2>7, <2>8, <2>9 DEF CodexInv
<1>7. CASE ~arrives
  <2>1. /\ probe' = AnyCodex(places, native, sealed, tokens)!WithoutToken(FALSE) /\ r3' = r3
        /\ r2' = r2 \cup {probe.auth.refresh}
    BY <1>7
  <2>2. /\ probe' \in CodexProbe /\ probe'.phase \in {"fetch", "failed"} /\ probe'.rotated = probe.rotated
        /\ probe'.revision = probe.revision /\ probe'.began = probe.began /\ probe'.rejected = probe.rejected
        /\ probe'.auth = probe.auth /\ probe'.place = probe.place /\ probe'.stage = probe.stage
        /\ probe'.phase = "fetch" => probe.stage = "proactive"
    BY <1>1, <2>1 DEF AnyCodex!WithoutToken, CodexProbe, Phase
  <2>3. CodexTypes(places)'
    <3>1. r2' \subseteq Nat
      BY <1>1, <2>1 DEF CodexInv, CodexTypes, Credentials
    <3> QED  BY <1>1, <1>2, <2>1, <2>2, <3>1 DEF CodexInv, CodexTypes
  <2>4. Issuing(places)'
    <3>1. \A i \in 1..places : Whole(stored[i])'
      BY <1>2, <1>3, <1>4 DEF Whole
    <3>2. Whole(probe.auth)' /\ Whole(probe.revision)'
      BY <1>1, <1>3, <1>5, <2>2 DEF Whole
    <3>3. (probe.rejected \subseteq 0..issued)'
      BY <1>1, <1>2, <2>2 DEF CodexInv, Issuing
    <3> QED  BY <3>1, <3>2, <3>3 DEF Issuing
  <2>5. Apart(places)' /\ OfRevision(places)'
    BY <1>2, <2>2 DEF CodexInv, Apart, OfRevision
  <2>6. Rotated(places, sealed)' /\ Usable(places, native)' /\ Kept(places, native)'
    <3>1. ~Saving' /\ probe'.phase # "replace"
      BY <2>2 DEF Saving
    <3>2. Rotated(places, sealed)'
      BY <3>1 DEF Rotated
    <3>3. Usable(places, native)'
      BY <1>1, <1>2, <2>1 DEF CodexInv, Usable
    <3>4. Kept(places, native)'
      BY <1>2, <3>1 DEF CodexInv, Kept
    <3> QED  BY <3>2, <3>3, <3>4
  <2>7. Fresh'
    BY <1>1, <2>2 DEF CodexInv, Fresh
  <2> QED  BY <2>3, <2>4, <2>5, <2>6, <2>7 DEF CodexInv
<1> QED  BY <1>6, <1>7

(* The rotated tokens reach the store.                                        *)
LEMMA ReplaceKeeps ==
  ASSUME NEW places \in Nat, NEW native \in BOOLEAN, NEW sealed \in BOOLEAN, NEW tokens \in Nat,
         CodexInv(places, native, sealed), AnyCodex(places, native, sealed, tokens)!Replace
  PROVE  CodexInv(places, native, sealed)'
<1> USE DEF AnyCodex!Replace, AnyCodex!Saved
<1>1. /\ probe \in CodexProbe /\ CodexTypes(places) /\ probe.phase = "replace" /\ Saving
      /\ probe.place \in 1..places /\ probe.auth \in Credentials
      /\ UNCHANGED <<issued, accepted, r1, r2, r3, r4>>
      /\ probe.auth.refresh \in accepted /\ ~sealed /\ probe.auth.access \notin probe.rejected
      /\ \A i \in 1..places : stored[i].refresh # probe.auth.refresh
  BY DEF CodexInv, CodexTypes, CodexProbe, Rotated, Saving
<1>2. /\ stored' \in [1..places -> Credentials]
      /\ \A i \in 1..places : stored'[i] = IF i = probe.place THEN probe.auth ELSE stored[i]
  BY <1>1 DEF CodexTypes
<1>3. /\ probe' \in CodexProbe /\ probe'.phase = "fetch" /\ probe'.stage = probe.stage
      /\ probe'.auth = probe.auth /\ probe'.revision = probe.revision /\ probe'.place = probe.place
      /\ probe'.began = probe.began /\ probe'.rejected = probe.rejected /\ probe'.rotated = probe.rotated
  BY <1>1 DEF CodexProbe, Phase
<1>4. CodexTypes(places)'
  BY <1>1, <1>2, <1>3 DEF CodexTypes
<1>5. Issuing(places)'
  BY <1>1, <1>2, <1>3 DEF CodexInv, Issuing, Whole
<1>6. Apart(places)' /\ OfRevision(places)'
  BY <1>1, <1>2, <1>3 DEF CodexInv, Apart, OfRevision
<1>7. Rotated(places, sealed)' /\ Fresh'
  BY <1>1, <1>3 DEF CodexInv, Rotated, Fresh, Saving
<1>8. Usable(places, native)'
  BY <1>1, <1>2, <1>3 DEF CodexInv, Usable
<1>9. Kept(places, native)'
  BY <1>1, <1>2, <1>3 DEF CodexInv, Kept
<1> QED  BY <1>4, <1>5, <1>6, <1>7, <1>8, <1>9 DEF CodexInv

LEMMA CodexKeeps ==
  ASSUME NEW places \in Nat \ {0}, NEW native \in BOOLEAN, NEW sealed \in BOOLEAN, NEW tokens \in Nat,
         CodexInv(places, native, sealed), AnyCodex(places, native, sealed, tokens)!Next
  PROVE  CodexInv(places, native, sealed)'
<1>0. places \in Nat /\ places > 0
  OBVIOUS
<1>1. CASE \E t \in 1..tokens : AnyCodex(places, native, sealed, tokens)!Age(t)
  <2>1. UNCHANGED <<stored, accepted, issued, probe, r1, r2, r3, r4>>
    BY <1>1 DEF AnyCodex!Age
  <2>2. CodexTypes(places)' /\ Issuing(places)'
    BY <2>1 DEF CodexInv, CodexTypes, Issuing, Whole
  <2>3. Apart(places)' /\ OfRevision(places)'
    BY <2>1 DEF CodexInv, Apart, OfRevision
  <2>4. Rotated(places, sealed)' /\ Usable(places, native)'
    BY <2>1 DEF CodexInv, Rotated, Usable, Saving
  <2>5. Kept(places, native)' /\ Fresh'
    BY <2>1 DEF CodexInv, Kept, Fresh
  <2> QED  BY <2>2, <2>3, <2>4, <2>5 DEF CodexInv
<1>2. CASE AnyCodex(places, native, sealed, tokens)!Die \/ AnyCodex(places, native, sealed, tokens)!FetchEnds
  <2>1. /\ probe' = AnyCodex(places, native, sealed, tokens)!Idle /\ UNCHANGED <<stored, issued, accepted, r1, r3, r4>>
        /\ r2' \subseteq Nat /\ r2 \subseteq r2' /\ (Saving => probe.spent \subseteq r2')
    BY <1>2 DEF AnyCodex!Die, AnyCodex!FetchEnds, AnyCodex!Goes, CodexInv, CodexTypes, CodexProbe, Saving
  <2>2. AnyCodex(places, native, sealed, tokens)!Idle \in CodexProbe
    BY DEF AnyCodex!Idle, AnyCodex!Absent, CodexProbe, Phase, Credentials, Account
  <2>3. /\ probe'.phase = "idle" /\ probe'.began = "none" /\ probe'.rejected = {}
        /\ probe'.auth = NoCredentials /\ probe'.revision = NoCredentials
    BY <2>1 DEF AnyCodex!Idle, AnyCodex!Absent, NoCredentials
  <2> QED  BY <1>0, <2>1, <2>2, <2>3, ResetKeeps
<1> QED
  BY <1>0, <1>1, <1>2, LogoutKeeps, OwnerKeepsCodex, CodexGoes, RotateKeeps, ReplaceKeeps
     DEF AnyCodex!Next, AnyCodex!Tokens

-----------------------------------------------------------------------------
(* The claude.ai session and the Admin reports.                            *)

(* While a report is read, its pages are those of cursors it gave, and the one *)
(* to ask for is none of them; the second report begins when the first is whole. *)
Reports == {"cost_report", "messages"}
RequestsInv ==
  /\ cache \in [Reports -> Seq(Cursors \cup {"first"})] /\ stale \in Reports
  /\ \A r \in Reports : \A i, j \in DOMAIN cache[r] : cache[r][i] = cache[r][j] => i = j
  /\ probe \in {"organizations", "usage", "account", "page"} =>
       /\ r3 \in r2 \cup {"first"} /\ r2 \subseteq Cursors
       /\ \A i \in DOMAIN cache[stale] : cache[stale][i] \in (r2 \cup {"first"}) \ {r3}
  /\ stale = "cost_report" => cache["messages"] = <<>>
  /\ stale = "messages" => cache["cost_report"] # <<>>
  /\ probe \notin {"shown", "thrown"} => r4 = {}
  /\ r4 \in {{}, {"admin"}, {"logs"}}
  /\ "admin" \in r4 => \A r \in Reports : cache[r] # <<>>

LEMMA RequestsStart == Requests!Init => RequestsInv
BY DEF Requests!Init, RequestsInv, Requests!Reports, Reports

(* A page is another of its report, and the report goes on, is whole or fails. *)
LEMMA PageAdds ==
  ASSUME RequestsInv, probe = "page", cache' = [cache EXCEPT ![stale] = Append(@, r3)]
  PROVE  /\ cache' \in [Reports -> Seq(Cursors \cup {"first"})] /\ cache'[stale] # <<>>
         /\ \A r \in Reports \ {stale} : cache'[r] = cache[r]
         /\ \A r \in Reports : \A i, j \in DOMAIN cache'[r] : cache'[r][i] = cache'[r][j] => i = j
         /\ \A i \in DOMAIN cache'[stale] : cache'[stale][i] \in r2 \cup {"first"}
<1> DEFINE old == cache[stale]
<1>1. /\ old \in Seq(Cursors \cup {"first"}) /\ stale \in Reports /\ r3 \in Cursors \cup {"first"}
      /\ r3 \in r2 \cup {"first"}
      /\ \A i \in DOMAIN old : old[i] \in (r2 \cup {"first"}) \ {r3}
      /\ \A i, j \in DOMAIN old : old[i] = old[j] => i = j
  BY DEF RequestsInv
<1>2. cache' = [cache EXCEPT ![stale] = Append(old, r3)]
  OBVIOUS
<1>3. cache'[stale] = Append(old, r3) /\ \A r \in Reports \ {stale} : cache'[r] = cache[r]
  BY <1>1, <1>2 DEF RequestsInv
<1> HIDE DEF old
<1>4. /\ Append(old, r3) \in Seq(Cursors \cup {"first"}) /\ Append(old, r3) # <<>>
      /\ DOMAIN old = 1..Len(old) /\ DOMAIN Append(old, r3) = 1..(Len(old) + 1) /\ Len(old) \in Nat
      /\ Append(old, r3)[Len(old) + 1] = r3
      /\ \A i \in 1..Len(old) : Append(old, r3)[i] = old[i]
  BY <1>1
<1>5. /\ \A i, j \in DOMAIN Append(old, r3) : Append(old, r3)[i] = Append(old, r3)[j] => i = j
      /\ \A i \in DOMAIN Append(old, r3) : Append(old, r3)[i] \in r2 \cup {"first"}
  BY <1>1, <1>4
<1>6. cache' \in [Reports -> Seq(Cursors \cup {"first"})]
  BY <1>1, <1>2, <1>4 DEF RequestsInv
<1>7. \A r \in Reports : \A i, j \in DOMAIN cache'[r] : cache'[r][i] = cache'[r][j] => i = j
  BY <1>3, <1>5 DEF RequestsInv
<1> QED  BY <1>3, <1>4, <1>5, <1>6, <1>7

LEMMA RequestsKeep == ASSUME RequestsInv, Requests!Next PROVE RequestsInv'
<1>1. CASE Requests!ListOrganizations
  BY <1>1 DEF Requests!ListOrganizations, Requests!Go, Requests!admin, RequestsInv
<1>2. CASE Requests!AskOrganization \/ Requests!NoOrganization
  BY <1>2 DEF Requests!AskOrganization, Requests!NoOrganization, Requests!Go, Requests!admin, RequestsInv
<1>3. CASE Requests!AskAccount
  <2>1. probe = "account" /\ probe' \in {"page", "logs"} /\ UNCHANGED <<stale, cache, r2, r3, r4>>
    BY <1>3 DEF Requests!AskAccount, Requests!Go, Requests!AfterQuota, Requests!admin
  <2> QED  BY <2>1 DEF RequestsInv
<1>4. CASE Requests!ReportFails
  BY <1>4 DEF Requests!ReportFails, Requests!Go, Requests!admin, RequestsInv
<1>5. CASE Requests!ReadLogs
  BY <1>5 DEF Requests!ReadLogs, Requests!Go, Requests!admin, RequestsInv
<1>6. CASE Requests!LastPage
  <2>1. probe = "page" /\ cache' = [cache EXCEPT ![stale] = Append(@, r3)] /\ stale \in Reports
    BY <1>6 DEF Requests!LastPage, RequestsInv
  <2>2. CASE stale = "cost_report"
    <3>1. stale' = "messages" /\ r2' = {} /\ r3' = "first" /\ probe' = probe /\ r4' = r4
      BY <1>6, <2>2 DEF Requests!LastPage
    <3>2. cache'["messages"] = <<>> /\ cache'["cost_report"] # <<>>
      BY <2>1, <2>2, PageAdds DEF RequestsInv, Reports
    <3>3. DOMAIN cache'["messages"] = {}
      BY <3>2
    <3> QED  BY <2>1, <3>1, <3>2, <3>3, PageAdds DEF RequestsInv, Reports
  <2>3. CASE stale = "messages"
    <3>1. /\ stale' = "messages" /\ r2' = r2 /\ r3' = r3 /\ probe' \in {"shown", "thrown", "logs"}
          /\ (r4' = {"admin"} /\ probe' = "shown") \/ r4' = r4
      BY <1>6, <2>3 DEF Requests!LastPage, Requests!Go
    <3>2. cache'["cost_report"] # <<>> /\ cache'["messages"] # <<>>
      BY <2>1, <2>3, PageAdds DEF RequestsInv, Reports
    <3> QED  BY <2>1, <2>3, <3>1, <3>2, PageAdds DEF RequestsInv, Reports
  <2> QED  BY <2>1, <2>2, <2>3 DEF Reports
<1>7. ASSUME NEW c \in Cursors, Requests!NextPage(c) PROVE RequestsInv'
  <2>1. /\ probe = "page" /\ cache' = [cache EXCEPT ![stale] = Append(@, r3)] /\ stale \in Reports
        /\ stale' = stale /\ r4' = r4 /\ r4 = {}
    BY <1>7 DEF Requests!NextPage, RequestsInv
  <2>2. \/ probe' \in {"thrown", "logs"} /\ r2' = r2 /\ r3' = r3
        \/ probe' = "page" /\ c \notin r2 /\ r3' = c /\ r2' = r2 \cup {c}
    BY <1>7, <2>1 DEF Requests!NextPage, Requests!Go
  <2>3. c # "first"
    BY Assumed DEF Requests!RequestsAssumption
  <2>4. /\ stale = "cost_report" => cache'["messages"] = <<>>
        /\ stale = "messages" => cache'["cost_report"] # <<>>
    BY <2>1, PageAdds DEF RequestsInv, Reports
  <2>6. probe' \in {"thrown", "logs", "page"}
    BY <2>2
  <2>5. probe' = "page" => /\ r3' \in r2' \cup {"first"} /\ r2' \subseteq Cursors
                           /\ \A i \in DOMAIN cache'[stale] : cache'[stale][i] \in (r2' \cup {"first"}) \ {r3'}
    BY <2>1, <2>2, <2>3, PageAdds DEF RequestsInv
  <2> QED  BY <2>1, <2>4, <2>5, <2>6, PageAdds DEF RequestsInv
<1> QED  BY <1>1, <1>2, <1>3, <1>4, <1>5, <1>6, <1>7 DEF Requests!Next

LEMMA SameSize == ASSUME NEW S PROVE Requests!Cardinality(S) = Cardinality(S)
BY DEF Requests!Cardinality, Cardinality

LEMMA RequestsHold ==
  RequestsInv => Requests!NoPageTwice /\ Requests!WholeReportsOnly /\ Requests!OneHistory
<1> SUFFICES ASSUME RequestsInv PROVE Requests!NoPageTwice /\ Requests!WholeReportsOnly /\ Requests!OneHistory
  OBVIOUS
<1>1. Cardinality({}) = 0 /\ Cardinality({"admin"}) = 1 /\ Cardinality({"logs"}) = 1
  BY FS_EmptySet, FS_Singleton
<1>2. Requests!OneHistory
  <2>1. r4 = {} \/ r4 = {"admin"} \/ r4 = {"logs"}
    BY DEF RequestsInv
  <2>2. Cardinality(r4) = 0 \/ Cardinality(r4) = 1
    BY <1>1, <2>1, Zenon
  <2>3. Cardinality(r4) <= 1
    BY <2>2
  <2> QED  BY <2>3, SameSize DEF Requests!OneHistory
<1> QED
  BY <1>2 DEF RequestsInv, Reports, Requests!Reports, Requests!NoPageTwice, Requests!WholeReportsOnly

-----------------------------------------------------------------------------
(* Copilot.                                                                *)

LEMMA More == ASSUME NEW n \in Nat PROVE n + 1 \in Nat
OBVIOUS

(* A probe asks with a token it found; it has no lines before the usage is read, *)
(* and the lines of the usage stay through what is asked besides.  The credits    *)
(* of an account without meters are told as text once its organizations are asked. *)
NoMeters(lines) == "Free Chat" \notin lines /\ "Credits" \notin lines /\ "Chat" \notin lines /\ "Completions" \notin lines
CopilotMeters ==
  /\ "Credits" \in probe.lines <=> probe.usage.credits = "metered"
  /\ "Chat" \in probe.lines <=> probe.usage.chat = "metered"
  /\ "Completions" \in probe.lines <=> probe.usage.completions = "metered"
  /\ "Free Chat" \in probe.lines
     <=> probe.usage.free /\ "Credits" \notin probe.lines /\ "Chat" \notin probe.lines /\ "Completions" \notin probe.lines
  /\ "Org Credits" \in probe.lines => probe.usage.billed /\ NoMeters(probe.lines)
CopilotTexts ==
  "Credits as text" \in probe.lines <=> probe.usage.billed /\ probe.usage.used /\ NoMeters(probe.lines)
CopilotProbe ==
  [phase : Copilot!Phases, source : Copilot!Sources \cup {"none"}, token : Nat, lines : SUBSET Copilot!Labels,
   usage : Copilot!AnyUsage, page : Nat]
CopilotInv ==
  /\ stored \in [Copilot!Sources -> Nat] /\ issued \in Nat /\ probe \in CopilotProbe
  /\ probe.phase \in {"ask", "fallback", "keep"} => probe.token # 0
  /\ probe.phase \in {"idle", "ask", "fallback", "keep", "read", "organization", "failed"} => probe.lines = {}
  /\ probe.phase \in {"organization", "budgets", "shown"} => CopilotMeters
  /\ probe.phase = "organization" => probe.usage.billed
  /\ probe.phase \in {"budgets", "shown"} => CopilotTexts

LEMMA CopilotIdles ==
  /\ Copilot!Idle \in CopilotProbe /\ Copilot!Idle.phase = "idle" /\ Copilot!Idle.lines = {}
<1>1. Copilot!NoUsage \in Copilot!AnyUsage
  BY DEF Copilot!NoUsage, Copilot!AnyUsage, Copilot!Quotas
<1> QED  BY <1>1 DEF Copilot!Idle, CopilotProbe, Copilot!Phases

LEMMA CopilotStarts == Copilot!Init => CopilotInv
<1> SUFFICES ASSUME Copilot!Init PROVE CopilotInv
  OBVIOUS
<1>1. stored \in [Copilot!Sources -> Nat] /\ issued \in Nat
  BY DEF Copilot!Init
<1>2. probe \in CopilotProbe /\ probe.phase = "idle" /\ probe.lines = {}
  BY CopilotIdles DEF Copilot!Init
<1> QED  BY <1>1, <1>2 DEF CopilotInv

(* The first source that holds a token.                                       *)
LEMMA FirstHolds ==
  ASSUME Copilot!First(Copilot!Sources) # "none"
  PROVE  /\ Copilot!First(Copilot!Sources) \in Copilot!Sources
         /\ stored[Copilot!First(Copilot!Sources)] # 0
<1> DEFINE found == {i \in DOMAIN Copilot!Order : Copilot!Order[i] \in Copilot!Sources /\ stored[Copilot!Order[i]] # 0}
           least == CHOOSE i \in found : \A j \in found : i <= j
<1>1. found # {} /\ Copilot!First(Copilot!Sources) = Copilot!Order[least]
  BY DEF Copilot!First
<1>2. DOMAIN Copilot!Order = {1, 2, 3, 4, 5}
  <2>1. Copilot!Order = <<"env", "keychain", "gh", "gh command", "file">>
    BY DEF Copilot!Order
  <2>2. DOMAIN <<"env", "keychain", "gh", "gh command", "file">> = 1..5
    OBVIOUS
  <2>3. 1..5 = {1, 2, 3, 4, 5}
    OBVIOUS
  <2> QED  BY <2>1, <2>2, <2>3
<1>5. found \subseteq {1, 2, 3, 4, 5}
  BY <1>2
<1>3. \E i \in found : \A j \in found : i <= j
  <2>1. CASE 1 \in found
    BY <1>5, <2>1
  <2>2. CASE 1 \notin found /\ 2 \in found
    BY <1>5, <2>2
  <2>3. CASE {1, 2} \cap found = {} /\ 3 \in found
    BY <1>5, <2>3
  <2>4. CASE {1, 2, 3} \cap found = {} /\ 4 \in found
    BY <1>5, <2>4
  <2>5. CASE {1, 2, 3, 4} \cap found = {}
    BY <1>1, <1>5, <2>5
  <2> QED  BY <2>1, <2>2, <2>3, <2>4, <2>5
<1>4. least \in found
  BY <1>3
<1> QED  BY <1>1, <1>4

(* A step that leaves the probe's usage behind, or has none yet.              *)
LEMMA CopilotRestarts ==
  ASSUME CopilotInv, stored' \in [Copilot!Sources -> Nat], issued' \in Nat, probe' \in CopilotProbe,
         probe'.phase \in {"idle", "read", "failed"}, probe'.lines = {}
  PROVE  CopilotInv'
BY DEF CopilotInv

(* The budgets come and go; the lines of the usage stay.                      *)
LEMMA CopilotEnds ==
  ASSUME CopilotInv, probe.phase = "budgets", UNCHANGED <<stored, issued>>, NEW copilot,
         \/ Copilot!WithoutBudgets
         \/ probe' = [probe EXCEPT !.page = @ + 1,
                                   !.lines = probe.lines \cup IF copilot THEN {"Budget"} ELSE {}]
         \/ Copilot!Show(probe.lines \cup IF copilot THEN {"Budget"} ELSE {})
  PROVE  CopilotInv'
<1> DEFINE more == probe.lines \cup IF copilot THEN {"Budget"} ELSE {}
           Like(lines) == /\ lines \subseteq Copilot!Labels
                          /\ \A l \in {"Credits", "Chat", "Completions", "Free Chat", "Credits as text", "Org Credits"} :
                                   l \in lines <=> l \in probe.lines
<1>1. probe \in CopilotProbe /\ CopilotMeters /\ CopilotTexts /\ probe.lines \subseteq Copilot!Labels /\ probe.page \in Nat
  BY DEF CopilotInv, CopilotProbe
<1>2. Like(more) /\ Like(Copilot!Complete(more)) /\ Like(Copilot!Complete(probe.lines \ {"Budget"}))
  BY <1>1 DEF Copilot!Complete, Copilot!Labels, Copilot!Paid
<1>3. ASSUME NEW lines, Like(lines),
             \/ probe' = [probe EXCEPT !.page = probe.page + 1, !.lines = lines]
             \/ probe' = [probe EXCEPT !.phase = "shown", !.lines = lines, !.page = 0]
      PROVE  CopilotInv'
  <2>1. /\ probe' \in CopilotProbe /\ probe'.lines = lines /\ probe'.usage = probe.usage
        /\ probe'.phase \in {"budgets", "shown"}
    <3>1. CASE probe' = [probe EXCEPT !.page = probe.page + 1, !.lines = lines]
      <4>0. probe.page \in Nat
        BY <1>1
      <4>1. probe.page + 1 \in Nat
        BY <4>0
      <4>4. lines \subseteq Copilot!Labels
        BY <1>3
      <4> HIDE DEF Like
      <4>2. probe' \in CopilotProbe
        BY <1>1, <3>1, <4>1, <4>4 DEF CopilotProbe
      <4>3. probe'.lines = lines /\ probe'.usage = probe.usage /\ probe'.phase = "budgets"
        BY <1>1, <3>1 DEF CopilotProbe
      <4> QED  BY <4>2, <4>3
    <3>2. CASE probe' = [probe EXCEPT !.phase = "shown", !.lines = lines, !.page = 0]
      BY <1>1, <1>3, <3>2 DEF CopilotProbe, Copilot!Phases
    <3> QED  BY <1>3, <3>1, <3>2
  <2>2. CopilotMeters' /\ CopilotTexts'
    <3>1. /\ "Credits" \in lines <=> "Credits" \in probe.lines
          /\ "Chat" \in lines <=> "Chat" \in probe.lines
          /\ "Completions" \in lines <=> "Completions" \in probe.lines
          /\ "Free Chat" \in lines <=> "Free Chat" \in probe.lines
          /\ "Credits as text" \in lines <=> "Credits as text" \in probe.lines
          /\ "Org Credits" \in lines <=> "Org Credits" \in probe.lines
      BY <1>3
    <3> HIDE DEF Like
    <3> QED  BY <1>1, <2>1, <3>1 DEF CopilotMeters, CopilotTexts, NoMeters
  <2> QED  BY <2>1, <2>2 DEF CopilotInv
<1> HIDE DEF Like, more
<1>4. CASE Copilot!WithoutBudgets
  BY <1>2, <1>3, <1>4 DEF Copilot!WithoutBudgets, Copilot!Show, Copilot!Goes
<1>5. CASE probe' = [probe EXCEPT !.page = @ + 1, !.lines = more]
  BY <1>2, <1>3, <1>5
<1>6. CASE Copilot!Show(more)
  BY <1>2, <1>3, <1>6 DEF Copilot!Show, Copilot!Goes
<1> QED  BY <1>4, <1>5, <1>6 DEF more

LEMMA CopilotKeeps == ASSUME CopilotInv, Copilot!Next PROVE CopilotInv'
<1>0. /\ stored \in [Copilot!Sources -> Nat] /\ issued \in Nat /\ probe \in CopilotProbe
      /\ probe.token \in Nat /\ {"env", "keychain", "gh", "gh command", "file"} = Copilot!Sources
  BY DEF CopilotInv, CopilotProbe, Copilot!Sources
<1>1. ASSUME NEW s \in {"env", "gh", "gh command"}, Copilot!SignIn(s) \/ Copilot!SignOut(s)
      PROVE  CopilotInv'
  <2>1. probe' = probe /\ issued' \in Nat /\ stored' \in [Copilot!Sources -> Nat]
    <3>1. CASE Copilot!SignIn(s)
      <4>1. issued' = issued + 1 /\ stored' = [stored EXCEPT ![s] = issued + 1] /\ probe' = probe
        BY <3>1 DEF Copilot!SignIn
      <4>2. issued \in Nat
        BY <1>0
      <4>3. issued + 1 \in Nat
        BY <4>2, More
      <4> QED  BY <1>0, <4>1, <4>3
    <3>2. CASE Copilot!SignOut(s)
      BY <1>0, <3>2 DEF Copilot!SignOut
    <3> QED  BY <1>1, <3>1, <3>2
  <2> QED  BY <2>1 DEF CopilotInv, CopilotMeters, CopilotTexts
<1>2. ASSUME NEW t, Copilot!Revoke(t) PROVE CopilotInv'
  BY <1>2 DEF CopilotInv, CopilotMeters, CopilotTexts, Copilot!Revoke
<1>3. CASE Copilot!Settle
  BY <1>3 DEF CopilotInv, CopilotMeters, CopilotTexts, Copilot!Settle
<1>4. CASE Copilot!Die \/ Copilot!Leave
  BY <1>0, <1>4, CopilotIdles, CopilotRestarts DEF Copilot!Die, Copilot!Leave, Copilot!Goes
<1>5. CASE Copilot!Begin
  <2> DEFINE s == Copilot!First(Copilot!Sources)
  <2>1. CASE s = "none"
    <3>1. probe' = [Copilot!Idle EXCEPT !.phase = "failed"] /\ UNCHANGED <<stored, issued>>
      BY <1>5, <2>1 DEF Copilot!Begin, Copilot!Goes
    <3>2. probe' \in CopilotProbe /\ probe'.phase = "failed" /\ probe'.lines = {}
      BY <3>1, CopilotIdles DEF CopilotProbe, Copilot!Phases
    <3> QED  BY <1>0, <3>1, <3>2, CopilotRestarts
  <2>2. CASE s # "none"
    <3>1. probe' = [Copilot!Idle EXCEPT !.phase = "ask", !.source = s, !.token = stored[s]]
          /\ UNCHANGED <<stored, issued>>
      BY <1>5, <2>2 DEF Copilot!Begin, Copilot!Goes
    <3>2. s \in Copilot!Sources /\ stored[s] # 0 /\ stored[s] \in Nat
      BY <1>0, <2>2, FirstHolds
    <3> HIDE DEF s
    <3>3. probe' \in CopilotProbe /\ probe'.phase = "ask" /\ probe'.lines = {} /\ probe'.token # 0
      BY <3>1, <3>2, CopilotIdles DEF CopilotProbe, Copilot!Phases
    <3> QED  BY <1>0, <3>1, <3>3 DEF CopilotInv
  <2> QED  BY <2>1, <2>2
<1>6. Copilot!Reading \in CopilotProbe /\ Copilot!Reading.phase = "read" /\ Copilot!Reading.lines = {}
  BY CopilotIdles DEF Copilot!Reading, CopilotProbe, Copilot!Phases
<1>7. probe.lines = {} => 
        Copilot!Failed \in CopilotProbe /\ Copilot!Failed.phase = "failed" /\ Copilot!Failed.lines = {}
  BY <1>0, CopilotIdles DEF Copilot!Failed, CopilotProbe, Copilot!Phases
<1>8. ASSUME NEW status, NEW deletes, NEW writes, Copilot!Ask(status, deletes, writes) PROVE CopilotInv'
  <2>1. probe.phase = "ask" /\ probe.lines = {} /\ probe.token # 0
    BY <1>8 DEF Copilot!Ask, CopilotInv
  <2>2. issued' = issued /\ stored' \in [Copilot!Sources -> Nat]
    <3>1. issued' = issued /\ (stored' = stored \/ stored' = Copilot!Cleared(deletes, writes))
      BY <1>8 DEF Copilot!Ask, Copilot!Goes
    <3> DEFINE gone == [stored EXCEPT !["keychain"] = IF deletes THEN 0 ELSE @]
    <3>3. gone \in [Copilot!Sources -> Nat]
      BY <1>0
    <3>4. Copilot!Cleared(deletes, writes) = [gone EXCEPT !["file"] = IF writes THEN 0 ELSE @]
      BY DEF Copilot!Cleared
    <3> HIDE DEF gone
    <3>5. Copilot!Cleared(deletes, writes) \in [Copilot!Sources -> Nat]
      <4>1. (IF writes THEN 0 ELSE gone["file"]) \in Nat
        BY <1>0, <3>3
      <4> QED  BY <3>3, <3>4, <4>1
    <3> QED  BY <1>0, <3>1, <3>5
  <2>3. \/ probe' = Copilot!Failed \/ probe' = Copilot!Reading
        \/ probe' = [probe EXCEPT !.phase = "keep"]
        \/ probe' = [probe EXCEPT !.phase = "fallback", !.token = stored["gh"], !.source = "gh"] /\ stored["gh"] # 0
    BY <1>8 DEF Copilot!Ask, Copilot!Goes, Copilot!Answered
  <2>4. CASE probe' = Copilot!Failed \/ probe' = Copilot!Reading
    BY <1>0, <1>6, <1>7, <2>1, <2>2, <2>4, CopilotRestarts
  <2>5. CASE probe' = [probe EXCEPT !.phase = "keep"]
    BY <1>0, <2>1, <2>2, <2>5 DEF CopilotInv, CopilotProbe, Copilot!Phases
  <2>6. CASE probe' = [probe EXCEPT !.phase = "fallback", !.token = stored["gh"], !.source = "gh"] /\ stored["gh"] # 0
    <3>1. probe' \in CopilotProbe /\ probe'.phase = "fallback" /\ probe'.lines = {} /\ probe'.token # 0
      BY <1>0, <2>1, <2>6 DEF CopilotProbe, Copilot!Phases
    <3> QED  BY <2>2, <3>1, <1>0 DEF CopilotInv
  <2> QED  BY <2>3, <2>4, <2>5, <2>6
<1>9. ASSUME NEW status, Copilot!AskFallback(status) PROVE CopilotInv'
  <2>1. probe.phase = "fallback" /\ probe.lines = {} /\ probe.token # 0 /\ UNCHANGED <<stored, issued>>
    BY <1>9 DEF Copilot!AskFallback, Copilot!Goes, CopilotInv
  <2>3. probe' = Copilot!Failed \/ probe' = Copilot!Reading \/ probe' = [probe EXCEPT !.phase = "keep"]
    BY <1>9 DEF Copilot!AskFallback, Copilot!Goes, Copilot!Answered
  <2>4. CASE probe' = Copilot!Failed \/ probe' = Copilot!Reading
    BY <1>0, <1>6, <1>7, <2>1, <2>4, CopilotRestarts
  <2>5. CASE probe' = [probe EXCEPT !.phase = "keep"]
    BY <1>0, <2>1, <2>5 DEF CopilotInv, CopilotProbe, Copilot!Phases
  <2> QED  BY <2>3, <2>4, <2>5
<1>10. ASSUME NEW keychain, NEW file, Copilot!Keep(keychain, file) PROVE CopilotInv'
  <2>1. stored' \in [Copilot!Sources -> Nat]
    BY <1>0, <1>10 DEF Copilot!Keep
  <2> QED  BY <1>0, <1>6, <1>10, <2>1, CopilotRestarts DEF Copilot!Keep
<1>11. ASSUME NEW usage \in Copilot!Usages, Copilot!Read(usage)
       PROVE  CopilotInv'
  <2> DEFINE paid == Copilot!PaidLines(usage)
             lines == paid \cup Copilot!FreeLines(usage, paid)
             then == IF lines = {} /\ usage.billed THEN "organization" ELSE "budgets"
  <2>1. /\ UNCHANGED <<stored, issued>>
        /\ probe' = [probe EXCEPT !.usage = usage, !.lines = lines, !.page = 1, !.phase = then]
    BY <1>11 DEF Copilot!Read, Copilot!Goes
  <2>2. /\ lines \subseteq Copilot!Labels
        /\ "Credits" \in lines <=> usage.credits = "metered"
        /\ "Chat" \in lines <=> usage.chat = "metered"
        /\ "Completions" \in lines <=> usage.completions = "metered"
        /\ "Org Credits" \notin lines /\ "Credits as text" \notin lines
    BY DEF Copilot!PaidLines, Copilot!FreeLines, Copilot!Metered, Copilot!Labels, Copilot!Paid
  <2>7. "Free Chat" \in lines
        <=> usage.free /\ "Credits" \notin lines /\ "Chat" \notin lines /\ "Completions" \notin lines
    BY DEF Copilot!PaidLines, Copilot!FreeLines, Copilot!Metered
  <2>8. lines # {} => ~NoMeters(lines)
    BY DEF Copilot!PaidLines, Copilot!FreeLines, Copilot!Metered, NoMeters
  <2>3. /\ then \in {"organization", "budgets"} /\ (then = "organization" => lines = {} /\ usage.billed)
        /\ then = "budgets" => lines # {} \/ ~usage.billed
    OBVIOUS
  <2> HIDE DEF paid, lines, then
  <2>4. probe' \in CopilotProbe
    <3>1. usage \in Copilot!AnyUsage
      BY DEF Copilot!Usages
    <3> QED  BY <1>0, <2>1, <2>2, <2>3, <3>1 DEF CopilotProbe, Copilot!Phases
  <2>5. probe'.phase = then /\ probe'.lines = lines /\ probe'.usage = usage
    BY <1>0, <2>1 DEF CopilotProbe
  <2>6. CopilotMeters'
    BY <2>2, <2>5, <2>7 DEF CopilotMeters
  <2>9. then = "budgets" => CopilotTexts'
    BY <2>2, <2>3, <2>5, <2>8 DEF CopilotTexts
  <2> QED  BY <1>0, <2>1, <2>3, <2>4, <2>5, <2>6, <2>9 DEF CopilotInv
<1>12. ASSUME NEW known \in BOOLEAN, Copilot!AskOrganizations(known) PROVE CopilotInv'
  <2> DEFINE lines == (IF probe.usage.used THEN {"Credits as text"} ELSE {})
                      \cup (IF known THEN {"Org Credits"} ELSE {})
  <2>1. /\ UNCHANGED <<stored, issued>> /\ probe.phase = "organization" /\ probe.lines = {}
        /\ probe' = [probe EXCEPT !.phase = "budgets", !.lines = lines]
    <3>1. /\ UNCHANGED <<stored, issued>> /\ probe.phase = "organization"
          /\ probe' = [probe EXCEPT !.phase = "budgets",
                                    !.lines = @ \cup (IF probe.usage.used THEN {"Credits as text"} ELSE {})
                                                \cup (IF known THEN {"Org Credits"} ELSE {})]
      BY <1>12 DEF Copilot!AskOrganizations, Copilot!Goes
    <3>2. probe.lines = {}
      BY <3>1 DEF CopilotInv
    <3> QED  BY <3>1, <3>2
  <2>2. CopilotMeters /\ probe.usage.billed
    BY <2>1 DEF CopilotInv
  <2>3. lines \subseteq Copilot!Labels /\ NoMeters(lines)
    BY DEF Copilot!Labels, NoMeters
  <2>6. "Credits as text" \in lines <=> probe.usage.used
    OBVIOUS
  <2> HIDE DEF lines
  <2>4. probe' \in CopilotProbe
    BY <1>0, <2>1, <2>3 DEF CopilotProbe, Copilot!Phases
  <2>5. probe'.phase = "budgets" /\ probe'.lines = lines /\ probe'.usage = probe.usage
    BY <1>0, <2>1 DEF CopilotProbe
  <2>7. CopilotMeters' /\ CopilotTexts'
    BY <2>1, <2>2, <2>3, <2>5, <2>6 DEF CopilotMeters, CopilotTexts, NoMeters
  <2> QED  BY <1>0, <2>1, <2>4, <2>5, <2>7 DEF CopilotInv
<1>13. ASSUME NEW page, NEW copilot, NEW more, Copilot!AskBudgets(page, copilot, more) PROVE CopilotInv'
  <2>1. UNCHANGED <<stored, issued>>
    BY <1>13 DEF Copilot!AskBudgets, Copilot!WithoutBudgets, Copilot!Show, Copilot!Goes
  <2>2. /\ probe.phase = "budgets"
        /\ \/ Copilot!WithoutBudgets
           \/ probe' = [probe EXCEPT !.page = @ + 1,
                                     !.lines = probe.lines \cup IF copilot THEN {"Budget"} ELSE {}]
           \/ Copilot!Show(probe.lines \cup IF copilot THEN {"Budget"} ELSE {})
    BY <1>13 DEF Copilot!AskBudgets, Copilot!Goes
  <2> QED  BY <2>1, <2>2, CopilotEnds
<1>14. CASE Copilot!NoBudgets
  <2>1. UNCHANGED <<stored, issued>>
    BY <1>14 DEF Copilot!NoBudgets, Copilot!WithoutBudgets, Copilot!Show, Copilot!Goes
  <2>2. probe.phase = "budgets" /\ Copilot!WithoutBudgets
    BY <1>14 DEF Copilot!NoBudgets
  <2> QED  BY <2>1, <2>2, CopilotEnds
<1>15. CASE Copilot!Unreadable
  BY <1>0, <1>7, <1>15, CopilotRestarts DEF Copilot!Unreadable, Copilot!Goes, CopilotInv
<1> QED
  BY <1>1, <1>2, <1>3, <1>4, <1>5, <1>8, <1>9, <1>10, <1>11, <1>12, <1>13, <1>14, <1>15
     DEF Copilot!Next, Copilot!ProbeStep, Copilot!Pages

LEMMA CopilotHolds == CopilotInv => Copilot!QuotasTold /\ Copilot!ExtrasLoseNothing
<1> SUFFICES ASSUME CopilotInv PROVE Copilot!QuotasTold /\ Copilot!ExtrasLoseNothing
  OBVIOUS
<1>1. Copilot!ExtrasLoseNothing
  BY DEF CopilotInv, Copilot!ExtrasLoseNothing
<1>2. ASSUME probe.phase = "shown" PROVE Copilot!QuotasTold
  <2>1. CopilotMeters /\ CopilotTexts
    BY <1>2 DEF CopilotInv
  <2>2. /\ probe.lines \cap Copilot!Paid = {}
           <=> "Credits" \notin probe.lines /\ "Chat" \notin probe.lines /\ "Completions" \notin probe.lines
        /\ probe.lines \cap Copilot!Meters = {} <=> NoMeters(probe.lines)
    BY DEF Copilot!Paid, Copilot!Meters, NoMeters
  <2> QED  BY <2>1, <2>2 DEF CopilotMeters, CopilotTexts, Copilot!QuotasTold
<1> QED  BY <1>1, <1>2 DEF Copilot!QuotasTold

(* A kept token goes when it is rejected and with nothing else.               *)
LEMMA CopilotDrops == ASSUME CopilotInv, Copilot!Next PROVE Copilot!OnlyRejectedDropped
<1>0. /\ stored \in [Copilot!Sources -> Nat] /\ issued \in Nat
      /\ {"env", "keychain", "gh", "gh command", "file"} = Copilot!Sources
  BY DEF CopilotInv, Copilot!Sources
<1> SUFFICES ASSUME NEW s \in {"keychain", "file"}, stored[s] # 0, stored'[s] = 0, probe.token \in accepted
             PROVE  FALSE
  BY DEF Copilot!OnlyRejectedDropped
<1>1. ASSUME NEW d \in {"env", "gh", "gh command"}, Copilot!SignIn(d) PROVE FALSE
  BY <1>0, <1>1 DEF Copilot!SignIn
<1>2. ASSUME NEW d \in {"env", "gh", "gh command"}, Copilot!SignOut(d) PROVE FALSE
  BY <1>0, <1>2 DEF Copilot!SignOut
<1>3. ASSUME NEW status, NEW deletes, NEW writes, Copilot!Ask(status, deletes, writes) PROVE FALSE
  <2>1. status \in {"ok", "down"}
    BY <1>3 DEF Copilot!Ask, Copilot!Statuses
  <2>2. stored' = stored
    BY <1>3, <2>1 DEF Copilot!Ask, Copilot!Clears, Copilot!Goes
  <2> QED  BY <2>2
<1>4. ASSUME NEW keychain, NEW file, Copilot!Keep(keychain, file) PROVE FALSE
  <2>1. /\ probe.token # 0
        /\ stored' = [stored EXCEPT !["keychain"] = IF keychain THEN probe.token ELSE @,
                                    !["file"] = IF file THEN probe.token ELSE @]
    BY <1>4 DEF Copilot!Keep, CopilotInv
  <2>2. CASE s = "keychain"
    BY <1>0, <2>1, <2>2
  <2>3. CASE s = "file"
    BY <1>0, <2>1, <2>3
  <2> QED  BY <2>2, <2>3
<1>5. stored' # stored
  OBVIOUS
<1> QED
  BY <1>1, <1>2, <1>3, <1>4, <1>5
     DEF Copilot!Next, Copilot!ProbeStep, Copilot!Revoke, Copilot!Settle, Copilot!Die, Copilot!Begin,
         Copilot!Leave, Copilot!NoBudgets, Copilot!AskFallback, Copilot!Read, Copilot!AskOrganizations,
         Copilot!Unreadable, Copilot!AskBudgets, Copilot!WithoutBudgets, Copilot!Show, Copilot!Goes

-----------------------------------------------------------------------------
(* Antigravity.                                                            *)

(* A probe of Antigravity: with a selected database it reads no other login, and *)
(* a denial it met is its verdict; a login is renewed on evidence of a rejection *)
(* or without a token to try, and passes over a refused one only.             *)
IsProbe(p) ==
  p \in [phase : {p.phase}, at : {p.at}, mine : {p.mine}, queue : {p.queue}, renewed : {p.renewed},
         answers : {p.answers}, down : {p.down}, verdict : {p.verdict}, denied : {p.denied},
         skipped : {p.skipped}, told : {p.told}]
Alone(p) ==
  r1 # "none" =>
    /\ p.at \in {"none", r1} /\ p.phase \notin {"ide", "agy process"}
    /\ p.phase \in {"ask", "refresh"} => ~p.denied
    /\ p.phase = "over" /\ p.denied => p.verdict = "denied"
    /\ p.phase = "failed" /\ p.denied => p.told = "denied"
Sound(p) ==
  /\ IsProbe(p) /\ p.denied \in BOOLEAN /\ Alone(p)
  /\ p.phase \in {"ask", "refresh"} => p.skipped = {}
  /\ p.phase = "refresh" => p.answers = {} \/ "auth" \in p.answers
  /\ p.verdict = "denied" \/ p.told = "denied" => p.denied
  /\ p.phase # "failed" => p.told = "none"
  /\ p.phase \in {"ide", "agy process"} => ~p.denied
AntigravityInv == stale = r5 /\ Sound(probe)

LEMMA IdleIsSound == Sound(Antigravity!Idle) /\ Antigravity!Idle.phase = "idle" /\ ~Antigravity!Idle.denied
                     /\ Antigravity!Idle.at = "none" /\ Antigravity!Idle.verdict = "none"
                     /\ Antigravity!Idle.skipped = {}
BY DEF Sound, IsProbe, Alone, Antigravity!Idle

LEMMA AntigravityStarts == Antigravity!Init => AntigravityInv
<1> SUFFICES ASSUME Antigravity!Init PROVE AntigravityInv
  OBVIOUS
<1>1. probe = Antigravity!Idle /\ stale = r5
  BY DEF Antigravity!Init
<1> QED  BY <1>1, IdleIsSound DEF AntigravityInv

LEMMA ShownIsSound == ASSUME NEW p, Sound(p) PROVE Sound(Antigravity!Shown(p)) /\ Antigravity!Shown(p).phase = "shown"
<1>1. Antigravity!Shown(p) = [Antigravity!Idle EXCEPT !.phase = "shown", !.at = p.at]
  BY DEF Antigravity!Shown
<1> DEFINE shown == Antigravity!Shown(p)
<1>2. IsProbe(shown)
  BY <1>1 DEF IsProbe, Antigravity!Idle
<1>3. /\ shown.phase = "shown" /\ shown.at = p.at /\ ~shown.denied /\ shown.denied \in BOOLEAN
      /\ shown.verdict = "none" /\ shown.told = "none"
  BY <1>1 DEF Antigravity!Idle
<1> HIDE DEF shown
<1>4. Alone(shown)
  BY <1>3 DEF Sound, Alone
<1> QED  BY <1>2, <1>3, <1>4 DEF Sound, shown

(* A probe fails with a denial it met, and with any that was its verdict.     *)
LEMMA FailsIsSound ==
  ASSUME NEW p, Sound(p), NEW why, why = "denied" => p.denied,
         r1 # "none" /\ p.denied => why = "denied"
  PROVE  Sound(Antigravity!Fails(p, why))
<1>1. Antigravity!Fails(p, why) =
        [Antigravity!Idle EXCEPT !.phase = "failed", !.at = p.at, !.denied = p.denied, !.told = why]
  BY DEF Antigravity!Fails
<1> DEFINE fails == Antigravity!Fails(p, why)
<1>2. IsProbe(fails)
  BY <1>1 DEF IsProbe, Antigravity!Idle, Sound
<1>3. /\ fails.phase = "failed" /\ fails.at = p.at /\ fails.denied = p.denied
      /\ fails.verdict = "none" /\ fails.told = why
  BY <1>1 DEF Antigravity!Idle
<1> HIDE DEF fails
<1>4. Alone(fails)
  BY <1>3 DEF Sound, Alone
<1> QED  BY <1>2, <1>3, <1>4 DEF Sound, fails

LEMMA ConcludedIsSound ==
  ASSUME NEW p, IsProbe(p), p.denied \in BOOLEAN, r1 # "none" => p.at \in {"none", r1},
         NEW verdict, verdict = "denied" \/ p.verdict = "denied" => p.denied,
         r1 # "none" /\ p.denied => verdict = "denied"
  PROVE  /\ Sound(Antigravity!Concluded(p, verdict)) /\ Antigravity!Concluded(p, verdict).phase = "over"
         /\ Antigravity!Concluded(p, verdict).skipped = {}
<1> DEFINE then == IF verdict = "none" THEN p.verdict ELSE verdict
<1>1. Antigravity!Concluded(p, verdict) =
        [Antigravity!Idle EXCEPT !.phase = "over", !.at = p.at, !.denied = p.denied, !.verdict = then]
  BY DEF Antigravity!Concluded
<1>2. (then = "denied" => p.denied) /\ (r1 # "none" /\ p.denied => then = "denied")
  OBVIOUS
<1> HIDE DEF then
<1> DEFINE q == Antigravity!Concluded(p, verdict)
<1>3. /\ IsProbe(q) /\ q.phase = "over" /\ q.at = p.at /\ q.denied = p.denied /\ q.verdict = then
      /\ q.skipped = {} /\ q.told = "none"
  BY <1>1 DEF IsProbe, Antigravity!Idle
<1> HIDE DEF q
<1>4. Sound(q)
  BY <1>2, <1>3 DEF Sound, Alone
<1> QED  BY <1>3, <1>4 DEF q

(* Another login is tried by its own tokens, whatever those before it answered. *)
LEMMA TriesIsSound ==
  ASSUME NEW p, Sound(p), NEW place, r1 # "none" => place = r1 /\ ~p.denied, p.told = "none"
  PROVE  Sound(Antigravity!Tries(p, place))
<1> DEFINE queue == Antigravity!Tried(place, stored[place])
           phase == IF queue = <<>> THEN "refresh" ELSE "ask"
<1>1. Antigravity!Tries(p, place) =
        [p EXCEPT !.at = place, !.mine = stored[place], !.queue = queue, !.renewed = FALSE,
                  !.phase = phase, !.answers = {}, !.down = {}, !.skipped = {}]
  BY DEF Antigravity!Tries
<1>2. phase \in {"refresh", "ask"}
  OBVIOUS
<1> HIDE DEF queue, phase
<1> DEFINE tries == Antigravity!Tries(p, place)
<1>3. /\ IsProbe(tries) /\ tries.phase = phase /\ tries.at = place /\ tries.denied = p.denied
      /\ tries.verdict = p.verdict /\ tries.skipped = {} /\ tries.answers = {} /\ tries.told = p.told
  BY <1>1 DEF Sound, IsProbe
<1> HIDE DEF tries
<1>4. Sound(tries)
  BY <1>2, <1>3 DEF Sound, Alone
<1> QED  BY <1>4 DEF tries

LEMMA SameSizeThere == ASSUME NEW S PROVE Antigravity!Cardinality(S) = Cardinality(S)
BY DEF Antigravity!Cardinality, Cardinality

LEMMA DatabasesAreSound ==
  ASSUME NEW p, Sound(p), p.told = "none", ~p.denied, r1 # "none" => p.at = "none"
  PROVE  Sound(Antigravity!FromDatabases(p))
<1>1. Antigravity!Databases # {} => 
        /\ (CHOOSE place \in Antigravity!Databases : TRUE) \in Antigravity!Databases
        /\ r1 # "none" => (CHOOSE place \in Antigravity!Databases : TRUE) = r1
  BY DEF Antigravity!Databases
<1>2. ASSUME r1 # "none" PROVE ~(Antigravity!Cardinality(Antigravity!Databases) > 1)
  <2>1. Antigravity!Databases = {} \/ Antigravity!Databases = {r1}
    BY <1>2 DEF Antigravity!Databases
  <2>2. Antigravity!Cardinality(Antigravity!Databases) = 0 \/ Antigravity!Cardinality(Antigravity!Databases) = 1
    BY <2>1, FS_EmptySet, FS_Singleton, SameSizeThere
  <2> QED  BY <2>2
<1>3. r1 = "none" => Sound(Antigravity!Fails(p, "select"))
  BY FailsIsSound
<1>4. Sound(Antigravity!Fails(p, "log in"))
  BY FailsIsSound
<1>5. Antigravity!Databases # {} => Sound(Antigravity!Tries(p, CHOOSE place \in Antigravity!Databases : TRUE))
  BY <1>1, TriesIsSound
<1>6. r1 = "none" => Sound([p EXCEPT !.phase = "agy process"])
  BY DEF Sound, IsProbe, Alone
<1> QED  BY <1>2, <1>3, <1>4, <1>5, <1>6 DEF Antigravity!FromDatabases

(* A step of the probe alone.                                                 *)
LEMMA ProbeGoes ==
  ASSUME AntigravityInv, NEW p, Sound(p), probe' = p, UNCHANGED <<r1, stale, r5>>
  PROVE  AntigravityInv'
BY DEF AntigravityInv, Sound, Alone, IsProbe

(* The answers of one login.                                                  *)
LEMMA AskKeeps == ASSUME AntigravityInv, NEW outcome, Antigravity!Ask(outcome) PROVE AntigravityInv'
<1> DEFINE token == Head(probe.queue)
           asked == [probe EXCEPT !.queue = Tail(probe.queue),
                                  !.answers = probe.answers \cup {outcome},
                                  !.denied = probe.denied \/ outcome = "denied",
                                  !.down = probe.down \cup IF outcome = "down" THEN {token} ELSE {}]
           ended == CASE outcome = "lines" -> Antigravity!Shown(asked)
                      [] outcome = "denied" -> Antigravity!Concluded(asked, "denied")
                      [] outcome = "empty" -> Antigravity!Concluded(asked, "empty")
                      [] OTHER -> asked
           last == IF "auth" = outcome \/ (probe.at = "agy" /\ "auth" \in asked.answers) THEN "auth" ELSE "none"
<1>1. /\ probe.phase = "ask" /\ UNCHANGED <<r1, stale, r5>> /\ Sound(probe)
      /\ probe' = IF ended.phase # "ask" \/ asked.queue # <<>> THEN ended
                  ELSE IF probe.renewed THEN Antigravity!Concluded(ended, last)
                  ELSE IF Antigravity!Refreshes(asked) THEN [ended EXCEPT !.phase = "refresh"]
                  ELSE Antigravity!Concluded(ended, "none")
  BY DEF Antigravity!Ask, Antigravity!Goes, Antigravity!files, Antigravity!server, AntigravityInv
<1>2. /\ IsProbe(asked) /\ asked.denied \in BOOLEAN /\ asked.phase = "ask" /\ asked.at = probe.at
      /\ (asked.denied <=> probe.denied \/ outcome = "denied") /\ asked.verdict = probe.verdict
      /\ asked.skipped = {} /\ asked.told = "none"
  BY <1>1 DEF Sound, IsProbe
<1>3. last \in {"auth", "none"}
  OBVIOUS
<1>4. /\ r1 # "none" => asked.at \in {"none", r1} /\ ~probe.denied
      /\ asked.verdict = "denied" => asked.denied
  BY <1>1, <1>2 DEF Sound, Alone
<1> HIDE DEF asked, last
<1>5. CASE outcome = "denied"
  <2>1. Sound(Antigravity!Concluded(asked, "denied")) /\ Antigravity!Concluded(asked, "denied").phase = "over"
    BY <1>2, <1>4, <1>5, ConcludedIsSound
  <2>2. ended = Antigravity!Concluded(asked, "denied")
    BY <1>5
  <2> HIDE DEF ended
  <2>3. probe' = ended
    BY <1>1, <2>1, <2>2
  <2> QED  BY <1>1, <2>1, <2>2, <2>3, ProbeGoes
<1>6. ASSUME outcome # "denied" PROVE Sound(asked)
  BY <1>1, <1>2, <1>4, <1>6 DEF Sound, Alone
<1>7. CASE outcome = "lines"
  <2>1. Sound(Antigravity!Shown(asked)) /\ Antigravity!Shown(asked).phase = "shown"
    BY <1>6, <1>7, ShownIsSound
  <2>2. ended = Antigravity!Shown(asked)
    BY <1>7
  <2> HIDE DEF ended
  <2>3. probe' = ended
    BY <1>1, <2>1, <2>2
  <2> QED  BY <1>1, <2>1, <2>2, <2>3, ProbeGoes
<1>8. CASE outcome = "empty"
  <2>1. Sound(Antigravity!Concluded(asked, "empty")) /\ Antigravity!Concluded(asked, "empty").phase = "over"
    BY <1>2, <1>4, <1>8, ConcludedIsSound
  <2>2. ended = Antigravity!Concluded(asked, "empty")
    BY <1>8
  <2> HIDE DEF ended
  <2>3. probe' = ended
    BY <1>1, <2>1, <2>2
  <2> QED  BY <1>1, <2>1, <2>2, <2>3, ProbeGoes
<1>9. CASE outcome \notin {"denied", "lines", "empty"}
  <2>1. ended = asked
    BY <1>9
  <2> HIDE DEF ended
  <2>2. \/ probe' = asked \/ probe' = Antigravity!Concluded(asked, last)
        \/ Antigravity!Refreshes(asked) /\ probe' = [asked EXCEPT !.phase = "refresh"]
        \/ probe' = Antigravity!Concluded(asked, "none")
    BY <1>1, <2>1
  <2>3. Sound(Antigravity!Concluded(asked, last)) /\ Sound(Antigravity!Concluded(asked, "none"))
    BY <1>2, <1>3, <1>4, <1>9, ConcludedIsSound
  <2>4. Antigravity!Refreshes(asked) => Sound([asked EXCEPT !.phase = "refresh"])
    BY <1>2, <1>4, <1>9 DEF Sound, Alone, IsProbe, Antigravity!Refreshes
  <2> QED  BY <1>1, <1>6, <1>9, <2>2, <2>3, <2>4, ProbeGoes
<1> QED  BY <1>5, <1>7, <1>8, <1>9

(* A refresh that gave nothing.                                               *)
LEMMA NotRefreshedIsSound ==
  ASSUME Sound(probe), probe.phase = "refresh"
  PROVE  /\ Sound(Antigravity!NotRefreshed(probe)) /\ Antigravity!NotRefreshed(probe).phase = "over"
         /\ Antigravity!NotRefreshed(probe).skipped = {}
<1> DEFINE verdict == IF probe.at = "agy" /\ "auth" \in probe.answers THEN "auth" ELSE "none"
<1>1. verdict \in {"auth", "none"}
  OBVIOUS
<1>2. Antigravity!NotRefreshed(probe) = Antigravity!Concluded(probe, verdict)
  BY DEF Antigravity!NotRefreshed
<1> HIDE DEF verdict
<1>3. /\ IsProbe(probe) /\ probe.denied \in BOOLEAN /\ (r1 # "none" => probe.at \in {"none", r1} /\ ~probe.denied)
      /\ probe.verdict = "denied" => probe.denied
  BY DEF Sound, Alone
<1> QED  BY <1>1, <1>2, <1>3, ConcludedIsSound

LEMMA AntigravityKeeps == ASSUME AntigravityInv, Antigravity!Next PROVE AntigravityInv'
<1> USE DEF Antigravity!files, Antigravity!server
<1>0. Sound(probe) /\ stale = r5
  BY DEF AntigravityInv
<1>1. ASSUME NEW p, NEW access, NEW refresh, Antigravity!SignIn(p, access, refresh) PROVE AntigravityInv'
  BY <1>0, <1>1 DEF Antigravity!SignIn, AntigravityInv, Sound, Alone, IsProbe
<1>2. ASSUME NEW t, Antigravity!Expire(t) \/ Antigravity!Reject(t) \/ Antigravity!Withdraw(t) PROVE AntigravityInv'
  BY <1>0, <1>2 DEF Antigravity!Expire, Antigravity!Reject, Antigravity!Withdraw, AntigravityInv, Sound, Alone, IsProbe
<1>3. CASE Antigravity!HourPasses
  BY <1>0, <1>3 DEF Antigravity!HourPasses, AntigravityInv, Sound, Alone, IsProbe
<1>4. CASE Antigravity!Die \/ Antigravity!Leave
  BY <1>4, IdleIsSound, ProbeGoes DEF Antigravity!Die, Antigravity!Leave, Antigravity!Goes
<1>5. CASE Antigravity!Begin
  <2>1. r1 = "none" => Sound([Antigravity!Idle EXCEPT !.phase = "ide"])
    BY IdleIsSound DEF Sound, Alone, IsProbe, Antigravity!Idle
  <2>2. Sound(Antigravity!FromDatabases(Antigravity!Idle))
    BY IdleIsSound, DatabasesAreSound DEF Sound
  <2> QED  BY <1>5, <2>1, <2>2, ProbeGoes DEF Antigravity!Begin, Antigravity!Goes
<1>6. ASSUME NEW outcome \in {"answers", "missing", "ambiguous"}, Antigravity!AskIde(outcome) PROVE AntigravityInv'
  <2>1. probe.phase = "ide" /\ r1 = "none" /\ probe.told = "none" /\ ~probe.denied
    BY <1>0, <1>6 DEF Antigravity!AskIde, Sound, Alone
  <2>2. /\ Sound(Antigravity!Shown(probe)) /\ Sound(Antigravity!Fails(probe, "select"))
        /\ Sound(Antigravity!FromDatabases(probe))
    BY <1>0, <2>1, ShownIsSound, FailsIsSound, DatabasesAreSound
  <2> QED  BY <1>6, <2>2, ProbeGoes DEF Antigravity!AskIde, Antigravity!Goes
<1>7. ASSUME NEW outcome \in {"answers", "missing", "ambiguous"}, Antigravity!AskAgyProcess(outcome)
      PROVE  AntigravityInv'
  <2>1. probe.phase = "agy process" /\ r1 = "none" /\ probe.told = "none" /\ ~probe.denied
    BY <1>0, <1>7 DEF Antigravity!AskAgyProcess, Sound, Alone
  <2>2. /\ Sound(Antigravity!Shown(probe)) /\ Sound(Antigravity!Fails(probe, "select"))
        /\ Sound(Antigravity!Tries(probe, "agy"))
    BY <1>0, <2>1, ShownIsSound, FailsIsSound, TriesIsSound
  <2> QED  BY <1>7, <2>2, ProbeGoes DEF Antigravity!AskAgyProcess, Antigravity!Goes
<1>8. CASE Antigravity!Over
  <2>1. probe.phase = "over" /\ probe.told = "none" /\ (probe.verdict = "denied" => probe.denied)
        /\ (r1 # "none" /\ probe.denied => probe.verdict = "denied")
    BY <1>0, <1>8 DEF Antigravity!Over, Sound, Alone
  <2>2. r1 = "none" => Sound(Antigravity!Tries(probe, "agy"))
    BY <1>0, <2>1, TriesIsSound
  <2>3. Sound(Antigravity!Fails(probe, IF probe.verdict = "denied" THEN "denied" ELSE "log in"))
    BY <1>0, <2>1, FailsIsSound
  <2>4. Sound(Antigravity!Successor(probe))
    BY <2>2, <2>3 DEF Antigravity!Successor
  <2> QED  BY <1>8, <2>4, ProbeGoes DEF Antigravity!Over, Antigravity!Goes
<1>9. CASE Antigravity!RefreshSkipped
  <2> DEFINE gone == {probe.mine.refresh} \ {0}
             ends == Antigravity!NotRefreshed(probe)
  <2>1. /\ UNCHANGED <<r1, stale, r5>> /\ Sound(ends) /\ ends.phase = "over"
        /\ probe' = [ends EXCEPT !.skipped = gone]
    BY <1>0, <1>9, NotRefreshedIsSound DEF Antigravity!RefreshSkipped, Antigravity!Goes
  <2> HIDE DEF ends, gone
  <2>2. Sound([ends EXCEPT !.skipped = gone])
    BY <2>1 DEF Sound, IsProbe, Alone
  <2> QED  BY <2>1, <2>2, ProbeGoes
<1>10. CASE Antigravity!RefreshFails
  BY <1>0, <1>10, NotRefreshedIsSound, ProbeGoes DEF Antigravity!RefreshFails, Antigravity!Presents, Antigravity!Goes
<1>11. ASSUME NEW writes, Antigravity!RefreshRefused(writes) PROVE AntigravityInv'
  <2>1. /\ probe' = Antigravity!NotRefreshed(probe) /\ r1' = r1 /\ stale' = r5'
        /\ Sound(Antigravity!NotRefreshed(probe))
    BY <1>0, <1>11, NotRefreshedIsSound DEF Antigravity!RefreshRefused, Antigravity!Presents, Antigravity!Records
  <2> HIDE DEF Antigravity!NotRefreshed
  <2> QED  BY <2>1 DEF AntigravityInv, Sound, Alone, IsProbe
<1>12. ASSUME NEW writes, Antigravity!Refresh(writes) PROVE AntigravityInv'
  <2>1. /\ probe' = [probe EXCEPT !.phase = "ask", !.queue = <<issued + 1>>, !.renewed = TRUE]
        /\ probe.phase = "refresh" /\ UNCHANGED <<r1, stale, r5>>
    BY <1>12 DEF Antigravity!Refresh, Antigravity!Presents
  <2>2. Sound([probe EXCEPT !.phase = "ask", !.queue = <<issued + 1>>, !.renewed = TRUE])
    BY <1>0, <2>1 DEF Sound, IsProbe, Alone
  <2> QED  BY <2>1, <2>2, ProbeGoes
<1> QED
  BY <1>1, <1>2, <1>3, <1>4, <1>5, <1>6, <1>7, <1>8, <1>9, <1>10, <1>11, <1>12, AskKeeps
     DEF Antigravity!Next, Antigravity!ProbeStep

LEMMA AntigravityHolds ==
  AntigravityInv => Antigravity!SelectedAlone /\ Antigravity!DenialToldApart
BY DEF AntigravityInv, Sound, Alone, Antigravity!SelectedAlone, Antigravity!DenialToldApart

(* While the service is down no login is renewed, a refused one not within the *)
(* hour; and nothing else is passed over.                                     *)
LEMMA AntigravitySpares ==
  ASSUME AntigravityInv
  PROVE  Antigravity!NoRefreshOnOutage /\ Antigravity!CooldownKept
<1>1. stale = r5 /\ (probe.phase = "refresh" => probe.answers # {"down"})
  <2>1. "auth" \notin {"down"} /\ {"down"} # {}
    OBVIOUS
  <2> QED  BY <2>1 DEF AntigravityInv, Sound
<1> QED
  BY <1>1 DEF Antigravity!NoRefreshOnOutage, Antigravity!CooldownKept, Antigravity!Presented,
              Antigravity!Presents, Antigravity!Cooling

LEMMA AntigravityTries ==
  ASSUME AntigravityInv, Antigravity!Next PROVE Antigravity!FreshLoginTried
<1> USE DEF Antigravity!files, Antigravity!server
<1>0. Sound(probe) /\ stale = r5
  BY DEF AntigravityInv
<1> SUFFICES ASSUME probe.phase = "refresh" PROVE probe'.skipped \subseteq r5
  BY DEF Antigravity!FreshLoginTried
<1>1. probe.skipped = {}
  BY <1>0 DEF Sound
<1>2. CASE probe' = probe
  BY <1>1, <1>2
<1>3. CASE Antigravity!Die
  BY <1>3, IdleIsSound DEF Antigravity!Die
<1>4. CASE Antigravity!RefreshSkipped
  <2>1. /\ probe' = [Antigravity!NotRefreshed(probe) EXCEPT !.skipped = {probe.mine.refresh} \ {0}]
        /\ probe.mine.refresh = 0 \/ probe.mine.refresh \in stale
    BY <1>4 DEF Antigravity!RefreshSkipped, Antigravity!Goes, Antigravity!Cooling
  <2>2. IsProbe(Antigravity!NotRefreshed(probe))
    BY <1>0, NotRefreshedIsSound DEF Sound
  <2> HIDE DEF Antigravity!NotRefreshed
  <2>3. probe'.skipped = {probe.mine.refresh} \ {0}
    BY <2>1, <2>2 DEF IsProbe
  <2> QED  BY <1>0, <2>1, <2>3
<1>5. ASSUME NEW writes, Antigravity!RefreshFails \/ Antigravity!RefreshRefused(writes) PROVE probe'.skipped \subseteq r5
  BY <1>0, <1>5, NotRefreshedIsSound DEF Antigravity!RefreshFails, Antigravity!RefreshRefused, Antigravity!Goes
<1>6. ASSUME NEW writes, Antigravity!Refresh(writes) PROVE probe'.skipped \subseteq r5
  <2>1. probe' = [probe EXCEPT !.phase = "ask", !.queue = <<issued + 1>>, !.renewed = TRUE]
    BY <1>6 DEF Antigravity!Refresh
  <2> QED  BY <1>0, <1>1, <2>1 DEF Sound, IsProbe
<1> QED
  BY <1>2, <1>3, <1>4, <1>5, <1>6
     DEF Antigravity!Next, Antigravity!ProbeStep, Antigravity!Begin, Antigravity!Leave, Antigravity!Over,
         Antigravity!AskIde, Antigravity!AskAgyProcess, Antigravity!Ask, Antigravity!HourPasses,
         Antigravity!SignIn, Antigravity!Expire, Antigravity!Reject, Antigravity!Withdraw

-----------------------------------------------------------------------------
(* The OAuth adapters.                                                     *)

OAuthLogin == [access : Nat, refresh : Nat, account : Account]

(* A probe of an OAuth provider counts its refreshes: one for each login it went *)
(* through ahead of time and one for each request.  What factory and grok passed *)
(* over had no token or an expired one.                                       *)
OAuthProbe(rule) ==
  [phase : {"idle", "choose", "ahead", "ask", "again", "shown", "failed"}, entry : Nat,
   read : [1..rule.entries -> OAuthLogin], token : Nat, request : Nat, repeated : BOOLEAN,
   refreshes : Nat, told : SUBSET Account, began : Account]
Counts(p, rule) ==
  /\ p.phase # "idle" => p.entry \in 1..rule.entries
  /\ p.phase \in {"choose", "ahead"} => p.request = 0 /\ ~p.repeated /\ p.refreshes < p.entry
  /\ p.phase \in {"ask", "again"} => p.request \in 1..rule.requests
  /\ p.phase = "ask" /\ ~p.repeated => p.refreshes < p.entry + p.request
  /\ p.phase = "ask" /\ p.repeated => p.refreshes <= p.entry + p.request
  /\ p.phase = "again" => p.repeated /\ p.refreshes < p.entry + p.request
  /\ p.refreshes <= rule.entries + rule.requests
Passed(p, rule, expired) ==
  /\ p.phase \in {"choose", "ahead"} =>
       \A e \in 1..rule.entries : e < p.entry => p.read[e].access \in expired \cup {0}
  /\ p.phase = "ahead" => p.read[p.entry].access # 0
  /\ p.phase = "failed" /\ p.request = 0 =>
       \A e \in 1..rule.entries : p.read[e].access \in expired \cup {0}

(* Logins: no two share a token, and what the server does not take it withdrew. *)
Logins(f, rule, number, live, gone) ==
  /\ f \in [1..rule.entries -> OAuthLogin]
  /\ \A e \in 1..rule.entries : f[e].refresh <= number /\ (f[e].refresh \in live \/ gone)
  /\ \A e, g \in 1..rule.entries : e # g => f[e].refresh # f[g].refresh \/ f[e].refresh = 0
Live == accepted \cup r2 \cup {0}
Careful == r1 \in {"factory", "grok"}

OAuthInv ==
  /\ r1 \in OAuthNames /\ issued \in Nat /\ r4 \in BOOLEAN
  /\ Logins(stored, OAuth!Rule, issued, Live, r4)
  /\ probe \in OAuthProbe(OAuth!Rule) /\ Logins(probe.read, OAuth!Rule, issued, Live, r4)
  /\ Counts(probe, OAuth!Rule)
  /\ Careful => Passed(probe, OAuth!Rule, late)

RuleOf(name) ==
  CASE name = "gemini" -> OAuth!Gemini
    [] name = "factory" -> OAuth!Factory
    [] name = "grok" -> OAuth!Grok
    [] name = "kiro" -> OAuth!Kiro
    [] name = "antigravity-cli" -> OAuth!AntigravityCli

LEMMA SameRule == OAuth!Rule = RuleOf(r1) /\ (r1' = r1 => OAuth!Rule' = OAuth!Rule)
BY DEF OAuth!Rule, RuleOf, OAuth!Gemini, OAuth!Factory, OAuth!Grok, OAuth!Kiro, OAuth!AntigravityCli

LEMMA Rules ==
  ASSUME r1 \in OAuthNames
  PROVE  /\ OAuth!Rule.entries \in Nat \ {0} /\ OAuth!Rule.requests \in Nat \ {0}
         /\ Careful => /\ ~OAuth!Rule.partial /\ ~OAuth!Rule.reread
                       /\ OAuth!Rule.nothing \in {"use", "if valid"}
                       /\ "thrown" \in OAuth!Rule.rejected => OAuth!Rule.thrown \in {"use", "if valid"}
<1>1. CASE r1 = "gemini"
  <2>1. OAuth!Rule = OAuth!Gemini
    BY <1>1 DEF OAuth!Rule
  <2> QED  BY <1>1, <2>1 DEF OAuth!Gemini, Careful
<1>2. CASE r1 = "factory"
  <2>1. OAuth!Rule = OAuth!Factory
    BY <1>2 DEF OAuth!Rule
  <2>2. /\ OAuth!Factory.entries \in Nat \ {0} /\ OAuth!Factory.requests \in Nat \ {0}
        /\ ~OAuth!Factory.partial /\ ~OAuth!Factory.reread
    BY DEF OAuth!Factory
  <2>3. OAuth!Factory.nothing \in {"use", "if valid"} 
    BY DEF OAuth!Factory
  <2>4. "thrown" \in OAuth!Factory.rejected => OAuth!Factory.thrown \in {"use", "if valid"}
    BY DEF OAuth!Factory
  <2> QED  BY <2>1, <2>2, <2>3, <2>4
<1>3. CASE r1 = "grok"
  <2>1. OAuth!Rule = OAuth!Grok
    BY <1>3 DEF OAuth!Rule
  <2>2. /\ OAuth!Grok.entries \in Nat \ {0} /\ OAuth!Grok.requests \in Nat \ {0}
        /\ ~OAuth!Grok.partial /\ ~OAuth!Grok.reread
    BY DEF OAuth!Grok
  <2>3. OAuth!Grok.nothing \in {"use", "if valid"} 
    BY DEF OAuth!Grok
  <2>4. "thrown" \in OAuth!Grok.rejected => OAuth!Grok.thrown \in {"use", "if valid"}
    BY DEF OAuth!Grok
  <2> QED  BY <2>1, <2>2, <2>3, <2>4
<1>4. CASE r1 = "kiro"
  <2>1. OAuth!Rule = OAuth!Kiro
    BY <1>4 DEF OAuth!Rule
  <2> QED  BY <1>4, <2>1 DEF OAuth!Kiro, Careful
<1>5. CASE r1 = "antigravity-cli"
  <2>1. OAuth!Rule = OAuth!AntigravityCli
    BY <1>5 DEF OAuth!Rule
  <2> QED  BY <1>5, <2>1 DEF OAuth!AntigravityCli, Careful
<1> QED  BY <1>1, <1>2, <1>3, <1>4, <1>5 DEF OAuthNames

LEMMA OAuthIdles ==
  ASSUME r1 \in OAuthNames, issued \in Nat
  PROVE  /\ OAuth!Idle \in OAuthProbe(OAuth!Rule) /\ Counts(OAuth!Idle, OAuth!Rule)
         /\ Logins(OAuth!Idle.read, OAuth!Rule, issued, Live, r4)
         /\ Passed(OAuth!Idle, OAuth!Rule, late)
         /\ OAuth!Idle.phase = "idle" /\ OAuth!Idle.refreshes = 0 /\ OAuth!Idle.request = 0 /\ ~OAuth!Idle.repeated
<1> DEFINE none == [e \in 1..OAuth!Rule.entries |-> OAuth!Absent]
<1>1. OAuth!Absent \in OAuthLogin /\ OAuth!Absent.refresh = 0
  BY DEF OAuth!Absent, OAuthLogin, Account
<1>2. none \in [1..OAuth!Rule.entries -> OAuthLogin] /\ \A e \in 1..OAuth!Rule.entries : none[e].refresh = 0
  BY <1>1
<1>3. OAuth!Idle = [phase |-> "idle", entry |-> 0, read |-> none, token |-> 0, request |-> 0,
                    repeated |-> FALSE, refreshes |-> 0, told |-> {}, began |-> "none"]
  BY DEF OAuth!Idle, OAuth!Entries
<1> HIDE DEF none
<1>4. Logins(none, OAuth!Rule, issued, Live, r4)
  BY <1>2 DEF Logins, Live
<1>5. OAuth!Idle \in OAuthProbe(OAuth!Rule)
  BY <1>2, <1>3 DEF OAuthProbe, Account
<1>6. /\ OAuth!Idle.phase = "idle" /\ OAuth!Idle.refreshes = 0 /\ OAuth!Idle.request = 0
      /\ ~OAuth!Idle.repeated /\ OAuth!Idle.read = none
  BY <1>3
<1>7. 0 <= OAuth!Rule.entries + OAuth!Rule.requests
  <2>1. OAuth!Rule.entries \in Nat /\ OAuth!Rule.requests \in Nat
    BY Rules
  <2> QED  BY <2>1
<1>8. Counts(OAuth!Idle, OAuth!Rule) /\ Passed(OAuth!Idle, OAuth!Rule, late)
  BY <1>6, <1>7 DEF Counts, Passed
<1> QED  BY <1>4, <1>5, <1>6, <1>8

LEMMA OAuthStarts == OAuth!Init => OAuthInv
<1> SUFFICES ASSUME OAuth!Init PROVE OAuthInv
  OBVIOUS
<1>1. r1 \in OAuthNames /\ issued = 0 /\ r4 = FALSE /\ probe = OAuth!Idle
      /\ stored = [e \in 1..OAuth!Rule.entries |-> OAuth!Absent]
  BY DEF OAuth!Init, OAuth!Entries
<1>2. stored = probe.read
  BY <1>1 DEF OAuth!Idle, OAuth!Entries
<1> QED  BY <1>1, <1>2, OAuthIdles DEF OAuthInv

(* A step of the probe alone.                                                 *)
Fits(p) ==
  /\ p \in OAuthProbe(OAuth!Rule) /\ Logins(p.read, OAuth!Rule, issued, Live, r4)
  /\ Counts(p, OAuth!Rule) /\ (Careful => Passed(p, OAuth!Rule, late))
LEMMA OAuthGoes ==
  ASSUME OAuthInv, Fits(probe'), UNCHANGED <<r1, stored, accepted, r2, late, issued, r4>>
  PROVE  OAuthInv'
BY SameRule DEF OAuthInv, Fits, Live, Careful


(* A record of the probe after a step: where it is, with which logins, and n   *)
(* refreshes further.                                                         *)
After(q, phase, entry, request, read, n) ==
  /\ q \in OAuthProbe(OAuth!Rule) /\ q.phase = phase /\ q.entry = entry /\ q.request = request
  /\ q.read = read /\ q.refreshes = probe.refreshes + n /\ q.repeated = probe.repeated
Phases == {"choose", "ahead", "ask", "again", "failed"}

LEMMA CountedAfter ==
  ASSUME probe \in OAuthProbe(OAuth!Rule), NEW phase \in Phases, NEW entry \in Nat, NEW request \in Nat,
         NEW read \in [1..OAuth!Rule.entries -> OAuthLogin], NEW q, After(q, phase, entry, request, read, 0)
  PROVE  After(OAuth!Counted(q), phase, entry, request, read, 1)
<1>0. probe.refreshes \in Nat
  BY DEF OAuthProbe
<1>1. q \in OAuthProbe(OAuth!Rule) /\ q.refreshes = probe.refreshes /\ q.refreshes + 1 \in Nat
  BY <1>0 DEF After
<1>2. OAuth!Counted(q) = [q EXCEPT !.refreshes = q.refreshes + 1]
  BY DEF OAuth!Counted
<1>3. OAuth!Counted(q) \in OAuthProbe(OAuth!Rule)
  BY <1>1, <1>2 DEF OAuthProbe
<1> QED  BY <1>1, <1>2, <1>3 DEF After, OAuthProbe

LEMMA FailedAfter ==
  ASSUME probe \in OAuthProbe(OAuth!Rule)
  PROVE  After(OAuth!Failed, "failed", probe.entry, probe.request, probe.read, 0)
BY DEF OAuth!Failed, After, OAuthProbe

LEMMA NextAfter ==
  ASSUME probe \in OAuthProbe(OAuth!Rule), probe.entry < OAuth!Rule.entries
  PROVE  After(OAuth!NextEntry, "choose", probe.entry + 1, probe.request, probe.read, 0)
<1>1. OAuth!NextEntry = [probe EXCEPT !.phase = "choose", !.entry = probe.entry + 1]
  BY DEF OAuth!NextEntry
<1>2. probe.entry \in Nat
  BY DEF OAuthProbe
<1>3. probe.entry + 1 \in Nat
  BY <1>2
<1> DEFINE next == OAuth!NextEntry
<1>4. next \in OAuthProbe(OAuth!Rule)
  BY <1>1, <1>3 DEF OAuthProbe
<1>5. /\ next.phase = "choose" /\ next.entry = probe.entry + 1 /\ next.request = probe.request
      /\ next.read = probe.read /\ next.refreshes = probe.refreshes /\ next.repeated = probe.repeated
  BY <1>1 DEF OAuthProbe
<1>6. probe.refreshes \in Nat
  BY DEF OAuthProbe
<1>7. probe.refreshes = probe.refreshes + 0
  BY <1>6
<1> HIDE DEF next
<1>8. After(next, "choose", probe.entry + 1, probe.request, probe.read, 0)
  BY <1>4, <1>5, <1>7 DEF After
<1> QED  BY <1>8 DEF next

Requested == IF probe.request = 0 THEN 1 ELSE probe.request
LEMMA AsksAfter ==
  ASSUME probe \in OAuthProbe(OAuth!Rule), probe.entry \in 1..OAuth!Rule.entries, NEW token \in Nat,
         NEW read \in [1..OAuth!Rule.entries -> OAuthLogin], NEW p, p = probe \/ p = [probe EXCEPT !.read = read],
         p.read = read
  PROVE  After(OAuth!Asks(p, token), "ask", probe.entry, Requested, read, 0)
<1> DEFINE mine == probe.read[probe.entry]
           began == IF p.began = "none" THEN mine.account ELSE p.began
           request == IF p.request = 0 THEN 1 ELSE p.request
<1>1. /\ p \in OAuthProbe(OAuth!Rule) /\ p.entry = probe.entry /\ p.request = probe.request
      /\ p.refreshes = probe.refreshes /\ p.repeated = probe.repeated /\ p.began = probe.began
  BY DEF OAuthProbe
<1>2. began \in Account /\ request \in Nat /\ request = Requested
  BY <1>1 DEF OAuthProbe, OAuthLogin, Requested
<1>3. OAuth!Asks(p, token) = [p EXCEPT !.phase = "ask", !.token = token, !.request = request, !.began = began]
  BY DEF OAuth!Asks, OAuth!Mine
<1> HIDE DEF began, request, mine
<1>4. OAuth!Asks(p, token) \in OAuthProbe(OAuth!Rule)
  BY <1>1, <1>2, <1>3 DEF OAuthProbe
<1> QED  BY <1>1, <1>2, <1>3, <1>4, probe.refreshes + 0 = probe.refreshes DEF After, OAuthProbe

(* A token is asked with: after the choice, or after a refresh that counts.   *)
LEMMA AskCounts ==
  ASSUME OAuthInv, probe.phase \in {"choose", "ahead", "again"},
         NEW n \in {0, 1}, probe.phase # "choose" \/ n = 0, probe.phase = "choose" \/ n = 1,
         NEW read, NEW q, After(q, "ask", probe.entry, Requested, read, n)
  PROVE  Counts(q, OAuth!Rule) /\ q.request # 0
<1> DEFINE rule == OAuth!Rule
<1>1. rule.entries \in Nat \ {0} /\ rule.requests \in Nat \ {0}
  BY Rules DEF OAuthInv
<1> HIDE DEF rule
<1>2. probe \in OAuthProbe(rule) /\ Counts(probe, rule)
  BY DEF rule, OAuthInv
<1>3. /\ probe.entry \in 1..rule.entries /\ probe.entry \in Nat /\ probe.refreshes \in Nat /\ probe.request \in Nat
      /\ probe.phase \in {"choose", "ahead"} => probe.request = 0 /\ ~probe.repeated /\ probe.refreshes < probe.entry
      /\ probe.phase = "again" => /\ probe.request \in 1..rule.requests /\ probe.repeated
                                  /\ probe.refreshes < probe.entry + probe.request
  BY <1>2 DEF Counts, OAuthProbe
<1>4. Requested \in 1..rule.requests /\ Requested # 0 /\ probe.refreshes + n \in Nat
  BY <1>1, <1>3 DEF Requested
<1>6. /\ q.phase = "ask" /\ q.entry = probe.entry /\ q.request = Requested /\ q.refreshes = probe.refreshes + n
      /\ q.repeated = probe.repeated
  BY DEF After
<1>7. /\ ~probe.repeated => probe.refreshes + n < probe.entry + Requested
      /\ probe.repeated => probe.refreshes + n <= probe.entry + Requested
      /\ probe.refreshes + n <= rule.entries + rule.requests
  <2>1. CASE probe.phase = "choose"
    BY <1>1, <1>3, <1>4, <2>1
  <2>2. CASE probe.phase = "ahead"
    BY <1>1, <1>3, <1>4, <2>2
  <2>3. CASE probe.phase = "again"
    <3>1. Requested = probe.request /\ probe.repeated
      BY <1>3, <2>3 DEF Requested
    <3> QED  BY <1>1, <1>3, <1>4, <2>3, <3>1
  <2> QED  BY <2>1, <2>2, <2>3
<1>8. Counts(q, rule)
  BY <1>3, <1>4, <1>6, <1>7 DEF Counts
<1> QED  BY <1>4, <1>6, <1>8 DEF rule

LEMMA AskFits ==
  ASSUME OAuthInv, probe.phase \in {"choose", "ahead", "again"},
         NEW n \in {0, 1}, probe.phase # "choose" \/ n = 0, probe.phase = "choose" \/ n = 1,
         NEW q, After(q, "ask", probe.entry, Requested, probe.read, n)
  PROVE  Fits(q)
<1>1. Counts(q, OAuth!Rule) /\ q.request # 0
  BY AskCounts
<1> QED  BY <1>1 DEF Fits, Passed, After, OAuthInv

(* The next login is tried, or there is none; n counts a refresh.             *)
LEMMA NextFits ==
  ASSUME OAuthInv, probe.phase \in {"choose", "ahead"}, NEW n \in {0, 1}, probe.phase # "choose" \/ n = 0,
         Careful => probe.read[probe.entry].access \in late \cup {0}, NEW q,
         \/ probe.entry < OAuth!Rule.entries /\ After(q, "choose", probe.entry + 1, probe.request, probe.read, n)
         \/ probe.entry >= OAuth!Rule.entries /\ After(q, "failed", probe.entry, probe.request, probe.read, n)
  PROVE  Fits(q)
<1> DEFINE rule == OAuth!Rule
<1>1. rule.entries \in Nat \ {0} /\ rule.requests \in Nat \ {0}
  BY Rules DEF OAuthInv
<1> HIDE DEF rule
<1>2. probe \in OAuthProbe(rule) /\ Counts(probe, rule) /\ Logins(probe.read, rule, issued, Live, r4)
      /\ (Careful => Passed(probe, rule, late))
  BY DEF rule, OAuthInv
<1>3. /\ probe.entry \in 1..rule.entries /\ probe.entry \in Nat /\ probe.refreshes \in Nat
      /\ probe.request = 0 /\ ~probe.repeated /\ probe.refreshes < probe.entry
  BY <1>2 DEF Counts, OAuthProbe
<1>4. probe.refreshes + n \in Nat /\ probe.refreshes + n <= probe.entry
      /\ probe.refreshes + n <= rule.entries + rule.requests
  BY <1>1, <1>3
<1>5. CASE probe.entry < rule.entries /\ After(q, "choose", probe.entry + 1, probe.request, probe.read, n)
  <2>1. /\ probe.entry + 1 \in 1..rule.entries /\ probe.entry + 1 \in Nat /\ probe.refreshes + n < probe.entry + 1
        /\ \A e \in 1..rule.entries : e < probe.entry + 1 => e < probe.entry \/ e = probe.entry
    BY <1>1, <1>3, <1>4, <1>5
  <2>3. /\ q \in OAuthProbe(rule) /\ q.phase = "choose" /\ q.entry = probe.entry + 1
        /\ q.refreshes = probe.refreshes + n /\ q.request = probe.request /\ q.repeated = probe.repeated
        /\ q.read = probe.read
    BY <1>5 DEF After, rule
  <2>4. Counts(q, rule)
    BY <1>3, <1>4, <2>1, <2>3 DEF Counts
  <2>5. Careful => Passed(q, rule, late)
    BY <1>2, <2>1, <2>3 DEF Passed
  <2> QED  BY <1>2, <2>3, <2>4, <2>5 DEF Fits, rule
<1>6. CASE probe.entry >= rule.entries /\ After(q, "failed", probe.entry, probe.request, probe.read, n)
  <2>1. \A e \in 1..rule.entries : e < probe.entry \/ e = probe.entry
    BY <1>1, <1>3, <1>6
  <2>3. /\ q \in OAuthProbe(rule) /\ q.phase = "failed" /\ q.entry = probe.entry
        /\ q.refreshes = probe.refreshes + n /\ q.read = probe.read
    BY <1>6 DEF After, rule
  <2>4. Counts(q, rule)
    BY <1>3, <1>4, <2>3 DEF Counts
  <2>5. Careful => Passed(q, rule, late)
    BY <1>2, <2>1, <2>3 DEF Passed
  <2> QED  BY <1>2, <2>3, <2>4, <2>5 DEF Fits, rule
<1> QED  BY <1>5, <1>6 DEF rule

(* A probe fails: before a request only if nothing could be asked with.       *)
LEMMA FailedFits ==
  ASSUME OAuthInv, probe.phase \in {"ahead", "ask", "again"}, NEW n \in {0, 1}, probe.phase = "ask" => n = 0,
         probe.phase # "ahead" \/ ~Careful, NEW q, After(q, "failed", probe.entry, probe.request, probe.read, n)
  PROVE  Fits(q)
<1> DEFINE rule == OAuth!Rule
<1>1. rule.entries \in Nat /\ rule.requests \in Nat
  BY Rules DEF OAuthInv
<1> HIDE DEF rule
<1>2. probe \in OAuthProbe(rule) /\ Counts(probe, rule) /\ Logins(probe.read, rule, issued, Live, r4)
  BY DEF rule, OAuthInv
<1>3. /\ probe.entry \in 1..rule.entries /\ probe.entry \in Nat /\ probe.refreshes \in Nat
      /\ probe.phase # "ahead" => probe.request \in 1..rule.requests
      /\ probe.refreshes <= rule.entries + rule.requests
      /\ probe.phase = "again" => probe.refreshes < probe.entry + probe.request
      /\ probe.phase = "ahead" => probe.refreshes < probe.entry
  BY <1>2 DEF Counts, OAuthProbe
<1>4. (Careful => probe.request # 0) /\ probe.refreshes + n \in Nat /\ probe.refreshes + n <= rule.entries + rule.requests
  <2>1. CASE n = 0
    BY <1>1, <1>3, <2>1
  <2>2. CASE n = 1
    BY <1>1, <1>3, <2>2
  <2> QED  BY <2>1, <2>2
<1>6. /\ q \in OAuthProbe(rule) /\ q.phase = "failed" /\ q.entry = probe.entry
      /\ q.refreshes = probe.refreshes + n /\ q.read = probe.read /\ q.request = probe.request
  BY DEF After, rule
<1>7. Counts(q, rule) /\ (Careful => Passed(q, rule, late))
  BY <1>3, <1>4, <1>6 DEF Counts, Passed
<1> QED  BY <1>2, <1>6, <1>7 DEF Fits, rule

(* What is done without a renewed token.                                      *)
LEMMA WithoutFits ==
  ASSUME OAuthInv, OAuth!Refreshing, NEW outcome \in {"thrown", "nothing"},
         outcome = "thrown" => "thrown" \in OAuth!Rule.rejected
  PROVE  Fits(OAuth!Counted(OAuth!Without(OAuth!Rule, outcome)))
<1> DEFINE means == IF outcome = "thrown" THEN OAuth!Rule.thrown ELSE OAuth!Rule.nothing
           without == OAuth!Without(OAuth!Rule, outcome)
           mine == probe.read[probe.entry]
<1>1. /\ probe \in OAuthProbe(OAuth!Rule) /\ Counts(probe, OAuth!Rule)
      /\ probe.phase \in {"ahead", "again"} /\ probe.entry \in 1..OAuth!Rule.entries
      /\ Careful => Passed(probe, OAuth!Rule, late)
  BY DEF OAuthInv, OAuth!Refreshing, Counts
<1>2. /\ mine \in OAuthLogin /\ mine.access \in Nat /\ probe.read \in [1..OAuth!Rule.entries -> OAuthLogin]
      /\ probe.entry \in Nat /\ probe.request \in Nat /\ Requested \in Nat
  BY <1>1 DEF OAuthProbe, OAuthLogin, Requested
<1>3. Careful => means \in {"use", "if valid"} /\ (probe.phase = "ahead" => mine.access # 0)
  BY <1>1, Rules DEF Passed, OAuthInv
<1>4. \/ without = OAuth!Failed /\ (probe.phase = "again" \/ means \notin {"use", "if valid"} \/ (means = "use" /\ mine.access = 0))
      \/ without = OAuth!Asks(probe, mine.access)
      \/ without = OAuth!NextEntry /\ mine.access \in late /\ probe.phase = "ahead"
  BY <1>1 DEF OAuth!Without, OAuth!Mine
<1>9. "ask" \in Phases /\ "failed" \in Phases /\ "choose" \in Phases
  BY DEF Phases
<1> HIDE DEF without, means
<1>5. CASE without = OAuth!Asks(probe, mine.access)
  <2>1. After(without, "ask", probe.entry, Requested, probe.read, 0)
    BY <1>1, <1>2, <1>5, AsksAfter
  <2>2. After(OAuth!Counted(without), "ask", probe.entry, Requested, probe.read, 1)
    BY <1>1, <1>2, <1>9, <2>1, CountedAfter
  <2> QED  BY <1>1, <2>2, AskFits DEF without
<1>6. CASE without = OAuth!Failed /\ (probe.phase = "again" \/ ~Careful)
  <2>1. After(OAuth!Counted(without), "failed", probe.entry, probe.request, probe.read, 1)
    BY <1>1, <1>2, <1>6, <1>9, FailedAfter, CountedAfter
  <2> QED  BY <1>1, <1>6, <2>1, FailedFits DEF without
<1>8. CASE probe.phase = "ahead" /\ without = OAuth!NextEntry /\ mine.access \in late
  <2>1. OAuth!Rule.entries \in Nat
    BY Rules DEF OAuthInv
  <2>2. CASE probe.entry < OAuth!Rule.entries
    <3>1. probe.entry + 1 \in Nat
      BY <1>2
    <3>2. After(without, "choose", probe.entry + 1, probe.request, probe.read, 0)
      BY <1>1, <1>8, <2>2, NextAfter
    <3>3. After(OAuth!Counted(without), "choose", probe.entry + 1, probe.request, probe.read, 1)
      BY <1>1, <1>2, <1>9, <3>1, <3>2, CountedAfter
    <3> QED  BY <1>8, <2>2, <3>3, NextFits DEF without
  <2>3. CASE probe.entry >= OAuth!Rule.entries
    <3>1. without = OAuth!Failed
      BY <1>2, <1>8, <2>1, <2>3 DEF OAuth!NextEntry
    <3>2. After(OAuth!Counted(without), "failed", probe.entry, probe.request, probe.read, 1)
      BY <1>1, <1>2, <1>9, <3>1, FailedAfter, CountedAfter
    <3> QED  BY <1>8, <2>3, <3>2, NextFits DEF without
  <2> QED  BY <1>2, <2>1, <2>2, <2>3
<1>10. \/ without = OAuth!Failed /\ (probe.phase = "again" \/ ~Careful)
       \/ without = OAuth!Asks(probe, mine.access)
       \/ without = OAuth!NextEntry /\ mine.access \in late /\ probe.phase = "ahead"
  BY <1>1, <1>3, <1>4
<1> QED  BY <1>5, <1>6, <1>8, <1>10

(* Tokens that stay live, or of which one is lost.                            *)
LEMMA LoginsStay ==
  ASSUME NEW f, NEW rule, NEW n \in Nat, NEW m \in Nat, n <= m, NEW live, NEW then, live \subseteq then,
         NEW gone \in BOOLEAN, NEW went \in BOOLEAN, gone => went, Logins(f, rule, n, live, gone)
  PROVE  Logins(f, rule, m, then, went)
<1>1. \A e \in 1..rule.entries : f[e].refresh \in Nat
  BY DEF Logins, OAuthLogin
<1>2. \A e \in 1..rule.entries : f[e].refresh <= m
  BY <1>1 DEF Logins
<1> QED  BY <1>2 DEF Logins

(* A new token is in one login, whatever the others hold.                     *)
LEMMA LoginsRenewed ==
  ASSUME NEW f, NEW rule, NEW n, NEW live, NEW then, NEW gone, NEW e, NEW c, NEW m, NEW g,
         Logins(f, rule, n, live, gone), n \in Nat, m \in Nat, n < m, gone \in BOOLEAN,
         c.refresh \in then, c.refresh = m, g[e] = c, \A i \in 1..rule.entries : i # e => g[i] = f[i],
         g \in [1..rule.entries -> OAuthLogin], e \in 1..rule.entries, c \in OAuthLogin,
         live \ {f[e].refresh} \subseteq then, 0 \in then
  PROVE  Logins(g, rule, m, then, gone)
<1>1. f \in [1..rule.entries -> OAuthLogin] /\ \A i \in 1..rule.entries : f[i].refresh \in Nat /\ f[i].refresh <= n
  BY DEF Logins, OAuthLogin
<1>3. \A i \in 1..rule.entries : f[i].refresh < m /\ f[i].refresh <= m
  BY <1>1
<1>4. m <= m
  OBVIOUS
<1>5. ASSUME NEW i \in 1..rule.entries PROVE g[i].refresh <= m /\ (g[i].refresh \in then \/ gone)
  <2>1. CASE i = e
    BY <1>4, <2>1
  <2>2. CASE i # e
    BY <1>3, <2>2 DEF Logins
  <2> QED  BY <2>1, <2>2
<1>6. ASSUME NEW i \in 1..rule.entries, NEW j \in 1..rule.entries, i # j
      PROVE  g[i].refresh # g[j].refresh \/ g[i].refresh = 0
  <2>1. \A k \in 1..rule.entries : f[k].refresh # m
    BY <1>1
  <2> QED  BY <1>6, <2>1 DEF Logins
<1> QED  BY <1>5, <1>6 DEF Logins

(* The state after a step, from its parts.                                    *)
LEMMA OAuthStep ==
  ASSUME OAuthInv, r1' = r1, issued' \in Nat, r4' \in BOOLEAN,
         Logins(stored', OAuth!Rule, issued', Live', r4'),
         Logins(probe'.read, OAuth!Rule, issued', Live', r4'),
         probe' \in OAuthProbe(OAuth!Rule), Counts(probe', OAuth!Rule),
         Careful => Passed(probe', OAuth!Rule, late')
  PROVE  OAuthInv'
BY SameRule DEF OAuthInv, Careful

LEMMA ChooseKeeps == ASSUME OAuthInv, OAuth!Choose PROVE OAuthInv'
<1> DEFINE mine == probe.read[probe.entry]
           rule == OAuth!Rule
<1>1. /\ probe \in OAuthProbe(rule) /\ Counts(probe, rule) /\ probe.phase = "choose"
      /\ probe.entry \in 1..rule.entries /\ (Careful => Passed(probe, rule, late))
      /\ UNCHANGED <<r1, stored, accepted, r2, late, issued, r4>>
      /\ probe.request = 0 /\ ~probe.repeated /\ probe.refreshes < probe.entry
  BY DEF OAuthInv, OAuth!Choose, OAuth!Goes, OAuth!server, OAuth!clock, Counts
<1>2. /\ mine \in OAuthLogin /\ mine.access \in Nat /\ probe.read \in [1..rule.entries -> OAuthLogin]
      /\ probe.entry \in Nat /\ probe.request \in Nat /\ probe.refreshes \in Nat /\ Requested \in Nat
  BY <1>1 DEF OAuthProbe, OAuthLogin, Requested
<1>3. /\ rule.entries \in Nat /\ (Careful => ~rule.partial)
  BY Rules DEF OAuthInv
<1>4. \/ probe' = OAuth!NextEntry /\ mine.access = 0
      \/ probe' = [probe EXCEPT !.phase = "ahead"] /\ (mine.access # 0 \/ rule.partial)
      \/ probe' = OAuth!Asks(probe, mine.access)
  BY DEF OAuth!Choose, OAuth!Goes, OAuth!Mine
<1> HIDE DEF mine
<1>5. CASE probe' = OAuth!Asks(probe, mine.access)
  <2>1. After(probe', "ask", probe.entry, Requested, probe.read, 0)
    BY <1>1, <1>2, <1>5, AsksAfter
  <2>2. Fits(probe')
    BY <1>1, <2>1, AskFits
  <2> QED  BY <1>1, <2>2, OAuthGoes
<1>6. CASE probe' = [probe EXCEPT !.phase = "ahead"] /\ (mine.access # 0 \/ rule.partial)
  <2>1. /\ probe' \in OAuthProbe(rule) /\ probe'.phase = "ahead" /\ probe'.entry = probe.entry
        /\ probe'.request = 0 /\ probe'.repeated = probe.repeated /\ probe'.refreshes = probe.refreshes
        /\ probe'.read = probe.read
    BY <1>1, <1>6 DEF OAuthProbe
  <2>2. Counts(probe', rule)
    BY <1>1, <2>1 DEF Counts
  <2>3. Careful => Passed(probe', rule, late)
    BY <1>1, <1>3, <1>6, <2>1 DEF Passed, mine
  <2>4. Fits(probe')
    BY <2>1, <2>2, <2>3 DEF Fits, OAuthInv
  <2> QED  BY <1>1, <2>4, OAuthGoes
<1>7. CASE probe' = OAuth!NextEntry /\ mine.access = 0
  <2>1. CASE probe.entry < rule.entries
    <3>1. After(probe', "choose", probe.entry + 1, probe.request, probe.read, 0)
      BY <1>1, <1>7, <2>1, NextAfter
    <3>2. Fits(probe')
      BY <1>1, <1>7, <2>1, <3>1, NextFits DEF mine
    <3> QED  BY <1>1, <3>2, OAuthGoes
  <2>2. CASE probe.entry >= rule.entries
    <3>1. probe' = OAuth!Failed
      BY <1>2, <1>3, <1>7, <2>2 DEF OAuth!NextEntry
    <3>2. After(probe', "failed", probe.entry, probe.request, probe.read, 0)
      BY <1>1, <3>1, FailedAfter
    <3>3. Fits(probe')
      BY <1>1, <1>7, <2>2, <3>2, NextFits DEF mine
    <3> QED  BY <1>1, <3>3, OAuthGoes
  <2> QED  BY <1>2, <1>3, <2>1, <2>2
<1> QED  BY <1>4, <1>5, <1>6, <1>7

(* A token is renewed: the server takes the new one, if it rotates in place of *)
(* the old one, and a rotation that is not saved is lost.                     *)
LEMMA RenewKeeps ==
  ASSUME OAuthInv, NEW rotates \in BOOLEAN, NEW arrives \in BOOLEAN, NEW writes \in BOOLEAN,
         OAuth!Refresh(rotates, arrives, writes)
  PROVE  OAuthInv'
<1> DEFINE rule == OAuth!Rule
           mine == probe.read[probe.entry]
           new == [access |-> issued + 1, refresh |-> IF rotates THEN issued + 1 ELSE mine.refresh,
                   account |-> mine.account]
           read == [probe.read EXCEPT ![probe.entry] = OAuth!Renewed(@, issued + 1, rotates)]
<1>1. /\ probe \in OAuthProbe(rule) /\ Counts(probe, rule) /\ issued \in Nat /\ r4 \in BOOLEAN
      /\ Logins(stored, rule, issued, Live, r4) /\ Logins(probe.read, rule, issued, Live, r4)
      /\ probe.phase \in {"ahead", "again"} /\ probe.entry \in 1..rule.entries
  BY DEF OAuthInv, OAuth!Refresh, OAuth!Refreshing, Counts
<1>2. /\ mine \in OAuthLogin /\ mine.access \in Nat /\ probe.read \in [1..rule.entries -> OAuthLogin]
      /\ probe.entry \in Nat /\ Requested \in Nat /\ probe.request \in Nat
  BY <1>1 DEF OAuthProbe, OAuthLogin, Requested
<1>3. /\ issued' = issued + 1 /\ mine.refresh \in accepted
      /\ accepted' = IF rotates THEN (accepted \ {mine.refresh}) \cup {issued + 1} ELSE accepted
      /\ r4' = (r4 \/ (rotates /\ ~(arrives /\ writes)))
      /\ UNCHANGED <<r1, r2, late>>
      /\ arrives => probe' = OAuth!Counted(OAuth!Asks([probe EXCEPT !.read = read], issued + 1))
      /\ arrives /\ writes => stored' = read
      /\ ~(arrives /\ writes) => stored' = stored
      /\ ~arrives => probe' = OAuth!Counted(OAuth!Without(rule, "nothing"))
  BY DEF OAuth!Refresh, OAuth!Mine, OAuth!Saved, OAuth!clock
<1>4. issued' \in Nat /\ issued <= issued' /\ r4' \in BOOLEAN /\ (r4 => r4')
  BY <1>1, <1>3
<1>5. /\ ~rotates \/ r4' => (Live \subseteq Live' \/ r4')
      /\ rotates => /\ issued + 1 \in Live'
                    /\ Live \ {mine.refresh} \subseteq Live' /\ 0 \in Live'
  BY <1>3 DEF Live
<1>6. new = OAuth!Renewed(mine, issued + 1, rotates) /\ new \in OAuthLogin
  <2>1. issued + 1 \in Nat
    BY <1>1
  <2>2. new \in OAuthLogin
    BY <1>2, <2>1 DEF OAuthLogin
  <2>3. OAuth!Renewed(mine, issued + 1, rotates) =
          [mine EXCEPT !.access = issued + 1, !.refresh = IF rotates THEN issued + 1 ELSE mine.refresh]
    BY DEF OAuth!Renewed
  <2>4. new = OAuth!Renewed(mine, issued + 1, rotates)
    BY <1>2, <2>3 DEF OAuthLogin
  <2> QED  BY <2>2, <2>4
<1>7. read = [probe.read EXCEPT ![probe.entry] = new]
  BY <1>6
<1>8. new.refresh = IF rotates THEN issued + 1 ELSE mine.refresh
  OBVIOUS
<1> HIDE DEF new, read, rule
<1>9. Logins(read, rule, issued', Live', r4')
  <2>1. CASE rotates
    <3> DEFINE m == issued + 1
               then == Live'
               old == probe.read
               e == probe.entry
    <3>2. m \in Nat /\ issued < m /\ issued \in Nat /\ r4 \in BOOLEAN /\ e \in 1..rule.entries
          /\ Logins(old, rule, issued, Live, r4)
      BY <1>1
    <3>3. /\ new.refresh = m /\ new.refresh \in then /\ new \in OAuthLogin
          /\ Live \ {old[e].refresh} \subseteq then /\ 0 \in then
      BY <1>5, <1>6, <1>8, <2>1
    <3>4. /\ read \in [1..rule.entries -> OAuthLogin] /\ read[e] = new
          /\ \A i \in 1..rule.entries : i # e => read[i] = old[i]
          /\ old[e].refresh \in Nat /\ old[e].refresh <= issued
      BY <1>1, <1>2, <1>6, <1>7 DEF OAuthLogin, Logins
    <3> HIDE DEF m, then, old, e
    <3>5. Logins(read, rule, m, then, r4)
      BY <3>2, <3>3, <3>4, LoginsRenewed
    <3>1. Logins(read, rule, issued + 1, Live', r4)
      BY <3>5 DEF m, then
    <3> QED  BY <1>1, <1>3, <1>4, <3>1, LoginsStay
  <2>2. CASE ~rotates
    <3>1. Logins(read, rule, issued, Live, r4)
      BY <1>1, <1>2, <1>6, <1>7, <1>8, <2>2 DEF Logins
    <3> QED  BY <1>1, <1>3, <1>4, <2>2, <3>1, LoginsStay DEF Live
  <2> QED  BY <2>1, <2>2
<1>10. ASSUME NEW f, Logins(f, rule, issued, Live, r4), ~rotates \/ r4'
       PROVE  Logins(f, rule, issued', Live', r4')
  <2>1. CASE Live \subseteq Live'
    BY <1>1, <1>4, <1>10, <2>1, LoginsStay
  <2>2. CASE r4'
    <3>1. Logins(f, rule, issued, Live', r4')
      BY <1>10, <2>2 DEF Logins
    <3> QED  BY <1>1, <1>4, <3>1, LoginsStay
  <2> QED  BY <1>5, <1>10, <2>1, <2>2
<1>11. Logins(stored', rule, issued', Live', r4')
  <2>1. CASE arrives /\ writes
    BY <1>3, <1>9, <2>1
  <2>2. CASE ~(arrives /\ writes)
    <3>1. ~rotates \/ r4'
      BY <1>3, <2>2
    <3>2. Logins(stored, rule, issued', Live', r4')
      BY <1>1, <1>10, <3>1
    <3> QED  BY <1>3, <2>2, <3>2
  <2> QED  BY <2>1, <2>2
<1>12. CASE arrives
  <2> DEFINE p == [probe EXCEPT !.read = read]
             asks == OAuth!Asks(p, issued + 1)
  <2>1. p = [probe EXCEPT !.read = read] /\ read \in [1..rule.entries -> OAuthLogin] /\ issued + 1 \in Nat
    BY <1>1, <1>9 DEF Logins
  <2>2. p.read = read
    BY <1>1 DEF OAuthProbe
  <2>3. "ask" \in Phases
    BY DEF Phases
  <2>4. probe' = OAuth!Counted(asks)
    BY <1>3, <1>12
  <2> HIDE DEF p
  <2>5. After(asks, "ask", probe.entry, Requested, read, 0)
    BY <1>1, <2>1, <2>2, AsksAfter DEF rule
  <2> HIDE DEF asks
  <2>6. After(probe', "ask", probe.entry, Requested, read, 1)
    BY <1>1, <1>2, <2>1, <2>3, <2>4, <2>5, CountedAfter DEF rule
  <2>7. Counts(probe', OAuth!Rule) /\ probe'.request # 0
    BY <1>1, <2>6, AskCounts
  <2>8. /\ probe' \in OAuthProbe(OAuth!Rule) /\ probe'.phase = "ask" /\ probe'.read = read
    BY <2>6 DEF After
  <2>9. Passed(probe', OAuth!Rule, late')
    BY <2>7, <2>8 DEF Passed
  <2> QED  BY <1>3, <1>4, <1>9, <1>11, <2>7, <2>8, <2>9, OAuthStep DEF rule
<1>13. CASE ~arrives
  <2> DEFINE q == OAuth!Counted(OAuth!Without(rule, "nothing"))
  <2>1. Fits(q)
    BY WithoutFits DEF OAuth!Refresh, rule
  <2> HIDE DEF q
  <2>2. probe' = q /\ (~rotates \/ r4')
    BY <1>3, <1>13 DEF q
  <2>3. Logins(q.read, rule, issued', Live', r4')
    BY <1>10, <2>1, <2>2 DEF Fits, rule
  <2> QED  BY <1>3, <1>4, <1>11, <2>1, <2>2, <2>3, OAuthStep DEF Fits, rule
<1> QED  BY <1>12, <1>13

LEMMA OAuthKeeps == ASSUME OAuthInv, OAuth!Next PROVE OAuthInv'
<1> DEFINE rule == OAuth!Rule
<1> USE DEF OAuth!server, OAuth!clock
<1>0. /\ r1 \in OAuthNames /\ issued \in Nat /\ r4 \in BOOLEAN /\ probe \in OAuthProbe(rule) /\ Counts(probe, rule)
      /\ Logins(stored, rule, issued, Live, r4) /\ Logins(probe.read, rule, issued, Live, r4)
      /\ Careful => Passed(probe, rule, late)
      /\ rule.entries \in Nat \ {0} /\ rule.requests \in Nat \ {0}
  BY Rules DEF OAuthInv
<1>1. ASSUME NEW e \in OAuth!Entries, NEW a \in People, NEW partial \in BOOLEAN, OAuth!SignIn(e, a, partial)
      PROVE  OAuthInv'
  <2> DEFINE c == [access |-> IF partial THEN 0 ELSE issued + 1, refresh |-> issued + 1, account |-> a]
  <2>1. /\ issued' = issued + 1 /\ accepted' = accepted \cup {issued + 1} /\ stored' = [stored EXCEPT ![e] = c]
        /\ UNCHANGED <<r1, r2, late, probe, r4>> /\ e \in 1..rule.entries
    BY <1>1 DEF OAuth!SignIn, OAuth!Entries
  <2>2. issued + 1 \in Nat /\ issued < issued + 1 /\ issued <= issued + 1
    BY <1>0
  <2>3. c \in OAuthLogin /\ c.refresh = issued + 1
    BY <2>2 DEF OAuthLogin, Account
  <2>4. Live \subseteq Live' /\ issued + 1 \in Live'
    BY <2>1 DEF Live
  <2>7. Live \ {stored[e].refresh} \subseteq Live' /\ 0 \in Live'
    BY <2>4 DEF Live
  <2> HIDE DEF c, rule
  <2>9. Logins(stored, rule, issued, Live, r4) /\ issued \in Nat /\ r4 \in BOOLEAN
    BY <1>0
  <2> DEFINE m == issued + 1
             then == Live'
  <2>10. /\ m \in Nat /\ issued < m /\ c.refresh = m /\ c.refresh \in then /\ c \in OAuthLogin
         /\ Live \ {stored[e].refresh} \subseteq then /\ 0 \in then
         /\ e \in 1..rule.entries
    BY <2>1, <2>2, <2>3, <2>4, <2>7
  <2>12. stored[e].refresh \in Nat /\ stored[e].refresh <= issued
    BY <2>1, <2>9 DEF Logins, OAuthLogin
  <2>11. /\ stored' \in [1..rule.entries -> OAuthLogin] /\ stored'[e] = c
         /\ \A i \in 1..rule.entries : i # e => stored'[i] = stored[i]
    BY <2>1, <2>3, <2>9 DEF Logins
  <2> HIDE DEF m, then
  <2>8. Logins(stored', rule, m, then, r4)
    BY <2>9, <2>10, <2>11, <2>12, LoginsRenewed
  <2>5. Logins(stored', rule, issued', Live', r4')
    BY <2>1, <2>8 DEF m, then
  <2>6. Logins(probe'.read, rule, issued', Live', r4')
    BY <1>0, <2>1, <2>2, <2>4, LoginsStay
  <2> QED  BY <1>0, <2>1, <2>2, <2>5, <2>6, OAuthStep DEF rule
<1>2. ASSUME NEW t, OAuth!Revoke(t) PROVE OAuthInv'
  <2>1. Live' = Live /\ UNCHANGED <<r1, stored, issued, probe, r4, late>>
    BY <1>2 DEF OAuth!Revoke, Live
  <2> QED  BY <1>0, <2>1, OAuthStep
<1>3. ASSUME NEW t, OAuth!Pass(t) PROVE OAuthInv'
  <2>1. Live' = Live /\ UNCHANGED <<r1, stored, issued, probe, r4>> /\ late \subseteq late'
    BY <1>3 DEF OAuth!Pass, Live
  <2>2. Careful => Passed(probe, rule, late')
    BY <1>0, <2>1 DEF Passed
  <2> QED  BY <1>0, <2>1, <2>2, OAuthStep
<1>4. CASE OAuth!Die \/ OAuth!Leave
  <2>1. probe' = OAuth!Idle /\ UNCHANGED <<r1, stored, accepted, r2, late, issued, r4>>
    BY <1>4 DEF OAuth!Die, OAuth!Leave, OAuth!Goes
  <2> QED  BY <1>0, <2>1, OAuthIdles, OAuthGoes DEF Fits
<1>5. CASE OAuth!Begin
  <2>1. /\ probe' = [OAuth!Idle EXCEPT !.phase = "choose", !.entry = 1, !.read = stored]
        /\ UNCHANGED <<r1, stored, accepted, r2, late, issued, r4>>
    BY <1>5 DEF OAuth!Begin
  <2>2. OAuth!Idle \in OAuthProbe(rule) /\ OAuth!Idle.refreshes = 0 /\ OAuth!Idle.request = 0 /\ ~OAuth!Idle.repeated
    BY <1>0, OAuthIdles
  <2>3. stored \in [1..rule.entries -> OAuthLogin]
    BY <1>0 DEF Logins
  <2>4. probe' \in OAuthProbe(rule) /\ probe'.phase = "choose" /\ probe'.entry = 1 /\ probe'.read = stored
        /\ probe'.refreshes = 0 /\ probe'.request = 0 /\ ~probe'.repeated
    BY <2>1, <2>2, <2>3 DEF OAuthProbe
  <2>5. 1 \in 1..rule.entries /\ 0 < 1 /\ 0 <= rule.entries + rule.requests /\ \A e \in 1..rule.entries : ~(e < 1)
    BY <1>0
  <2>6. Counts(probe', rule) /\ Passed(probe', rule, late)
    BY <2>4, <2>5 DEF Counts, Passed
  <2> QED  BY <1>0, <2>1, <2>4, <2>6, OAuthGoes DEF Fits
<1>6. ASSUME NEW outcome \in {"thrown", "nothing"}, OAuth!RefreshRejected(outcome) PROVE OAuthInv'
  BY <1>6, WithoutFits, OAuthGoes DEF OAuth!RefreshRejected, OAuth!Goes
<1>7. CASE OAuth!RefreshFails
  BY <1>7, WithoutFits, OAuthGoes DEF OAuth!RefreshFails, OAuth!Goes
<1>8. CASE OAuth!AnswerFails
  <2>1. /\ probe.phase = "ask" /\ probe' = OAuth!Failed
        /\ UNCHANGED <<r1, stored, accepted, r2, late, issued, r4>>
    BY <1>8 DEF OAuth!AnswerFails, OAuth!Goes
  <2> QED  BY <1>0, <2>1, FailedAfter, FailedFits, OAuthGoes
<1>9. CASE OAuth!Rejected
  <2> DEFINE read == IF rule.reread THEN stored ELSE probe.read
  <2>1. /\ probe.phase = "ask" /\ UNCHANGED <<r1, stored, accepted, r2, late, issued, r4>>
        /\ probe.repeated => probe' = OAuth!Failed
        /\ ~probe.repeated => probe' = [probe EXCEPT !.phase = "again", !.repeated = TRUE, !.read = read]
    BY <1>9 DEF OAuth!Rejected, OAuth!Goes
  <2>2. CASE probe.repeated
    BY <1>0, <2>1, <2>2, FailedAfter, FailedFits, OAuthGoes
  <2>3. CASE ~probe.repeated
    <3>1. Logins(read, rule, issued, Live, r4) /\ read \in [1..rule.entries -> OAuthLogin]
      BY <1>0 DEF Logins
    <3> HIDE DEF read
    <3>2. /\ probe' \in OAuthProbe(rule) /\ probe'.phase = "again" /\ probe'.repeated /\ probe'.read = read
          /\ probe'.entry = probe.entry /\ probe'.request = probe.request /\ probe'.refreshes = probe.refreshes
      BY <1>0, <2>1, <2>3, <3>1 DEF OAuthProbe
    <3>3. Counts(probe', rule) /\ Passed(probe', rule, late)
      BY <1>0, <2>1, <2>3, <3>2 DEF Counts, Passed
    <3> QED  BY <1>0, <2>1, <3>1, <3>2, <3>3, OAuthGoes DEF Fits
  <2> QED  BY <1>0, <2>2, <2>3 DEF OAuthProbe
<1>10. CASE OAuth!Answered
  <2> DEFINE knows == probe.told \cup {OAuth!Account}
  <2>1. /\ probe.phase = "ask" /\ UNCHANGED <<r1, stored, accepted, r2, late, issued, r4>>
        /\ probe.entry \in 1..rule.entries /\ probe.request \in 1..rule.requests
    BY <1>0, <1>10 DEF OAuth!Answered, OAuth!Goes, Counts
  <2>2. knows \subseteq Account
    BY <1>0, <2>1 DEF OAuth!Account, OAuth!Mine, OAuthProbe, OAuthLogin
  <2> DEFINE p == [probe EXCEPT !.told = knows]
             again == rule.reread /\ probe.repeated
  <2>3. \/ /\ probe.request < rule.requests
           /\ probe' = [p EXCEPT !.request = probe.request + 1, !.repeated = again]
        \/ probe' = [p EXCEPT !.phase = "shown"]
    <3>1. p.request = probe.request /\ p.repeated = probe.repeated
      BY <1>0 DEF OAuthProbe
    <3>2. probe' = IF probe.request < rule.requests
                   THEN [p EXCEPT !.request = p.request + 1, !.repeated = rule.reread /\ p.repeated]
                   ELSE [p EXCEPT !.phase = "shown"]
      BY <1>10 DEF OAuth!Answered, OAuth!Goes
    <3> QED  BY <3>1, <3>2
  <2>4. p \in OAuthProbe(rule) /\ p.entry = probe.entry /\ p.refreshes = probe.refreshes /\ p.read = probe.read
        /\ p.phase = "ask" /\ p.repeated = probe.repeated /\ p.request = probe.request
    BY <1>0, <2>1, <2>2 DEF OAuthProbe
  <2>5. again \in BOOLEAN /\ (again => probe.repeated)
    OBVIOUS
  <2> HIDE DEF p, again
  <2>6. probe' \in OAuthProbe(rule) /\ probe'.entry = probe.entry /\ probe'.refreshes = probe.refreshes
        /\ probe'.read = probe.read
    <3>1. probe.request + 1 \in Nat
      BY <1>0, <2>1
    <3> QED  BY <2>3, <2>4, <2>5, <3>1 DEF OAuthProbe
  <2>7. \/ probe'.phase = "shown"
        \/ /\ probe'.phase = "ask" /\ probe'.request = probe.request + 1 /\ probe'.repeated = again
           /\ probe.request < rule.requests
    BY <2>3, <2>4 DEF OAuthProbe
  <2>8. probe.refreshes \in Nat /\ probe.entry \in Nat /\ probe.request \in Nat
        /\ probe.refreshes <= probe.entry + probe.request
        /\ (~probe.repeated => probe.refreshes < probe.entry + probe.request)
    BY <1>0, <2>1 DEF Counts, OAuthProbe
  <2>9. /\ probe.refreshes < probe.entry + (probe.request + 1)
        /\ probe.refreshes <= probe.entry + (probe.request + 1)
        /\ probe.request < rule.requests => probe.request + 1 \in 1..rule.requests /\ probe.request + 1 # 0
    BY <1>0, <2>8
  <2>10. Counts(probe', rule)
    BY <1>0, <2>1, <2>5, <2>6, <2>7, <2>9 DEF Counts
  <2>11. Passed(probe', rule, late)
    BY <2>7 DEF Passed
  <2> QED  BY <1>0, <2>1, <2>6, <2>10, <2>11, OAuthGoes DEF Fits
<1>11. ASSUME NEW rotates \in BOOLEAN, NEW arrives \in BOOLEAN, NEW writes \in BOOLEAN,
              OAuth!Refresh(rotates, arrives, writes) PROVE OAuthInv'
  BY <1>11, RenewKeeps
<1> QED
  BY <1>1, <1>2, <1>3, <1>4, <1>5, <1>6, <1>7, <1>8, <1>9, <1>10, <1>11, ChooseKeeps DEF OAuth!Next, OAuth!ProbeStep

LEMMA OAuthHolds == OAuthInv => OAuth!LoginKept /\ OAuth!GoodTokenTried /\ OAuth!RefreshesBounded
<1> SUFFICES ASSUME OAuthInv PROVE OAuth!LoginKept /\ OAuth!GoodTokenTried /\ OAuth!RefreshesBounded
  OBVIOUS
<1>1. OAuth!LoginKept
  BY DEF OAuthInv, Logins, Live, OAuth!LoginKept, OAuth!Entries
<1>2. OAuth!GoodTokenTried
  BY DEF OAuthInv, Passed, Careful, OAuth!GoodTokenTried, OAuth!Entries
<1>3. OAuth!RefreshesBounded
  BY DEF OAuthInv, Counts, OAuth!RefreshesBounded
<1> QED  BY <1>1, <1>2, <1>3

-----------------------------------------------------------------------------
(* Claude in the daemon.                                                   *)

(* Claude in the daemon: one probe at a time, beside Claude Code.            *)
Asking == probe["daemon"]
Id(credentials) == <<credentials.access, "none">>

ClaudeCredentials == [access : 0..ClaudeTokens, refresh : 0..ClaudeTokens, expires : Nat, profile : BOOLEAN]
AReading == [at : Nat, src : {"none", "oauth", "web", "cli", "cli-cache"}]
ACache ==
  [id : (0..ClaudeTokens) \X {"none"}, limitedUntil : Nat, lastFetch : Nat, data : AReading,
   dataSource : {"none", "oauth", "web", "cli", "cli-cache"}, fetchedAt : Nat,
   lastWeb : Nat, webRetryAt : Nat, grantsAt : Nat, profileOf : Nat]
ClaudeProbe ==
  [phase : {"idle", "refresh", "save", "fetch", "profile", "failed", "done"},
   mode : {"auto", "cli", "oauth"}, at : Nat, creds : ClaudeCredentials, live : ACache,
   data : AReading, src : {"none", "oauth", "web", "cli", "cli-cache"}, observedAt : Nat,
   limited : BOOLEAN, retried : BOOLEAN, webTried : BOOLEAN, sent : BOOLEAN, known : Nat,
   spent : 0..ClaudeTokens]
AResult ==
  [state : {"none", "ready", "failed", "error"},
   source : {"none", "oauth", "web", "cli", "cli-cache", "cached", "local"},
   data : AReading, fetchedAt : Nat]

ClaudeTypes ==
  /\ late \in Nat /\ stored \in ClaudeCredentials /\ cache \in ACache
  /\ probe \in [Daemon -> ClaudeProbe] /\ told \in [Daemon -> AResult]
  /\ issued \in [1..ClaudeTokens -> Nat] /\ accepted \subseteq 1..ClaudeTokens
  /\ r1 \in [(0..ClaudeTokens) \X {"none"} -> Nat] /\ r4 \subseteq 0..ClaudeTokens

(* Tokens are issued in order; what is held was issued, and a fresh one was   *)
(* never put off.                                                             *)
InOrder ==
  /\ \A t \in 1..ClaudeTokens :
        issued[t] < ClaudeCli!NewToken /\ (issued[t] # 0 <=> t < ClaudeCli!NewToken)
  /\ \A t \in accepted : t < ClaudeCli!NewToken
  /\ stored.access < ClaudeCli!NewToken /\ stored.refresh < ClaudeCli!NewToken
  /\ Asking.creds.access < ClaudeCli!NewToken /\ Asking.creds.refresh < ClaudeCli!NewToken
  /\ \A t \in 1..ClaudeTokens : t >= ClaudeCli!NewToken => r1[<<t, "none">>] = 0

(* What put the file's login off is over, or is in the cache; and was over    *)
(* when a probe that asks, or may ask, began.                                 *)
Waits(q) ==
  /\ q.phase # "idle" =>
       /\ q.at <= late
       /\ q.creds.access # stored.access => r1[Id(stored)] <= late
       /\ q.live.limitedUntil <= q.at => q.known <= q.at
  /\ q.phase \in {"refresh", "save", "fetch"} => q.known <= q.at /\ r1[Id(q.creds)] <= q.at
  /\ q.sent => q.known <= q.at
PutOff ==
  /\ \/ r1[Id(stored)] <= late
     \/ cache.id = Id(stored) /\ cache.limitedUntil >= r1[Id(stored)]
  /\ Waits(Asking)

(* What the file holds is accepted, or was spent on a rotation that was lost  *)
(* or is being saved; then the tokens to be saved are those that work.        *)
SignedIn ==
  IF Asking.phase = "save"
  THEN /\ Asking.creds.refresh \in accepted /\ Asking.creds.refresh # stored.refresh
       /\ stored # ClaudeCli!NoFile => stored.refresh \in accepted \cup r4 \cup {Asking.spent}
  ELSE stored # ClaudeCli!NoFile => stored.refresh \in accepted \cup r4

(* A reading has the time it was taken: with it, or in the cache, until shown. *)
Dated(kept) == kept.data.at # 0 => kept.fetchedAt = kept.data.at
TimeOf(q) ==
  IF q.observedAt # 0 THEN q.observedAt ELSE ClaudeCli!LiveCache(Id(q.creds)).fetchedAt
Sees(q) ==
  /\ Dated(q.live)
  /\ q.phase # "done" => q.observedAt = 0
  /\ q.phase \notin {"profile", "done"} => q.data.at = 0
  /\ q.phase \in {"profile", "done"} /\ q.data.at # 0 => q.data.at = TimeOf(q)
Observed == Dated(cache) /\ Dated(told["daemon"]) /\ Sees(Asking)

ClaudeInv == ClaudeTypes /\ InOrder /\ PutOff /\ SignedIn /\ Observed

LEMMA SameIdentity == ASSUME NEW credentials PROVE ClaudeCli!Identity(credentials, "daemon") = Id(credentials)
BY DEF ClaudeCli!Identity, Id, NoSession, Daemon

LEMMA SameIds == ClaudeCli!Ids = (0..ClaudeTokens) \X {"none"} /\ ClaudeCli!Tokens = 1..ClaudeTokens
BY DEF ClaudeCli!Ids, ClaudeCli!Keys, ClaudeCli!Tokens, NoSession, Daemon

LEMMA SameSizeOfTokens == ASSUME NEW S PROVE ClaudeCli!Cardinality(S) = Cardinality(S)
BY DEF ClaudeCli!Cardinality, Cardinality

LEMMA Numbers == ClaudeTokens \in Nat /\ ClaudeTokens # 0 /\ Interval \in Nat /\ TokenLife \in Nat
                 /\ RetryAfters \subseteq Nat /\ Ages \subseteq Nat
BY Assumed DEF ClaudeCli!ClaudeAssumption

(* How many tokens there are is their number.                                 *)
LEMMA TokensAreCounted ==
  ASSUME issued \in [1..ClaudeTokens -> Nat]
  PROVE  /\ IsFiniteSet({t \in 1..ClaudeTokens : issued[t] # 0})
         /\ ClaudeCli!NewToken = Cardinality({t \in 1..ClaudeTokens : issued[t] # 0}) + 1
         /\ ClaudeCli!NewToken \in Nat /\ ClaudeCli!NewToken # 0
<1>1. IsFiniteSet(1..ClaudeTokens)
  BY FS_Interval, Numbers
<1>2. IsFiniteSet({t \in 1..ClaudeTokens : issued[t] # 0})
  BY <1>1, FS_Subset
<1>3. Cardinality({t \in 1..ClaudeTokens : issued[t] # 0}) \in Nat
  BY <1>2, FS_CardinalityType
<1>4. ClaudeCli!NewToken = Cardinality({t \in 1..ClaudeTokens : issued[t] # 0}) + 1
  BY SameSizeOfTokens, SameIds DEF ClaudeCli!NewToken
<1> QED  BY <1>2, <1>3, <1>4

LEMMA TokensAreCountedThen ==
  ASSUME issued' \in [1..ClaudeTokens -> Nat]
  PROVE  ClaudeCli!NewToken' = Cardinality({t \in 1..ClaudeTokens : issued'[t] # 0}) + 1
<1>1. ClaudeCli!Tokens' = 1..ClaudeTokens
  BY SameIds DEF ClaudeCli!Tokens
<1> QED  BY SameSizeOfTokens, <1>1 DEF ClaudeCli!NewToken

LEMMA OneMoreIsIssued ==
  ASSUME ClaudeTypes, InOrder, ClaudeCli!NewToken \in 1..ClaudeTokens, NEW login, login \in Nat, login # 0,
         login <= ClaudeCli!NewToken, issued' = [issued EXCEPT ![ClaudeCli!NewToken] = login]
  PROVE  /\ issued' \in [1..ClaudeTokens -> Nat]
         /\ ClaudeCli!NewToken' = ClaudeCli!NewToken + 1
         /\ \A t \in 1..ClaudeTokens :
              issued'[t] < ClaudeCli!NewToken' /\ (issued'[t] # 0 <=> t < ClaudeCli!NewToken')
<1> DEFINE new == ClaudeCli!NewToken
           before == {t \in 1..ClaudeTokens : issued[t] # 0}
<1>1. new \in Nat /\ IsFiniteSet(before) /\ new = Cardinality(before) + 1
  BY TokensAreCounted DEF ClaudeTypes
<1>2. \A t \in 1..ClaudeTokens : issued[t] < new /\ (issued[t] # 0 <=> t < new)
  BY DEF InOrder
<1>3. issued \in [1..ClaudeTokens -> Nat] /\ new \in 1..ClaudeTokens /\ issued' = [issued EXCEPT ![new] = login]
  BY DEF ClaudeTypes
<1>4. ClaudeTokens \in Nat
  BY Numbers
<1> HIDE DEF new
<1>5. issued' \in [1..ClaudeTokens -> Nat] /\ issued'[new] = login
      /\ \A t \in 1..ClaudeTokens : t # new => issued'[t] = issued[t]
  BY <1>3
<1>6. {t \in 1..ClaudeTokens : issued'[t] # 0} = before \cup {new}
  BY <1>3, <1>5
<1>7. new \notin before
  BY <1>1, <1>2
<1> HIDE DEF before
<1>8. Cardinality(before \cup {new}) = Cardinality(before) + 1
  BY <1>1, <1>7, FS_AddElement
<1>9. ClaudeCli!NewToken' = new + 1
  BY <1>1, <1>5, <1>6, <1>8, TokensAreCountedThen
<1>10. \A t \in 1..ClaudeTokens : issued'[t] < new + 1 /\ (issued'[t] # 0 <=> t < new + 1)
  BY <1>1, <1>2, <1>3, <1>4, <1>5 DEF new
<1> QED  BY <1>5, <1>9, <1>10 DEF new

LEMMA LoginIsCounted ==
  ASSUME ClaudeTypes, InOrder
  PROVE  LET login == ClaudeCli!Cardinality(ClaudeCli!Logins) + 1 IN
         login \in Nat /\ login # 0 /\ login <= ClaudeCli!NewToken
<1> DEFINE last == ClaudeCli!NewToken - 1
<1>1. ClaudeCli!NewToken \in Nat /\ ClaudeCli!NewToken # 0
  BY TokensAreCounted DEF ClaudeTypes
<1>2. \A t \in 1..ClaudeTokens : issued[t] \in Nat /\ issued[t] <= last
  BY <1>1 DEF ClaudeTypes, InOrder
<1>3. ClaudeCli!Logins = {issued[t] : t \in 1..ClaudeTokens} \ {0}
  BY SameIds DEF ClaudeCli!Logins
<1>4. last \in Nat /\ last + 1 = ClaudeCli!NewToken
  BY <1>1
<1> HIDE DEF last
<1>5. ClaudeCli!Logins \subseteq 1..last
  BY <1>2, <1>3, <1>4
<1>6. IsFiniteSet(1..last) /\ Cardinality(1..last) = last
  BY <1>4, FS_Interval
<1>7. IsFiniteSet(ClaudeCli!Logins) /\ Cardinality(ClaudeCli!Logins) <= last
  BY <1>5, <1>6, FS_Subset
<1>8. Cardinality(ClaudeCli!Logins) \in Nat
  BY <1>7, FS_CardinalityType
<1>9. ClaudeCli!Cardinality(ClaudeCli!Logins) = Cardinality(ClaudeCli!Logins)
  BY SameSizeOfTokens
<1> QED  BY <1>4, <1>7, <1>8, <1>9

LEMMA ClaudeTicks == ASSUME ClaudeInv, ClaudeCli!Tick PROVE ClaudeInv'
<1>1. /\ late \in Nat /\ late' = late + 1
      /\ UNCHANGED <<stored, accepted, cache, probe, told, issued, r1, r4>>
  BY DEF ClaudeCli!Tick, ClaudeInv, ClaudeTypes
<1>2. ClaudeCli!NewToken' = ClaudeCli!NewToken /\ Asking' = Asking
  BY <1>1, TokensAreCounted, TokensAreCountedThen DEF Asking, ClaudeInv, ClaudeTypes
<1>3. r1[Id(stored)] \in Nat /\ Asking.at \in Nat
  BY DEF ClaudeInv, ClaudeTypes, Asking, Id, Daemon, ClaudeCredentials, ClaudeProbe
<1>4. ClaudeTypes' /\ InOrder'
  <2>1. ClaudeTypes'
    BY <1>1 DEF ClaudeInv, ClaudeTypes
  <2>2. InOrder'
    BY <1>1, <1>2 DEF ClaudeInv, InOrder
  <2> QED  BY <2>1, <2>2
<1>5. PutOff'
  BY <1>1, <1>2, <1>3 DEF ClaudeInv, PutOff, Waits, Id
<1>6. SignedIn' /\ Observed'
  BY <1>1, <1>2 DEF ClaudeInv, SignedIn, Observed, Sees, TimeOf, Dated, ClaudeCli!LiveCache, Id
<1> QED  BY <1>4, <1>5, <1>6 DEF ClaudeInv

(* The file gets a login with a token issued now, and the server takes it.    *)
LEMMA NewLoginKeeps ==
  ASSUME ClaudeInv, ClaudeCli!NewToken \in 1..ClaudeTokens, NEW login, login \in Nat, login # 0,
         login <= ClaudeCli!NewToken, issued' = [issued EXCEPT ![ClaudeCli!NewToken] = login],
         stored' \in ClaudeCredentials,
         stored'.access = ClaudeCli!NewToken, stored'.refresh = ClaudeCli!NewToken,
         ClaudeCli!NewToken \in accepted', accepted' \subseteq accepted \cup {ClaudeCli!NewToken},
         \A t \in accepted : t # stored.refresh => t \in accepted',
         UNCHANGED <<late, cache, probe, told, r1, r4>>
  PROVE  ClaudeInv'
<1> DEFINE new == ClaudeCli!NewToken
<1>1. new \in Nat /\ ClaudeTokens \in Nat
  BY TokensAreCounted, Numbers DEF ClaudeInv, ClaudeTypes
<1>2. /\ issued' \in [1..ClaudeTokens -> Nat] /\ ClaudeCli!NewToken' = new + 1
      /\ \A t \in 1..ClaudeTokens :
           issued'[t] < ClaudeCli!NewToken' /\ (issued'[t] # 0 <=> t < ClaudeCli!NewToken')
  BY OneMoreIsIssued DEF ClaudeInv
<1>3. Asking' = Asking
  BY DEF Asking
<1>4. /\ stored.access \in Nat /\ stored.refresh \in Nat /\ Asking.creds.access \in Nat
      /\ Asking.creds.refresh \in Nat
  BY DEF ClaudeInv, ClaudeTypes, Asking, Daemon, ClaudeCredentials, ClaudeProbe
<1>5. /\ \A t \in accepted : t < new /\ t \in 1..ClaudeTokens
      /\ stored.access < new /\ stored.refresh < new /\ Asking.creds.access < new /\ Asking.creds.refresh < new
      /\ \A t \in 1..ClaudeTokens : t >= new => r1[<<t, "none">>] = 0
  BY DEF ClaudeInv, ClaudeTypes, InOrder
<1>6. late \in Nat
  BY DEF ClaudeInv, ClaudeTypes
<1> HIDE DEF new
<1>7. accepted' \subseteq 1..ClaudeTokens /\ \A t \in accepted' : t < new + 1
  BY <1>1, <1>5 DEF new
<1>8. ClaudeTypes'
  BY <1>2, <1>7 DEF ClaudeInv, ClaudeTypes
<1>9. InOrder'
  <2>1. /\ stored'.access < new + 1 /\ stored'.refresh < new + 1 /\ Asking'.creds.access < new + 1
        /\ Asking'.creds.refresh < new + 1
    BY <1>1, <1>3, <1>4, <1>5 DEF new
  <2>2. \A t \in 1..ClaudeTokens : t >= new + 1 => r1'[<<t, "none">>] = 0
    BY <1>1, <1>5
  <2> QED  BY <1>2, <1>7, <2>1, <2>2 DEF InOrder
<1>10. r1'[Id(stored)'] = 0
  BY <1>1, <1>5 DEF Id, new
<1>11. PutOff'
  BY <1>3, <1>6, <1>10 DEF ClaudeInv, PutOff, Waits, Id
<1>12. SignedIn'
  <2>1. new \in accepted' /\ stored'.refresh = new
    BY DEF new
  <2>2. ASSUME Asking.phase = "save"
        PROVE  Asking.creds.refresh \in accepted' /\ Asking.creds.refresh # stored'.refresh
    BY <1>1, <1>4, <1>5, <2>1, <2>2 DEF ClaudeInv, SignedIn
  <2> QED  BY <1>3, <2>1, <2>2 DEF SignedIn
<1>13. Observed'
  BY <1>3 DEF ClaudeInv, Observed, Sees, TimeOf, Dated, ClaudeCli!LiveCache, Id
<1> QED  BY <1>8, <1>9, <1>11, <1>12, <1>13 DEF ClaudeInv

LEMMA OwnerKeepsClaude ==
  ASSUME ClaudeInv, ClaudeCli!CliRefresh \/ \E scope \in BOOLEAN : ClaudeCli!CliLogin(scope)
  PROVE  ClaudeInv'
<1>1. /\ late \in Nat /\ TokenLife \in Nat /\ stored \in ClaudeCredentials
      /\ ClaudeCli!NewToken \in Nat /\ ClaudeTokens \in Nat /\ ClaudeCli!Tokens = 1..ClaudeTokens
      /\ late + TokenLife \in Nat
  BY TokensAreCounted, Numbers, SameIds DEF ClaudeInv, ClaudeTypes
<1>2. ASSUME NEW scope \in BOOLEAN, ClaudeCli!CliLogin(scope) PROVE ClaudeInv'
  <2> DEFINE login == ClaudeCli!Cardinality(ClaudeCli!Logins) + 1
  <2>1. login \in Nat /\ login # 0 /\ login <= ClaudeCli!NewToken
    BY LoginIsCounted DEF ClaudeInv
  <2>2. /\ ClaudeCli!NewToken \in 1..ClaudeTokens
        /\ issued' = [issued EXCEPT ![ClaudeCli!NewToken] = login]
        /\ accepted' = accepted \cup {ClaudeCli!NewToken}
        /\ stored' = [access |-> ClaudeCli!NewToken, refresh |-> ClaudeCli!NewToken,
                      expires |-> late + TokenLife, profile |-> scope]
        /\ UNCHANGED <<late, cache, probe, told, r1, r4>>
    BY <1>1, <1>2 DEF ClaudeCli!CliLogin
  <2>3. /\ stored' \in ClaudeCredentials /\ stored'.access = ClaudeCli!NewToken
        /\ stored'.refresh = ClaudeCli!NewToken
    BY <1>1, <2>2 DEF ClaudeCredentials
  <2>4. /\ ClaudeCli!NewToken \in accepted' /\ accepted' \subseteq accepted \cup {ClaudeCli!NewToken}
        /\ \A t \in accepted : t # stored.refresh => t \in accepted'
    BY <2>2
  <2> HIDE DEF login
  <2> QED  BY <2>1, <2>2, <2>3, <2>4, NewLoginKeeps
<1>3. CASE ClaudeCli!CliRefresh
  <2>1. /\ ClaudeCli!NewToken \in 1..ClaudeTokens /\ stored.refresh \in accepted
        /\ issued' = [issued EXCEPT ![ClaudeCli!NewToken] = issued[stored.refresh]]
        /\ accepted' = (accepted \ {stored.refresh}) \cup {ClaudeCli!NewToken}
        /\ stored' = [stored EXCEPT !.access = ClaudeCli!NewToken, !.refresh = ClaudeCli!NewToken,
                                    !.expires = late + TokenLife]
        /\ UNCHANGED <<late, cache, probe, told, r1, r4>>
    BY <1>1, <1>3 DEF ClaudeCli!CliRefresh
  <2> DEFINE new == ClaudeCli!NewToken
             ends == late + TokenLife
  <2>4. /\ new \in 0..ClaudeTokens /\ ends \in Nat /\ stored \in ClaudeCredentials
        /\ stored' = [stored EXCEPT !.access = new, !.refresh = new, !.expires = ends]
    BY <1>1, <2>1
  <2>5. /\ ClaudeCli!NewToken \in accepted' /\ accepted' \subseteq accepted \cup {ClaudeCli!NewToken}
        /\ \A t \in accepted : t # stored.refresh => t \in accepted'
    BY <2>1
  <2> HIDE DEF new, ends
  <2>6. stored' \in ClaudeCredentials /\ stored'.access = new /\ stored'.refresh = new
    BY <2>4 DEF ClaudeCredentials
  <2>2. /\ stored' \in ClaudeCredentials /\ stored'.access = ClaudeCli!NewToken
        /\ stored'.refresh = ClaudeCli!NewToken
    BY <2>6 DEF new
  <2>3. issued[stored.refresh] \in Nat /\ issued[stored.refresh] # 0
        /\ issued[stored.refresh] <= ClaudeCli!NewToken
    BY <1>1, <2>1 DEF ClaudeInv, ClaudeTypes, InOrder
  <2> QED  BY <2>1, <2>2, <2>3, <2>5, NewLoginKeeps
<1> QED  BY <1>2, <1>3

(* A step of the probe alone, and what it showed.                             *)
LEMMA AskingMoves ==
  ASSUME ClaudeInv, NEW q, q \in ClaudeProbe, probe' = [probe EXCEPT !["daemon"] = q],
         UNCHANGED <<late, stored, accepted, cache, issued, r1>>,
         told' \in [Daemon -> AResult], Dated(told'["daemon"]),
         q.creds.access < ClaudeCli!NewToken, q.creds.refresh < ClaudeCli!NewToken, Waits(q), Sees(q), q.phase # "save",
         r4' \subseteq 0..ClaudeTokens, r4 \subseteq r4', Asking.phase = "save" => Asking.spent \in r4'
  PROVE  ClaudeInv'
<1>1. Asking' = q /\ probe' \in [Daemon -> ClaudeProbe]
  BY DEF Asking, ClaudeInv, ClaudeTypes, Daemon
<1>2. ClaudeCli!NewToken' = ClaudeCli!NewToken
  BY TokensAreCounted, TokensAreCountedThen DEF ClaudeInv, ClaudeTypes
<1>3. ClaudeTypes' /\ InOrder'
  BY <1>1, <1>2 DEF ClaudeInv, ClaudeTypes, InOrder
<1>4. PutOff'
  BY <1>1 DEF ClaudeInv, PutOff, Waits, Id
<1>5. SignedIn'
  BY <1>1 DEF ClaudeInv, SignedIn
<1>6. Observed'
  <2>1. Dated(cache') /\ Dated(told'["daemon"])
    BY DEF ClaudeInv, Observed
  <2>2. Sees(q)'
    BY DEF Sees, TimeOf, ClaudeCli!LiveCache
  <2> QED  BY <1>1, <2>1, <2>2 DEF Observed, Sees, TimeOf, Dated, ClaudeCli!LiveCache
<1> QED  BY <1>3, <1>4, <1>5, <1>6 DEF ClaudeInv

(* How the probe is typed, and what the invariant says of it.                 *)
LEMMA AskingIs ==
  ASSUME ClaudeInv
  PROVE  /\ Asking \in ClaudeProbe /\ Waits(Asking) /\ Sees(Asking)
         /\ Asking.creds.access < ClaudeCli!NewToken /\ Asking.creds.access \in 0..ClaudeTokens
         /\ Asking.creds.refresh < ClaudeCli!NewToken
         /\ told \in [Daemon -> AResult] /\ Dated(told["daemon"])
         /\ ClaudeCli!NewToken \in Nat /\ ClaudeCli!NewToken # 0
         /\ late \in Nat /\ stored \in ClaudeCredentials
         /\ r1 \in [(0..ClaudeTokens) \X {"none"} -> Nat] /\ cache \in ACache /\ r4 \subseteq 0..ClaudeTokens
         /\ Asking.spent \in 0..ClaudeTokens
         /\ \A credentials \in ClaudeCredentials : r1[Id(credentials)] \in Nat
BY TokensAreCounted
   DEF ClaudeInv, ClaudeTypes, InOrder, PutOff, Observed, Asking, Daemon, ClaudeProbe, ClaudeCredentials, Id

LEMMA ClaudeIdles ==
  /\ ClaudeCli!Idle \in ClaudeProbe /\ ClaudeCli!Idle.phase = "idle" /\ ClaudeCli!Idle.creds.access = 0
  /\ ClaudeCli!Idle.creds.refresh = 0
  /\ ClaudeCli!Idle.live = ClaudeCli!Blank /\ ClaudeCli!Idle.data.at = 0 /\ ClaudeCli!Idle.observedAt = 0
  /\ ~ClaudeCli!Idle.sent /\ ClaudeCli!Blank \in ACache /\ ClaudeCli!Blank.data.at = 0
  /\ ClaudeCli!NoReading \in AReading /\ ClaudeCli!NoReading.at = 0
  /\ ClaudeCli!NoFile \in ClaudeCredentials /\ ClaudeCli!NoFile.access = 0 /\ ClaudeCli!NoFile.refresh = 0
<1>1. ClaudeCli!NoReading \in AReading /\ ClaudeCli!NoReading.at = 0
  BY DEF ClaudeCli!NoReading, AReading
<1>2. /\ ClaudeCli!NoFile \in ClaudeCredentials /\ ClaudeCli!NoFile.access = 0
      /\ ClaudeCli!NoFile.refresh = 0
  BY Numbers DEF ClaudeCli!NoFile, ClaudeCredentials
<1>3. ClaudeCli!Blank \in ACache /\ ClaudeCli!Blank.data = ClaudeCli!NoReading
  BY <1>1, Numbers DEF ClaudeCli!Blank, ACache
<1>4. /\ ClaudeCli!Idle \in ClaudeProbe /\ ClaudeCli!Idle.phase = "idle"
      /\ ClaudeCli!Idle.creds = ClaudeCli!NoFile /\ ClaudeCli!Idle.observedAt = 0
      /\ ClaudeCli!Idle.live = ClaudeCli!Blank /\ ClaudeCli!Idle.data = ClaudeCli!NoReading
      /\ ~ClaudeCli!Idle.sent
  BY <1>1, <1>2, <1>3, Numbers DEF ClaudeCli!Idle, ClaudeProbe
<1> QED  BY <1>1, <1>2, <1>3, <1>4

LEMMA IdleIsQuiet == ClaudeInv => /\ Waits(ClaudeCli!Idle) /\ Sees(ClaudeCli!Idle)
                                  /\ ClaudeCli!Idle.creds.access < ClaudeCli!NewToken
                                  /\ ClaudeCli!Idle.creds.refresh < ClaudeCli!NewToken
BY ClaudeIdles, AskingIs DEF Waits, Sees, Dated

LEMMA ClaudeDies == ASSUME ClaudeInv, NEW p \in Daemon, ClaudeCli!Die(p) PROVE ClaudeInv'
<1>1. /\ probe' = [probe EXCEPT !["daemon"] = ClaudeCli!Idle]
      /\ r4' = r4 \cup (IF Asking.phase = "save" THEN {Asking.spent} ELSE {})
      /\ UNCHANGED <<late, stored, accepted, cache, told, issued, r1>>
  BY DEF ClaudeCli!Die, Daemon, Asking
<1>2. told' \in [Daemon -> AResult] /\ Dated(told'["daemon"]) /\ r4' \subseteq 0..ClaudeTokens
      /\ r4 \subseteq r4' /\ (Asking.phase = "save" => Asking.spent \in r4')
  BY <1>1, AskingIs
<1> QED  BY <1>1, <1>2, ClaudeIdles, IdleIsQuiet, AskingMoves

LEMMA ClaudeStarts == ClaudeCli!Init => ClaudeInv
<1> SUFFICES ASSUME ClaudeCli!Init PROVE ClaudeInv
  OBVIOUS
<1>1. /\ late = 1 /\ stored = ClaudeCli!NoFile /\ accepted = {} /\ cache = ClaudeCli!Blank
      /\ probe = [p \in Daemon |-> ClaudeCli!Idle] /\ told = [p \in Daemon |-> ClaudeCli!NoResult]
      /\ issued = [t \in 1..ClaudeTokens |-> 0] /\ r1 = [id \in (0..ClaudeTokens) \X {"none"} |-> 0]
      /\ r4 = {}
  BY SameIds DEF ClaudeCli!Init
<1>2. /\ ClaudeCli!NoResult \in AResult /\ ClaudeCli!NoResult.data.at = 0
  BY ClaudeIdles DEF ClaudeCli!NoResult, AResult
<1>3. Asking = ClaudeCli!Idle /\ told["daemon"] = ClaudeCli!NoResult
  BY <1>1 DEF Asking, Daemon
<1>4. issued \in [1..ClaudeTokens -> Nat]
  BY <1>1
<1>5. ClaudeTypes
  BY <1>1, <1>2, <1>4, ClaudeIdles DEF ClaudeTypes, Daemon
<1>6. ClaudeCli!NewToken = 1
  <2>1. {t \in 1..ClaudeTokens : issued[t] # 0} = {}
    BY <1>1
  <2> QED  BY <1>4, <2>1, TokensAreCounted, FS_EmptySet
<1>7. InOrder
  BY <1>1, <1>3, <1>6, ClaudeIdles, Numbers DEF InOrder
<1>8. PutOff
  <2>1. r1[Id(stored)] = 0
    BY <1>1, ClaudeIdles DEF Id, ClaudeCredentials
  <2> QED  BY <1>1, <1>3, <2>1, ClaudeIdles DEF PutOff, Waits
<1>9. SignedIn /\ Observed
  BY <1>1, <1>2, <1>3, ClaudeIdles DEF SignedIn, Observed, Sees, Dated
<1> QED  BY <1>5, <1>7, <1>8, <1>9 DEF ClaudeInv

(* What a step of the probe changes in it, most often: the phase.             *)
SameBut(q, l) ==
  /\ q \in ClaudeProbe /\ q.at = l.at /\ q.creds = l.creds /\ q.live = l.live /\ q.known = l.known
SameData(q, l) == q.data = l.data /\ q.observedAt = l.observedAt

LEMMA PhaseAlone ==
  ASSUME NEW l, NEW x, l \in ClaudeProbe,
         x \in {"idle", "refresh", "save", "fetch", "profile", "failed", "done"}
  PROVE  LET q == [l EXCEPT !.phase = x] IN
         SameBut(q, l) /\ SameData(q, l) /\ q.phase = x /\ q.sent = l.sent
<1> DEFINE q == [l EXCEPT !.phase = x]
<1>1. q \in ClaudeProbe
  BY DEF ClaudeProbe
<1>2. /\ q.at = l.at /\ q.creds = l.creds /\ q.live = l.live /\ q.known = l.known
      /\ q.data = l.data /\ q.observedAt = l.observedAt /\ q.phase = x /\ q.sent = l.sent
  BY DEF ClaudeProbe
<1> QED  BY <1>1, <1>2 DEF SameBut, SameData

LEMMA PhaseSaved ==
  ASSUME NEW l, l \in ClaudeProbe
  PROVE  LET q == [l EXCEPT !.phase = "fetch", !.spent = 0] IN
         SameBut(q, l) /\ SameData(q, l) /\ q.phase = "fetch" /\ q.sent = l.sent
<1> DEFINE q == [l EXCEPT !.phase = "fetch", !.spent = 0]
<1>1. q \in ClaudeProbe
  <2>1. 0 \in 0..ClaudeTokens
    BY Numbers
  <2> QED  BY <2>1 DEF ClaudeProbe
<1>2. /\ q.at = l.at /\ q.creds = l.creds /\ q.live = l.live /\ q.known = l.known
      /\ q.data = l.data /\ q.observedAt = l.observedAt /\ q.phase = "fetch" /\ q.sent = l.sent
  BY DEF ClaudeProbe
<1> QED  BY <1>1, <1>2 DEF SameBut, SameData

LEMMA PhaseSent ==
  ASSUME NEW l, NEW x, l \in ClaudeProbe,
         x \in {"idle", "refresh", "save", "fetch", "profile", "failed", "done"}
  PROVE  LET q == [l EXCEPT !.phase = x, !.sent = TRUE] IN
         SameBut(q, l) /\ SameData(q, l) /\ q.phase = x
<1> DEFINE q == [l EXCEPT !.phase = x, !.sent = TRUE]
<1>1. q \in ClaudeProbe
  BY DEF ClaudeProbe
<1>2. /\ q.at = l.at /\ q.creds = l.creds /\ q.live = l.live /\ q.known = l.known
      /\ q.data = l.data /\ q.observedAt = l.observedAt /\ q.phase = x
  BY DEF ClaudeProbe
<1> QED  BY <1>1, <1>2 DEF SameBut, SameData

LEMMA PhaseRetried ==
  ASSUME NEW l, l \in ClaudeProbe
  PROVE  LET q == [l EXCEPT !.phase = "refresh", !.retried = TRUE, !.sent = TRUE] IN
         SameBut(q, l) /\ SameData(q, l) /\ q.phase = "refresh"
<1> DEFINE q == [l EXCEPT !.phase = "refresh", !.retried = TRUE, !.sent = TRUE]
<1>1. q \in ClaudeProbe
  BY DEF ClaudeProbe
<1>2. /\ q.at = l.at /\ q.creds = l.creds /\ q.live = l.live /\ q.known = l.known
      /\ q.data = l.data /\ q.observedAt = l.observedAt /\ q.phase = "refresh"
  BY DEF ClaudeProbe
<1> QED  BY <1>1, <1>2 DEF SameBut, SameData

(* A probe that asks goes on asking, or fails.                                *)
LEMMA AskingGoes ==
  ASSUME ClaudeInv, NEW q, SameBut(q, Asking), SameData(q, Asking), q.phase \in {"refresh", "fetch", "failed"},
         Asking.phase \in {"refresh", "save", "fetch"}, probe' = [probe EXCEPT !["daemon"] = q],
         UNCHANGED <<late, stored, accepted, cache, told, issued, r1, r4>>, Asking.phase # "save"
  PROVE  ClaudeInv'
<1>1. Waits(q)
  BY AskingIs DEF Waits, SameBut
<1>2. Sees(q)
  BY AskingIs DEF Sees, SameBut, SameData
<1> QED  BY <1>1, <1>2, AskingIs, AskingMoves DEF SameBut

LEMMA SavedKeeps == ASSUME ClaudeInv, NEW p \in Daemon, ClaudeCli!SaveCredentials(p) PROVE ClaudeInv'
<1> DEFINE q == [Asking EXCEPT !.phase = "fetch", !.spent = 0]
<1>1. /\ Asking.phase = "save" /\ probe' = [probe EXCEPT !["daemon"] = q] /\ stored' = Asking.creds
      /\ UNCHANGED <<late, accepted, cache, told, issued, r1, r4>>
  BY DEF ClaudeCli!SaveCredentials, ClaudeCli!Goes, Asking, Daemon
<1>2. SameBut(q, Asking) /\ SameData(q, Asking) /\ q.phase = "fetch" /\ q.sent = Asking.sent
  BY AskingIs, PhaseSaved
<1> HIDE DEF q
<1>3. Asking' = q /\ probe' \in [Daemon -> ClaudeProbe]
  BY <1>1, <1>2 DEF Asking, ClaudeInv, ClaudeTypes, Daemon, SameBut
<1>4. ClaudeCli!NewToken' = ClaudeCli!NewToken
  BY <1>1, TokensAreCounted, TokensAreCountedThen DEF ClaudeInv, ClaudeTypes
<1>5. Asking.creds \in ClaudeCredentials
  BY AskingIs DEF ClaudeProbe
<1>6. ClaudeTypes'
  BY <1>1, <1>3, <1>5 DEF ClaudeInv, ClaudeTypes
<1>7. Asking.creds.refresh < ClaudeCli!NewToken
  BY <1>1, AskingIs
<1>8. InOrder'
  BY <1>1, <1>2, <1>3, <1>4, <1>7 DEF ClaudeInv, InOrder, SameBut
<1>9. PutOff'
  <2>1. /\ Asking.known <= Asking.at /\ r1[Id(Asking.creds)] <= Asking.at /\ Asking.at <= late
        /\ Asking.at \in Nat /\ r1[Id(Asking.creds)] \in Nat
    BY <1>1, <1>5, AskingIs DEF Waits, ClaudeProbe
  <2>2. r1'[Id(stored)'] = r1[Id(Asking.creds)] /\ r1[Id(Asking.creds)] <= late
    BY <1>1, <2>1, AskingIs DEF Id
  <2> QED  BY <1>1, <1>2, <1>3, <2>1, <2>2 DEF PutOff, Waits, SameBut, Id
<1>10. SignedIn'
  BY <1>1, <1>2, <1>3 DEF ClaudeInv, SignedIn
<1>11. Observed'
  BY <1>1, <1>2, <1>3 DEF ClaudeInv, Observed, Sees, SameBut, SameData, TimeOf, Dated, ClaudeCli!LiveCache
<1> QED  BY <1>6, <1>8, <1>9, <1>10, <1>11 DEF ClaudeInv

(* The write fails, and what the file holds was spent.                        *)
LEMMA UnsavedKeeps == ASSUME ClaudeInv, NEW p \in Daemon, ClaudeCli!SaveFails(p) PROVE ClaudeInv'
<1> DEFINE q == [Asking EXCEPT !.phase = "fetch", !.spent = 0]
<1>1. /\ Asking.phase = "save" /\ probe' = [probe EXCEPT !["daemon"] = q]
      /\ r4' = r4 \cup {Asking.spent}
      /\ UNCHANGED <<late, stored, accepted, cache, told, issued, r1>>
  BY DEF ClaudeCli!SaveFails, ClaudeCli!Goes, Asking, Daemon
<1>2. SameBut(q, Asking) /\ SameData(q, Asking) /\ q.phase = "fetch" /\ q.sent = Asking.sent
  BY AskingIs, PhaseSaved
<1> HIDE DEF q
<1>3. Waits(q) /\ Sees(q)
  BY <1>1, <1>2, AskingIs DEF Waits, Sees, SameBut, SameData
<1>4. r4' \subseteq 0..ClaudeTokens /\ r4 \subseteq r4' /\ Asking.spent \in r4'
  BY <1>1, AskingIs
<1> QED  BY <1>1, <1>2, <1>3, <1>4, AskingIs, AskingMoves DEF SameBut

(* The server rotates the tokens: the probe has the new ones to save, or the  *)
(* answer is lost.                                                            *)
LEMMA RotationKeeps ==
  ASSUME ClaudeInv, Asking.phase = "refresh", NEW q, q \in ClaudeProbe, probe' = [probe EXCEPT !["daemon"] = q],
         ClaudeCli!NewToken \in 1..ClaudeTokens, Asking.creds.refresh \in accepted,
         accepted' = (accepted \ {Asking.creds.refresh}) \cup {ClaudeCli!NewToken},
         issued' = [issued EXCEPT ![ClaudeCli!NewToken] = issued[Asking.creds.refresh]],
         UNCHANGED <<late, stored, cache, told, r1>>,
         q.at = Asking.at, q.live = Asking.live, q.known = Asking.known, q.sent = Asking.sent,
         SameData(q, Asking),
         \/ q.phase = "save" /\ r4' = r4 /\ q.creds.access = ClaudeCli!NewToken
            /\ q.creds.refresh = ClaudeCli!NewToken /\ q.spent = Asking.creds.refresh
         \/ /\ q.phase \in {"fetch", "failed"} /\ q.creds = Asking.creds
            /\ r4' = r4 \cup {Asking.creds.refresh}
  PROVE  ClaudeInv'
<1> DEFINE new == ClaudeCli!NewToken
           login == issued[Asking.creds.refresh]
<1>1. /\ new \in Nat /\ ClaudeTokens \in Nat /\ Asking \in ClaudeProbe
  BY Numbers, AskingIs
<1>2. login \in Nat /\ login # 0 /\ login <= new
  <2>1. Asking.creds.refresh \in 1..ClaudeTokens
    BY DEF ClaudeInv, ClaudeTypes
  <2>2. Asking.creds.refresh < new
    BY AskingIs
  <2>3. login \in Nat
    BY <2>1 DEF ClaudeInv, ClaudeTypes
  <2>4. login < new /\ login # 0
    BY <2>1, <2>2 DEF ClaudeInv, InOrder
  <2> HIDE DEF login, new
  <2> QED  BY <1>1, <2>3, <2>4
<1>3. /\ issued' \in [1..ClaudeTokens -> Nat] /\ ClaudeCli!NewToken' = new + 1
      /\ \A t \in 1..ClaudeTokens :
           issued'[t] < ClaudeCli!NewToken' /\ (issued'[t] # 0 <=> t < ClaudeCli!NewToken')
  <2>1. issued' = [issued EXCEPT ![ClaudeCli!NewToken] = login]
    OBVIOUS
  <2> HIDE DEF login
  <2> QED  BY <1>2, <2>1, OneMoreIsIssued DEF ClaudeInv
<1>4. Asking' = q /\ probe' \in [Daemon -> ClaudeProbe]
  BY DEF Asking, ClaudeInv, ClaudeTypes, Daemon
<1>5. /\ \A t \in accepted : t < new /\ t \in 1..ClaudeTokens
      /\ stored.access < new /\ stored.refresh < new /\ stored.access \in Nat /\ stored.refresh \in Nat
      /\ Asking.creds.access < new /\ Asking.creds.refresh < new
      /\ Asking.creds.access \in Nat /\ Asking.creds.refresh \in Nat
      /\ \A t \in 1..ClaudeTokens : t >= new => r1[<<t, "none">>] = 0
  <2>1. \A t \in accepted : t < new /\ t \in 1..ClaudeTokens
    BY DEF ClaudeInv, ClaudeTypes, InOrder
  <2>2. stored.access \in Nat /\ stored.refresh \in Nat
    BY AskingIs DEF ClaudeCredentials
  <2>3. Asking.creds.access \in Nat /\ Asking.creds.refresh \in Nat
    BY AskingIs DEF ClaudeProbe, ClaudeCredentials
  <2>4. /\ stored.access < new /\ stored.refresh < new
        /\ \A t \in 1..ClaudeTokens : t >= new => r1[<<t, "none">>] = 0
    BY DEF ClaudeInv, InOrder
  <2> QED  BY AskingIs, <2>1, <2>2, <2>3, <2>4
<1>6. new \in 1..ClaudeTokens /\ new \in accepted'
  OBVIOUS
<1>7. \/ /\ q.phase = "save" /\ r4' = r4 /\ q.creds.access = new /\ q.creds.refresh = new
         /\ q.spent = Asking.creds.refresh
      \/ /\ q.phase \in {"fetch", "failed"} /\ q.creds = Asking.creds
         /\ r4' = r4 \cup {Asking.creds.refresh}
  OBVIOUS
<1> HIDE DEF new, login
<1>8. accepted' \subseteq 1..ClaudeTokens /\ \A t \in accepted' : t < new + 1
  BY <1>1, <1>5, <1>6 DEF new
<1>9. ClaudeTypes'
  <2>1. r4' \subseteq 0..ClaudeTokens
    BY <1>5, <1>7, AskingIs DEF ClaudeProbe, ClaudeCredentials
  <2> QED  BY <1>3, <1>4, <1>8, <2>1 DEF ClaudeInv, ClaudeTypes
<1>10. InOrder'
  <2>1. /\ stored'.access < new + 1 /\ stored'.refresh < new + 1 /\ Asking'.creds.access < new + 1
        /\ Asking'.creds.refresh < new + 1
    BY <1>1, <1>4, <1>5, <1>7
  <2>2. \A t \in 1..ClaudeTokens : t >= new + 1 => r1'[<<t, "none">>] = 0
    BY <1>1, <1>5
  <2> QED  BY <1>3, <1>8, <2>1, <2>2 DEF InOrder
<1>11. PutOff'
  <2>1. /\ r1[Id(Asking.creds)] <= Asking.at /\ Asking.at <= late /\ Asking.known <= Asking.at
        /\ Asking.creds.access # stored.access => r1[Id(stored)] <= late
        /\ Asking.at \in Nat /\ r1[Id(Asking.creds)] \in Nat /\ late \in Nat
        /\ \/ r1[Id(stored)] <= late
           \/ cache.id = Id(stored) /\ cache.limitedUntil >= r1[Id(stored)]
    BY AskingIs DEF Waits, ClaudeProbe, ClaudeInv, PutOff
  <2>2. r1[Id(stored)] <= late
    BY <2>1 DEF Id
  <2>3. q.phase = "save" => r1[Id(q.creds)] = 0
    BY <1>1, <1>5, <1>6, <1>7 DEF Id
  <2> QED  BY <1>4, <1>7, <2>1, <2>2, <2>3 DEF PutOff, Waits, Id
<1>12. SignedIn'
  <2>1. stored # ClaudeCli!NoFile => stored.refresh \in accepted \cup r4
    BY DEF ClaudeInv, SignedIn
  <2>2. stored # ClaudeCli!NoFile => stored.refresh \in accepted' \cup r4 \cup {Asking.creds.refresh}
    BY <2>1
  <2> QED  BY <1>1, <1>4, <1>5, <1>6, <1>7, <2>2 DEF SignedIn
<1>13. Observed'
  <2>1. Asking.data.at = 0 /\ Asking.observedAt = 0 /\ Dated(Asking.live)
    BY AskingIs DEF Sees
  <2>2. q.phase \in {"save", "fetch", "failed"}
    BY <1>7
  <2> QED  BY <1>4, <2>1, <2>2 DEF ClaudeInv, Observed, Sees, SameData, TimeOf, Dated, ClaudeCli!LiveCache
<1> QED  BY <1>9, <1>10, <1>11, <1>12, <1>13 DEF ClaudeInv

LEMMA RefreshKeeps == ASSUME ClaudeInv, NEW a, ClaudeCli!RefreshAnswered("daemon", a) PROVE ClaudeInv'
<1>1. /\ Asking.phase = "refresh" /\ UNCHANGED <<late, stored, cache, told, r1>>
      /\ late \in Nat /\ TokenLife \in Nat /\ ClaudeCli!Tokens = 1..ClaudeTokens /\ Asking \in ClaudeProbe
  BY AskingIs, Numbers, SameIds DEF ClaudeCli!RefreshAnswered, Asking
<1>2. CASE a = "ok"
  <2> DEFINE new == ClaudeCli!NewToken
             ends == late + TokenLife
             old == Asking.creds.refresh
             q == [Asking EXCEPT !.phase = "save", !.spent = old,
                                 !.creds = [@ EXCEPT !.access = new, !.refresh = new, !.expires = ends]]
  <2>1. /\ new \in 1..ClaudeTokens /\ Asking.creds.refresh \in accepted
        /\ accepted' = (accepted \ {Asking.creds.refresh}) \cup {new}
        /\ issued' = [issued EXCEPT ![new] = issued[Asking.creds.refresh]]
        /\ probe' = [probe EXCEPT !["daemon"] = q] /\ r4' = r4
    BY <1>1, <1>2 DEF ClaudeCli!RefreshAnswered, ClaudeCli!Goes, Asking
  <2>2. new \in 0..ClaudeTokens /\ ends \in Nat
    BY <1>1, <2>1
  <2> HIDE DEF new, ends
  <2>3. Asking.creds \in ClaudeCredentials
    BY <1>1 DEF ClaudeProbe
  <2>9. old \in 0..ClaudeTokens
    BY <2>3 DEF ClaudeCredentials
  <2> DEFINE fresh == [Asking.creds EXCEPT !.access = new, !.refresh = new, !.expires = ends]
  <2>4. fresh \in ClaudeCredentials /\ fresh.access = new /\ fresh.refresh = new
    BY <2>2, <2>3 DEF ClaudeCredentials
  <2>5. q = [Asking EXCEPT !.phase = "save", !.spent = old, !.creds = fresh]
    BY <1>1 DEF ClaudeProbe
  <2> HIDE DEF q, fresh, old
  <2>6. /\ q \in ClaudeProbe /\ q.phase = "save" /\ q.creds = fresh /\ q.spent = old
    BY <1>1, <2>4, <2>5, <2>9 DEF ClaudeProbe
  <2>7. /\ q.at = Asking.at /\ q.live = Asking.live /\ q.known = Asking.known /\ q.sent = Asking.sent
        /\ SameData(q, Asking)
    BY <1>1, <2>5 DEF ClaudeProbe, SameData
  <2>8. q.creds.access = new /\ q.creds.refresh = new
    BY <2>4, <2>6
  <2> QED  BY <1>1, <2>1, <2>6, <2>7, <2>8, RotationKeeps DEF new, old
<1>3. CASE a = "lost"
  <2> DEFINE x == IF Asking.retried THEN "failed" ELSE "fetch"
             q == [Asking EXCEPT !.phase = x]
  <2>1. /\ ClaudeCli!NewToken \in 1..ClaudeTokens /\ Asking.creds.refresh \in accepted
        /\ accepted' = (accepted \ {Asking.creds.refresh}) \cup {ClaudeCli!NewToken}
        /\ issued' = [issued EXCEPT ![ClaudeCli!NewToken] = issued[Asking.creds.refresh]]
        /\ probe' = [probe EXCEPT !["daemon"] = q] /\ r4' = r4 \cup {Asking.creds.refresh}
    BY <1>1, <1>3 DEF ClaudeCli!RefreshAnswered, ClaudeCli!Goes, Asking
  <2>2. x \in {"failed", "fetch"}
    OBVIOUS
  <2> HIDE DEF x
  <2>3. SameBut(q, Asking) /\ SameData(q, Asking) /\ q.phase = x /\ q.sent = Asking.sent
    BY <1>1, <2>2, PhaseAlone
  <2> HIDE DEF q
  <2>4. /\ q \in ClaudeProbe /\ q.at = Asking.at /\ q.live = Asking.live /\ q.known = Asking.known
        /\ q.creds = Asking.creds /\ q.phase \in {"fetch", "failed"}
    BY <2>2, <2>3 DEF SameBut
  <2> QED  BY <1>1, <2>1, <2>3, <2>4, RotationKeeps
<1>4. CASE a \in {"refused", "error"}
  <2> DEFINE x == IF a = "refused" \/ Asking.retried THEN "failed" ELSE "fetch"
             q == [Asking EXCEPT !.phase = x]
  <2>1. probe' = [probe EXCEPT !["daemon"] = q] /\ UNCHANGED <<accepted, issued, r4>>
    BY <1>1, <1>4 DEF ClaudeCli!RefreshAnswered, ClaudeCli!Goes, Asking
  <2>2. x \in {"failed", "fetch"}
    OBVIOUS
  <2> HIDE DEF x
  <2>3. SameBut(q, Asking) /\ SameData(q, Asking) /\ q.phase \in {"fetch", "failed"}
    BY <1>1, <2>2, PhaseAlone
  <2> HIDE DEF q
  <2> QED  BY <1>1, <2>1, <2>3, AskingGoes
<1> QED  BY <1>2, <1>3, <1>4 DEF ClaudeCli!RefreshAnswered

(* The probe leaves the cache to the next one, with what put it off.          *)
LEMMA CacheMoves ==
  ASSUME ClaudeInv, Asking.phase \in {"fetch", "profile"}, NEW q, SameBut(q, Asking), q.observedAt = 0,
         q.phase \in {"profile", "done"}, probe' = [probe EXCEPT !["daemon"] = q],
         UNCHANGED <<late, stored, accepted, told, issued, r4>>,
         cache' \in ACache, cache'.id = Id(Asking.creds), Dated(cache'),
         q.data.at # 0 => q.data.at = cache'.fetchedAt, q.sent => q.known <= q.at,
         r1' \in [(0..ClaudeTokens) \X {"none"} -> Nat],
         \A t \in 0..ClaudeTokens : t # Asking.creds.access => r1'[<<t, "none">>] = r1[<<t, "none">>],
         Asking.creds.access = stored.access =>
           r1'[Id(Asking.creds)] <= late \/ cache'.limitedUntil >= r1'[Id(Asking.creds)]
  PROVE  ClaudeInv'
<1>1. Asking' = q /\ probe' \in [Daemon -> ClaudeProbe]
  BY DEF Asking, ClaudeInv, ClaudeTypes, Daemon, SameBut
<1>2. ClaudeCli!NewToken' = ClaudeCli!NewToken
  BY TokensAreCounted, TokensAreCountedThen DEF ClaudeInv, ClaudeTypes
<1>3. ClaudeTypes'
  BY <1>1 DEF ClaudeInv, ClaudeTypes
<1>4. InOrder'
  <2>1. \A t \in 1..ClaudeTokens : t >= ClaudeCli!NewToken => r1'[<<t, "none">>] = 0
    <3>1. Asking.creds.access < ClaudeCli!NewToken /\ Asking.creds.access \in Nat
          /\ ClaudeCli!NewToken \in Nat /\ ClaudeTokens \in Nat
      BY AskingIs, Numbers
    <3>2. \A t \in 1..ClaudeTokens : t >= ClaudeCli!NewToken => r1[<<t, "none">>] = 0
      BY DEF ClaudeInv, InOrder
    <3> QED  BY <3>1, <3>2
  <2> QED  BY <1>1, <1>2, <2>1 DEF ClaudeInv, InOrder, SameBut
<1>5. stored.access \in 0..ClaudeTokens
  BY AskingIs DEF ClaudeCredentials
<1>6. Asking.creds.access # stored.access => r1'[Id(stored)] = r1[Id(stored)] /\ r1[Id(stored)] <= late
  BY <1>5, AskingIs DEF Waits, Id
<1>7. PutOff'
  <2>1. \/ r1'[Id(stored)] <= late
        \/ cache'.id = Id(stored) /\ cache'.limitedUntil >= r1'[Id(stored)]
    BY <1>6 DEF Id
  <2>2. /\ q.at <= late /\ (q.live.limitedUntil <= q.at => q.known <= q.at)
    BY AskingIs DEF Waits, SameBut
  <2> QED  BY <1>1, <1>6, <2>1, <2>2 DEF PutOff, Waits, SameBut, Id
<1>8. SignedIn'
  BY <1>1 DEF ClaudeInv, SignedIn
<1>9. Observed'
  <2>1. Dated(q.live) /\ Dated(told["daemon"])
    BY AskingIs DEF Sees, SameBut
  <2>2. ClaudeCli!LiveCache(Id(q.creds))' = cache'
    BY DEF ClaudeCli!LiveCache, SameBut
  <2> QED  BY <1>1, <2>1, <2>2 DEF Observed, Sees, TimeOf, Dated
<1> QED  BY <1>3, <1>4, <1>7, <1>8, <1>9 DEF ClaudeInv

LEMMA CacheIs ==
  ASSUME ClaudeInv, NEW id, id \in (0..ClaudeTokens) \X {"none"}
  PROVE  LET kept == ClaudeCli!LiveCache(id)
             written == ClaudeCli!WriteLiveCache(id) IN
         /\ kept \in ACache /\ Dated(kept)
         /\ written \in ACache /\ written.id = id
         /\ written.data = kept.data /\ written.fetchedAt = kept.fetchedAt
         /\ written.limitedUntil = kept.limitedUntil
<1> DEFINE kept == ClaudeCli!LiveCache(id)
<1>1. kept \in ACache /\ Dated(kept)
  BY ClaudeIdles, AskingIs DEF ClaudeCli!LiveCache, ClaudeInv, Observed, Dated
<1> HIDE DEF kept
<1>2. /\ [kept EXCEPT !.id = id] \in ACache /\ [kept EXCEPT !.id = id].id = id
      /\ [kept EXCEPT !.id = id].data = kept.data /\ [kept EXCEPT !.id = id].fetchedAt = kept.fetchedAt
      /\ [kept EXCEPT !.id = id].limitedUntil = kept.limitedUntil
  BY <1>1 DEF ACache
<1> QED  BY <1>1, <1>2 DEF ClaudeCli!WriteLiveCache, kept

(* A kept reading is shown with its time, or not at all.                      *)
LEMMA CachedIsDated ==
  ASSUME NEW live, NEW t, live \in ACache, Dated(live)
  PROVE  LET cached == ClaudeCli!CachedReading(live, t) IN
         cached \in AReading /\ (cached.at # 0 => cached.at = live.fetchedAt)
BY ClaudeIdles DEF ClaudeCli!CachedReading, ACache, Dated

LEMMA ServedKeeps ==
  ASSUME ClaudeInv, Asking.phase = "fetch", ClaudeCli!Fetched("daemon", Asking),
         UNCHANGED <<late, stored, accepted, told, issued, r4>>
  PROVE  ClaudeInv'
<1> DEFINE id == Id(Asking.creds)
           reading == [at |-> Asking.at, src |-> "oauth"]
           written == ClaudeCli!WriteLiveCache(id)
           q == [Asking EXCEPT !.phase = "profile", !.data = reading, !.sent = TRUE]
<1>1. Asking \in ClaudeProbe /\ Asking.at \in Nat /\ id \in (0..ClaudeTokens) \X {"none"}
  BY AskingIs DEF ClaudeProbe, Id
<1>2. reading \in AReading /\ reading.at = Asking.at
  BY <1>1 DEF AReading
<1>3. written \in ACache /\ written.id = id
  BY <1>1, CacheIs
<1>4. /\ probe' = [probe EXCEPT !["daemon"] = q] /\ r1' = r1
      /\ \E grants : /\ grants \in {Asking.at, ClaudeCli!LiveCache(id).grantsAt}
                     /\ cache' = [written EXCEPT !.limitedUntil = 0, !.lastFetch = Asking.at, !.data = reading,
                                       !.dataSource = "oauth", !.fetchedAt = Asking.at, !.grantsAt = grants]
  BY SameIdentity DEF ClaudeCli!Fetched, ClaudeCli!Goes
<1>5. ClaudeCli!LiveCache(id).grantsAt \in Nat
  BY <1>1, CacheIs DEF ACache
<1> HIDE DEF written, reading
<1>6. q \in ClaudeProbe /\ q.phase = "profile" /\ q.data = reading /\ q.observedAt = Asking.observedAt
  BY <1>1, <1>2 DEF ClaudeProbe
<1>7. q.at = Asking.at /\ q.creds = Asking.creds /\ q.live = Asking.live /\ q.known = Asking.known
  BY <1>1 DEF ClaudeProbe
<1>8. cache' \in ACache /\ cache'.id = id /\ cache'.data = reading /\ cache'.fetchedAt = Asking.at
      /\ cache'.limitedUntil = 0
  <2>1. PICK grants : /\ grants \in {Asking.at, ClaudeCli!LiveCache(id).grantsAt}
                     /\ cache' = [written EXCEPT !.limitedUntil = 0, !.lastFetch = Asking.at, !.data = reading,
                                       !.dataSource = "oauth", !.fetchedAt = Asking.at, !.grantsAt = grants]
    BY <1>4
  <2>2. grants \in Nat
    BY <1>1, <1>5, <2>1
  <2> HIDE DEF id
  <2> QED  BY <1>1, <1>2, <1>3, <2>1, <2>2 DEF ACache
<1>9. /\ Asking.observedAt = 0 /\ Asking.known <= Asking.at
      /\ r1[Id(Asking.creds)] <= Asking.at /\ Asking.at <= late
      /\ late \in Nat /\ r1[Id(Asking.creds)] \in Nat
  BY AskingIs DEF Waits, Sees, ClaudeProbe
<1>10. r1' \in [(0..ClaudeTokens) \X {"none"} -> Nat] /\ r1[Id(Asking.creds)] <= late
  BY <1>1, <1>4, <1>9, AskingIs
<1> HIDE DEF q
<1>11. SameBut(q, Asking) /\ Dated(cache') /\ q.observedAt = 0
       /\ (q.data.at # 0 => q.data.at = cache'.fetchedAt) /\ q.known <= q.at
  BY <1>2, <1>6, <1>7, <1>8, <1>9 DEF SameBut, Dated
<1> QED  BY <1>4, <1>6, <1>8, <1>10, <1>11, CacheMoves

LEMMA LimitedKeeps ==
  ASSUME ClaudeInv, Asking.phase = "fetch", NEW delay \in RetryAfters \cup {Interval},
         ClaudeCli!RateLimited("daemon", Asking, delay),
         UNCHANGED <<late, stored, accepted, told, issued, r4>>
  PROVE  ClaudeInv'
<1> DEFINE id == Id(Asking.creds)
           cached == ClaudeCli!CachedReading(Asking.live, Asking.at)
           written == ClaudeCli!WriteLiveCache(id)
           until == Asking.at + delay
           then == Asking.live.fetchedAt
           q == [Asking EXCEPT !.phase = "done", !.limited = TRUE, !.data = cached, !.sent = TRUE]
<1>1. /\ Asking \in ClaudeProbe /\ Asking.at \in Nat /\ id \in (0..ClaudeTokens) \X {"none"}
      /\ Asking.live \in ACache /\ then \in Nat
  BY AskingIs DEF ClaudeProbe, Id, ACache
<1>2. delay \in Nat /\ until \in Nat /\ until >= Asking.at
  BY <1>1, Numbers
<1>3. cached \in AReading /\ (cached.at # 0 => cached.at = then)
  <2>1. Dated(Asking.live)
    BY AskingIs DEF Sees
  <2> QED  BY <1>1, <2>1, CachedIsDated
<1>4. written \in ACache /\ written.id = id
  BY <1>1, CacheIs
<1>5. /\ probe' = [probe EXCEPT !["daemon"] = q]
      /\ r1' = [r1 EXCEPT ![id] = ClaudeCli!Larger(r1[id], until)]
      /\ cache' = [written EXCEPT !.limitedUntil = until, !.lastFetch = Asking.at, !.data = cached,
                                  !.fetchedAt = then]
  BY SameIdentity, AskingIs DEF ClaudeCli!RateLimited, ClaudeCli!Goes
<1> HIDE DEF written, cached, until, then
<1>6. q \in ClaudeProbe /\ q.phase = "done" /\ q.data = cached /\ q.observedAt = Asking.observedAt
  BY <1>1, <1>3 DEF ClaudeProbe
<1>7. q.at = Asking.at /\ q.creds = Asking.creds /\ q.live = Asking.live /\ q.known = Asking.known
  BY <1>1 DEF ClaudeProbe
<1>8. cache' \in ACache /\ cache'.id = id /\ cache'.data = cached /\ cache'.fetchedAt = then
      /\ cache'.limitedUntil = until
  <2> HIDE DEF id
  <2> QED  BY <1>1, <1>2, <1>3, <1>4, <1>5 DEF ACache
<1>9. /\ Asking.observedAt = 0 /\ Asking.known <= Asking.at
      /\ r1[id] <= Asking.at /\ r1[id] \in Nat
      /\ r1 \in [(0..ClaudeTokens) \X {"none"} -> Nat]
  BY AskingIs DEF Waits, Sees, ClaudeProbe
<1>10. ClaudeCli!Larger(r1[id], until) = until
  BY <1>1, <1>2, <1>9 DEF ClaudeCli!Larger
<1>11. r1' \in [(0..ClaudeTokens) \X {"none"} -> Nat] /\ r1'[id] = until
       /\ \A x \in (0..ClaudeTokens) \X {"none"} : x # id => r1'[x] = r1[x]
  <2> HIDE DEF id
  <2> QED  BY <1>1, <1>2, <1>5, <1>9, <1>10
<1>12. \A t \in 0..ClaudeTokens : t # Asking.creds.access => r1'[<<t, "none">>] = r1[<<t, "none">>]
  BY <1>11 DEF Id
<1> HIDE DEF q
<1>13. SameBut(q, Asking) /\ Dated(cache') /\ q.observedAt = 0
       /\ (q.data.at # 0 => q.data.at = cache'.fetchedAt) /\ q.known <= q.at
  BY <1>3, <1>6, <1>7, <1>8, <1>9 DEF SameBut, Dated
<1>14. cache'.limitedUntil >= r1'[id]
  BY <1>2, <1>8, <1>11
<1> QED  BY <1>5, <1>6, <1>8, <1>11, <1>12, <1>13, <1>14, CacheMoves

(* What Claude Code observed has the time it was observed.                    *)
LEMMA ObservationIs ==
  ASSUME NEW credentials, NEW t, t \in Nat,
         NEW reading \in ClaudeCli!Passive(credentials, t) \cup ClaudeCli!Active(credentials, t)
  PROVE  /\ reading \in AReading
         /\ reading \in ClaudeCli!Passive(credentials, t) => reading.src # "cli"
<1>1. ClaudeCli!NoReading \in AReading /\ ClaudeCli!NoReading.src = "none"
  BY DEF ClaudeCli!NoReading, AReading
<1>2. ASSUME NEW a \in Ages, a < t PROVE LET r == [at |-> t - a, src |-> "cli-cache"] IN
                                         r \in AReading /\ r.src # "cli"
  <2>1. a \in Nat /\ t - a \in Nat /\ t - a # 0
    BY <1>2, Numbers
  <2> QED  BY <2>1 DEF AReading
<1>3. LET r == [at |-> t, src |-> "cli"] IN r \in AReading /\ r.at = t
  BY DEF AReading
<1>4. ASSUME reading \in ClaudeCli!Passive(credentials, t)
      PROVE  reading \in AReading /\ reading.src # "cli"
  <2>1. reading = ClaudeCli!NoReading \/ \E a \in Ages : a < t /\ reading = [at |-> t - a, src |-> "cli-cache"]
    BY <1>4 DEF ClaudeCli!Passive
  <2> QED  BY <1>1, <1>2, <2>1
<1>5. ASSUME reading \in ClaudeCli!Active(credentials, t)
      PROVE  reading \in AReading
  BY <1>1, <1>3, <1>5 DEF ClaudeCli!Active
<1> QED  BY <1>4, <1>5

LEMMA FailureIs ==
  ASSUME ClaudeInv, ClaudeCli!Fails("daemon")
  PROVE  told' \in [Daemon -> AResult] /\ Dated(told'["daemon"])
<1>1. ClaudeCli!NoResult \in AResult /\ ClaudeCli!NoResult.data.at = 0
  BY ClaudeIdles DEF ClaudeCli!NoResult, AResult
<1> DEFINE failure == [ClaudeCli!NoResult EXCEPT !.state = "error"]
<1>2. failure \in AResult /\ failure.data.at = 0
  BY <1>1 DEF AResult
<1>3. told' = [told EXCEPT !["daemon"] = failure]
  BY DEF ClaudeCli!Fails
<1> HIDE DEF failure
<1>4. told' \in [Daemon -> AResult] /\ told'["daemon"] = failure
  BY <1>2, <1>3, AskingIs DEF Daemon
<1> QED  BY <1>2, <1>4 DEF Dated

LEMMA FetchKeeps == ASSUME ClaudeInv, NEW a, ClaudeCli!FetchAnswered("daemon", a) PROVE ClaudeInv'
<1>1. Asking.phase = "fetch" /\ UNCHANGED <<late, stored, accepted, told, issued, r4>> /\ Asking \in ClaudeProbe
  BY AskingIs DEF ClaudeCli!FetchAnswered, Asking
<1>2. CASE a = "ok"
  BY <1>1, <1>2, ServedKeeps DEF ClaudeCli!FetchAnswered, Asking
<1>3. CASE a = "limited"
  BY <1>1, <1>3, LimitedKeeps DEF ClaudeCli!FetchAnswered, Asking
<1>4. CASE a \in {"auth", "error"}
  <2>1. cache' = cache /\ r1' = r1
    BY <1>4 DEF ClaudeCli!FetchAnswered
  <2>2. \/ probe' = [probe EXCEPT !["daemon"] = [Asking EXCEPT !.phase = "failed", !.sent = TRUE]]
        \/ probe' = [probe EXCEPT !["daemon"] =
                       [Asking EXCEPT !.phase = "refresh", !.retried = TRUE, !.sent = TRUE]]
    BY <1>4 DEF ClaudeCli!FetchAnswered, ClaudeCli!Goes, Asking
  <2> DEFINE failed == [Asking EXCEPT !.phase = "failed", !.sent = TRUE]
             again == [Asking EXCEPT !.phase = "refresh", !.retried = TRUE, !.sent = TRUE]
  <2>3. SameBut(failed, Asking) /\ SameData(failed, Asking) /\ failed.phase = "failed"
    BY <1>1, PhaseSent
  <2>4. SameBut(again, Asking) /\ SameData(again, Asking) /\ again.phase = "refresh"
    BY <1>1, PhaseRetried
  <2>5. probe' = [probe EXCEPT !["daemon"] = failed] \/ probe' = [probe EXCEPT !["daemon"] = again]
    BY <2>2
  <2> HIDE DEF failed, again
  <2> QED  BY <1>1, <2>1, <2>3, <2>4, <2>5, AskingGoes
<1> QED  BY <1>2, <1>3, <1>4 DEF ClaudeCli!FetchAnswered

LEMMA LookUpKeeps == ASSUME ClaudeInv, ClaudeCli!LookUpProfile("daemon") PROVE ClaudeInv'
<1> DEFINE id == Id(Asking.creds)
           access == Asking.creds.access
           written == ClaudeCli!WriteLiveCache(id)
           q == [Asking EXCEPT !.phase = "done"]
<1>1. /\ Asking.phase = "profile" /\ probe' = [probe EXCEPT !["daemon"] = q]
      /\ UNCHANGED <<late, stored, accepted, told, issued, r1, r4>>
      /\ \/ cache' = cache
         \/ cache' = [written EXCEPT !.profileOf = access]
  BY SameIdentity DEF ClaudeCli!LookUpProfile, ClaudeCli!Goes, Asking
<1>2. /\ Asking \in ClaudeProbe /\ access \in 0..ClaudeTokens /\ access \in Nat
      /\ id \in (0..ClaudeTokens) \X {"none"}
  BY AskingIs, Numbers DEF Id
<1>3. SameBut(q, Asking) /\ SameData(q, Asking) /\ q.phase = "done" /\ q.sent = Asking.sent
  BY <1>2, PhaseAlone
<1>4. /\ written \in ACache /\ written.id = id /\ Dated(written)
      /\ written.fetchedAt = ClaudeCli!LiveCache(id).fetchedAt
      /\ written.limitedUntil = ClaudeCli!LiveCache(id).limitedUntil
  BY <1>2, CacheIs DEF Dated
<1> HIDE DEF q
<1>5. Sees(Asking) /\ Waits(Asking)
  BY AskingIs
<1>6. CASE cache' = cache
  <2>1. Waits(q) /\ Sees(q)
    BY <1>1, <1>3, <1>5 DEF Waits, Sees, SameBut, SameData, TimeOf
  <2> QED  BY <1>1, <1>3, <1>6, <2>1, AskingIs, AskingMoves DEF SameBut
<1>7. CASE cache' = [written EXCEPT !.profileOf = access]
  <2> HIDE DEF written, access
  <2>1. /\ cache' \in ACache /\ cache'.id = written.id /\ cache'.data = written.data
        /\ cache'.fetchedAt = written.fetchedAt /\ cache'.limitedUntil = written.limitedUntil
    BY <1>2, <1>4, <1>7 DEF ACache
  <2>2. q.data.at # 0 => q.data.at = cache'.fetchedAt
    BY <1>1, <1>3, <1>4, <1>5, <1>7, <2>1 DEF Sees, TimeOf, SameData
  <2>3. access = stored.access => r1'[id] <= late \/ cache'.limitedUntil >= r1'[id]
    <3>1. access = stored.access => id = Id(stored)
      BY DEF Id, access
    <3>2. id = cache.id => ClaudeCli!LiveCache(id) = cache
      BY DEF ClaudeCli!LiveCache
    <3> QED  BY <1>1, <1>4, <2>1, <3>1, <3>2 DEF ClaudeInv, PutOff
  <2>4. Dated(cache') /\ cache'.id = id
    BY <1>4, <2>1 DEF Dated
  <2>5. q.sent => q.known <= q.at
    BY <1>3, <1>5 DEF Waits, SameBut
  <2>6. \A t \in 0..ClaudeTokens : t # Asking.creds.access => r1'[<<t, "none">>] = r1[<<t, "none">>]
    BY <1>1
  <2>7. r1' \in [(0..ClaudeTokens) \X {"none"} -> Nat] /\ q.observedAt = 0
    BY <1>1, <1>3, <1>5, AskingIs DEF SameData, Sees
  <2> QED  BY <1>1, <1>3, <2>1, <2>2, <2>3, <2>4, <2>5, <2>6, <2>7, CacheMoves DEF access
<1> QED  BY <1>1, <1>6, <1>7

LEMMA FallbackKeeps == ASSUME ClaudeInv, ClaudeCli!Fallback("daemon") PROVE ClaudeInv'
<1>1. /\ Asking.phase = "failed" /\ UNCHANGED <<late, stored, accepted, cache, issued, r1, r4>>
      /\ Asking \in ClaudeProbe /\ Asking.at \in Nat /\ Asking.live \in ACache
  BY AskingIs DEF ClaudeCli!Fallback, Asking, ClaudeProbe
<1>2. ASSUME NEW reading \in ClaudeCli!Passive(Asking.creds, late) \cup ClaudeCli!Active(Asking.creds, late),
             reading # ClaudeCli!NoReading, Asking.at >= Asking.live.limitedUntil, told' = told,
             probe' = [probe EXCEPT !["daemon"] =
                        [Asking EXCEPT !.phase = "done", !.data = reading, !.src = reading.src,
                                       !.observedAt = reading.at, !.limited = FALSE,
                                       !.sent = @ \/ reading.src = "cli"]]
      PROVE  ClaudeInv'
  <2> DEFINE sent == Asking.sent \/ reading.src = "cli"
             q == [Asking EXCEPT !.phase = "done", !.data = reading, !.src = reading.src,
                                 !.observedAt = reading.at, !.limited = FALSE, !.sent = sent]
  <2>1. reading \in AReading
    BY <1>2, ObservationIs, AskingIs
  <2>2. probe' = [probe EXCEPT !["daemon"] = q]
    BY <1>1, <1>2 DEF ClaudeProbe
  <2>3. sent \in BOOLEAN
    OBVIOUS
  <2> HIDE DEF sent
  <2>4. q \in ClaudeProbe
    BY <1>1, <2>1, <2>3 DEF ClaudeProbe, AReading
  <2>5. /\ q.at = Asking.at /\ q.creds = Asking.creds /\ q.live = Asking.live /\ q.known = Asking.known
        /\ q.data = reading /\ q.observedAt = reading.at /\ q.phase = "done"
    BY <1>1 DEF ClaudeProbe
  <2> HIDE DEF q
  <2>6. Waits(q)
    BY <1>1, <1>2, <2>5, AskingIs DEF Waits
  <2>7. Sees(q)
    BY <2>5, AskingIs DEF Sees, TimeOf
  <2>8. told' \in [Daemon -> AResult] /\ Dated(told'["daemon"])
    BY <1>2, AskingIs
  <2> QED  BY <1>1, <2>2, <2>4, <2>5, <2>6, <2>7, <2>8, AskingIs, AskingMoves
<1>3. ASSUME ClaudeCli!Fails("daemon"), ClaudeCli!Goes("daemon", ClaudeCli!Idle)
      PROVE  ClaudeInv'
  <2>1. probe' = [probe EXCEPT !["daemon"] = ClaudeCli!Idle]
    BY <1>3 DEF ClaudeCli!Goes
  <2>2. told' \in [Daemon -> AResult] /\ Dated(told'["daemon"])
    BY <1>3, FailureIs
  <2> QED  BY <1>1, <2>1, <2>2, ClaudeIdles, IdleIsQuiet, AskingIs, AskingMoves
<1> QED  BY <1>2, <1>3 DEF ClaudeCli!Fallback, ClaudeCli!Goes, Asking

(* The snapshot: what it shows was taken when it says.                        *)
LEMMA SnapshotIs ==
  ASSUME ClaudeInv, Asking.phase = "done"
  PROVE  LET shown == ClaudeCli!Snapshot("daemon") IN shown \in AResult /\ Dated(shown)
<1> DEFINE recorded == ClaudeCli!LiveCache(Id(Asking.creds)).fetchedAt
           taken == IF Asking.data.at = 0 THEN Asking.at
                    ELSE IF Asking.observedAt # 0 THEN Asking.observedAt
                    ELSE IF recorded # 0 THEN recorded ELSE Asking.at
           source == IF Asking.data.at = 0 THEN "local"
                     ELSE IF Asking.limited THEN "cached" ELSE Asking.src
           state == IF Asking.limited THEN "failed" ELSE "ready"
<1>1. /\ Asking \in ClaudeProbe /\ Asking.at \in Nat /\ Asking.observedAt \in Nat /\ Asking.data \in AReading
      /\ Asking.src \in {"none", "oauth", "web", "cli", "cli-cache"}
  BY AskingIs DEF ClaudeProbe
<1>2. recorded \in Nat
  <2>1. Id(Asking.creds) \in (0..ClaudeTokens) \X {"none"}
    BY AskingIs DEF Id
  <2> QED  BY <2>1, CacheIs DEF ACache
<1>3. Asking.data.at # 0 => Asking.data.at = IF Asking.observedAt # 0 THEN Asking.observedAt ELSE recorded
  BY AskingIs DEF Sees, TimeOf
<1>4. ClaudeCli!Snapshot("daemon") = [state |-> state, source |-> source, data |-> Asking.data, fetchedAt |-> taken]
  BY SameIdentity DEF ClaudeCli!Snapshot, Asking
<1> HIDE DEF recorded
<1>5. taken \in Nat /\ (Asking.data.at # 0 => taken = Asking.data.at)
  BY <1>1, <1>2, <1>3
<1>6. /\ source \in {"none", "oauth", "web", "cli", "cli-cache", "cached", "local"}
      /\ state \in {"none", "ready", "failed", "error"}
  BY <1>1
<1> HIDE DEF taken, source, state
<1> QED  BY <1>1, <1>4, <1>5, <1>6 DEF AResult, Dated

LEMMA FinishKeeps == ASSUME ClaudeInv, ClaudeCli!Finish("daemon") PROVE ClaudeInv'
<1> DEFINE shown == ClaudeCli!Snapshot("daemon")
<1>1. ~ClaudeCli!TriesWeb("daemon")
  BY DEF ClaudeCli!TriesWeb, NoSession, Daemon
<1>2. /\ Asking.phase = "done" /\ UNCHANGED <<late, stored, accepted, cache, issued, r1, r4>>
      /\ probe' = [probe EXCEPT !["daemon"] = ClaudeCli!Idle]
      /\ told' = [told EXCEPT !["daemon"] = shown]
  BY <1>1 DEF ClaudeCli!Finish, ClaudeCli!Goes, Asking
<1>3. shown \in AResult /\ Dated(shown)
  BY <1>2, SnapshotIs
<1> HIDE DEF shown
<1>4. told' \in [Daemon -> AResult] /\ Dated(told'["daemon"])
  BY <1>2, <1>3, AskingIs DEF Daemon
<1> QED  BY <1>2, <1>4, ClaudeIdles, IdleIsQuiet, AskingIs, AskingMoves

(* Where a probe begins: with the file, and the cache when it is of its login. *)
Beginning(l) ==
  /\ l \in ClaudeProbe /\ l.at = late /\ l.creds = stored /\ Dated(l.live)
  /\ l.live = ClaudeCli!LiveCache(Id(stored)) /\ l.known = r1[Id(stored)]
  /\ ~l.sent /\ l.data.at = 0 /\ l.observedAt = 0

LEMMA StartedIs ==
  ASSUME ClaudeInv, NEW mode, mode \in {"auto", "cli", "oauth"}
  PROVE  LET l == ClaudeCli!Started("daemon", mode) IN Beginning(l) /\ l.mode = mode
<1> DEFINE live == ClaudeCli!LiveCache(Id(stored))
           known == r1[Id(stored)]
           l == [ClaudeCli!Idle EXCEPT !.mode = mode, !.at = late, !.creds = stored, !.live = live,
                                       !.known = known]
<1>1. /\ late \in Nat /\ stored \in ClaudeCredentials /\ known \in Nat
  BY AskingIs
<1>2. live \in ACache /\ Dated(live)
  <2>1. Id(stored) \in (0..ClaudeTokens) \X {"none"}
    BY <1>1 DEF Id, ClaudeCredentials
  <2> QED  BY <2>1, CacheIs
<1>3. ClaudeCli!Started("daemon", mode) = l
  BY SameIdentity DEF ClaudeCli!Started
<1> HIDE DEF live, known
<1>4. l \in ClaudeProbe
  BY <1>1, <1>2, ClaudeIdles DEF ClaudeProbe
<1>5. /\ l.at = late /\ l.creds = stored /\ l.live = live /\ l.known = known /\ l.mode = mode
      /\ l.data = ClaudeCli!Idle.data /\ l.observedAt = ClaudeCli!Idle.observedAt /\ l.sent = ClaudeCli!Idle.sent
  BY ClaudeIdles DEF ClaudeProbe
<1> HIDE DEF l
<1> QED  BY <1>2, <1>3, <1>4, <1>5, ClaudeIdles DEF Beginning, live, known

LEMMA BeginningGoes ==
  ASSUME ClaudeInv, NEW l, NEW c, Beginning(l), SameBut(c, l),
         \/ /\ c.phase \in {"refresh", "fetch", "failed"} /\ l.live.limitedUntil <= l.at
            /\ c.data.at = 0 /\ c.observedAt = 0
         \/ /\ c.phase = "done" /\ c.observedAt = 0 /\ ~c.sent
            /\ c.data.at # 0 => c.data.at = l.live.fetchedAt
         \/ /\ c.phase = "done" /\ c.observedAt = c.data.at
            /\ c.sent => l.live.limitedUntil <= l.at
  PROVE  Waits(c) /\ Sees(c)
<1>1. /\ late \in Nat /\ r1[Id(stored)] \in Nat /\ cache \in ACache /\ cache.limitedUntil \in Nat
      /\ l \in ClaudeProbe /\ l.live \in ACache /\ l.live.limitedUntil \in Nat
  BY AskingIs DEF Beginning, ACache, ClaudeProbe
<1>2. \/ r1[Id(stored)] <= late
      \/ cache.id = Id(stored) /\ cache.limitedUntil >= r1[Id(stored)]
  BY DEF ClaudeInv, PutOff
<1>3. l.live.limitedUntil <= l.at => l.known <= l.at
  BY <1>1, <1>2 DEF Beginning, ClaudeCli!LiveCache
<1>4. /\ c.at = late /\ c.creds = stored /\ c.live = l.live /\ c.known = r1[Id(stored)] /\ l.known = c.known
      /\ l.at = late /\ Dated(l.live) /\ l.live = ClaudeCli!LiveCache(Id(stored))
  BY DEF Beginning, SameBut
<1>5. Waits(c)
  BY <1>1, <1>3, <1>4 DEF Waits
<1>6. Sees(c)
  BY <1>4 DEF Sees, TimeOf
<1> QED  BY <1>5, <1>6

LEMMA OfCliModeIs ==
  ASSUME ClaudeInv, NEW l, Beginning(l)
  PROVE  LET c == ClaudeCli!OfCliMode(l) IN
         Waits(c) /\ Sees(c) /\ SameBut(c, l) /\ c.phase \in {"failed", "done"}
<1> DEFINE cached == ClaudeCli!CachedReading(l.live, l.at)
           waits == [l EXCEPT !.phase = "done", !.limited = TRUE, !.data = cached]
           fails == [l EXCEPT !.phase = "failed", !.sent = TRUE]
<1>1. l \in ClaudeProbe /\ l.at \in Nat /\ l.live \in ACache /\ l.live.limitedUntil \in Nat /\ Dated(l.live)
      /\ ~l.sent /\ l.data.at = 0 /\ l.observedAt = 0
  BY DEF Beginning, ClaudeProbe, ACache
<1>2. cached \in AReading /\ (cached.at # 0 => cached.at = l.live.fetchedAt)
  BY <1>1, CachedIsDated
<1>3. ClaudeCli!OfCliMode(l) = IF l.at < l.live.limitedUntil THEN waits ELSE fails
  BY DEF ClaudeCli!OfCliMode
<1>4. SameBut(fails, l) /\ SameData(fails, l) /\ fails.phase = "failed"
  BY <1>1, PhaseSent
<1> HIDE DEF cached
<1>5. waits \in ClaudeProbe
  BY <1>1, <1>2 DEF ClaudeProbe
<1>6. /\ waits.at = l.at /\ waits.creds = l.creds /\ waits.live = l.live /\ waits.known = l.known
      /\ waits.data = cached /\ waits.observedAt = l.observedAt /\ waits.phase = "done" /\ waits.sent = l.sent
  BY <1>1 DEF ClaudeProbe
<1> HIDE DEF waits, fails
<1>7. CASE l.at < l.live.limitedUntil
  BY <1>1, <1>2, <1>3, <1>5, <1>6, <1>7, BeginningGoes DEF SameBut
<1>8. CASE ~(l.at < l.live.limitedUntil)
  BY <1>1, <1>3, <1>4, <1>8, BeginningGoes DEF SameData
<1> QED  BY <1>7, <1>8

LEMMA OfOAuthIs ==
  ASSUME ClaudeInv, NEW l, Beginning(l)
  PROVE  LET c == ClaudeCli!OfOAuth(l) IN
         Waits(c) /\ Sees(c) /\ SameBut(c, l) /\ c.phase \in {"refresh", "fetch", "done"}
<1> DEFINE cached == ClaudeCli!CachedReading(l.live, l.at)
           oauth == [l EXCEPT !.src = "oauth"]
           asks == IF ClaudeCli!NeedsRefresh(l.creds, l.at) THEN "refresh" ELSE "fetch"
           without == [oauth EXCEPT !.phase = "done"]
           waits == [oauth EXCEPT !.phase = "done", !.limited = TRUE, !.data = cached]
           shows == [oauth EXCEPT !.phase = "done", !.data = cached]
           goes == [oauth EXCEPT !.phase = asks]
<1>1. l \in ClaudeProbe /\ l.at \in Nat /\ l.live \in ACache /\ l.live.limitedUntil \in Nat /\ Dated(l.live)
      /\ ~l.sent /\ l.data.at = 0 /\ l.observedAt = 0
  BY DEF Beginning, ClaudeProbe, ACache
<1>2. cached \in AReading /\ (cached.at # 0 => cached.at = l.live.fetchedAt)
  BY <1>1, CachedIsDated
<1>3. LET c == ClaudeCli!OfOAuth(l) IN
      \/ c = without
      \/ c = waits
      \/ c = shows
      \/ c = goes /\ ~(l.at < l.live.limitedUntil)
  BY DEF ClaudeCli!OfOAuth
<1>4. asks \in {"refresh", "fetch"}
  OBVIOUS
<1>5. oauth \in ClaudeProbe
  BY <1>1 DEF ClaudeProbe
<1>6. SameBut(oauth, l) /\ SameData(oauth, l) /\ oauth.sent = l.sent
  <2>1. /\ oauth.at = l.at /\ oauth.creds = l.creds /\ oauth.live = l.live /\ oauth.known = l.known
        /\ oauth.data = l.data /\ oauth.observedAt = l.observedAt /\ oauth.sent = l.sent
    BY <1>1 DEF ClaudeProbe
  <2> QED  BY <1>5, <2>1 DEF SameBut, SameData
<1> HIDE DEF cached, oauth, asks
<1>7. /\ SameBut(without, oauth) /\ SameData(without, oauth) /\ without.phase = "done"
      /\ without.sent = oauth.sent
  BY <1>5, PhaseAlone
<1>8. SameBut(goes, oauth) /\ SameData(goes, oauth) /\ goes.phase = asks /\ goes.sent = oauth.sent
  BY <1>4, <1>5, PhaseAlone
<1>9. SameBut(waits, oauth) /\ waits.data = cached /\ waits.observedAt = oauth.observedAt
      /\ waits.phase = "done" /\ waits.sent = oauth.sent
  <2>1. waits \in ClaudeProbe
    BY <1>2, <1>5 DEF ClaudeProbe
  <2>2. /\ waits.at = oauth.at /\ waits.creds = oauth.creds /\ waits.live = oauth.live
        /\ waits.known = oauth.known
        /\ waits.data = cached /\ waits.observedAt = oauth.observedAt /\ waits.phase = "done"
        /\ waits.sent = oauth.sent
    BY <1>5 DEF ClaudeProbe
  <2> QED  BY <2>1, <2>2 DEF SameBut
<1>10. SameBut(shows, oauth) /\ shows.data = cached /\ shows.observedAt = oauth.observedAt
       /\ shows.phase = "done" /\ shows.sent = oauth.sent
  <2>1. shows \in ClaudeProbe
    BY <1>2, <1>5 DEF ClaudeProbe
  <2>2. /\ shows.at = oauth.at /\ shows.creds = oauth.creds /\ shows.live = oauth.live
        /\ shows.known = oauth.known
        /\ shows.data = cached /\ shows.observedAt = oauth.observedAt /\ shows.phase = "done"
        /\ shows.sent = oauth.sent
    BY <1>5 DEF ClaudeProbe
  <2> QED  BY <2>1, <2>2 DEF SameBut
<1> HIDE DEF without, waits, shows, goes
<1>11. Waits(without) /\ Sees(without) /\ SameBut(without, l)
  BY <1>1, <1>6, <1>7, BeginningGoes DEF SameBut, SameData
<1>12. Waits(waits) /\ Sees(waits) /\ SameBut(waits, l)
  <2>1. SameBut(waits, l)
    BY <1>6, <1>9 DEF SameBut
  <2> QED  BY <1>1, <1>2, <1>6, <1>9, <2>1, BeginningGoes DEF SameData
<1>13. Waits(shows) /\ Sees(shows) /\ SameBut(shows, l)
  <2>1. SameBut(shows, l)
    BY <1>6, <1>10 DEF SameBut
  <2> QED  BY <1>1, <1>2, <1>6, <1>10, <2>1, BeginningGoes DEF SameData
<1>14. ~(l.at < l.live.limitedUntil) => Waits(goes) /\ Sees(goes) /\ SameBut(goes, l)
  <2>1. SameBut(goes, l) /\ goes.data.at = 0 /\ goes.observedAt = 0
    BY <1>1, <1>6, <1>8 DEF SameBut, SameData
  <2>2. goes.phase \in {"refresh", "fetch", "failed"}
    BY <1>4, <1>8
  <2>3. ~(l.at < l.live.limitedUntil) => l.live.limitedUntil <= l.at
    BY <1>1
  <2> QED  BY <2>1, <2>2, <2>3, BeginningGoes
<1> QED  BY <1>3, <1>4, <1>7, <1>8, <1>9, <1>10, <1>11, <1>12, <1>13, <1>14

LEMMA ObservedIs ==
  ASSUME ClaudeInv, NEW l, NEW reading, Beginning(l), reading \in AReading,
         reading.src = "cli" => l.live.limitedUntil <= l.at
  PROVE  LET c == [l EXCEPT !.phase = "done", !.data = reading, !.src = reading.src,
                            !.observedAt = reading.at, !.sent = (reading.src = "cli")] IN
         Waits(c) /\ Sees(c) /\ SameBut(c, l) /\ c.phase = "done"
<1> DEFINE sent == reading.src = "cli"
           c == [l EXCEPT !.phase = "done", !.data = reading, !.src = reading.src,
                          !.observedAt = reading.at, !.sent = sent]
<1>1. l \in ClaudeProbe /\ sent \in BOOLEAN
  BY DEF Beginning
<1>2. sent => l.live.limitedUntil <= l.at
  OBVIOUS
<1> HIDE DEF sent
<1>3. c \in ClaudeProbe
  BY <1>1 DEF ClaudeProbe, AReading
<1>4. /\ c.at = l.at /\ c.creds = l.creds /\ c.live = l.live /\ c.known = l.known
      /\ c.data = reading /\ c.observedAt = reading.at /\ c.phase = "done"
  BY <1>1 DEF ClaudeProbe
<1>5. c.sent = sent
  BY <1>1 DEF ClaudeProbe
<1> HIDE DEF c
<1>6. SameBut(c, l)
  BY <1>3, <1>4 DEF SameBut
<1>7. Waits(c) /\ Sees(c)
  BY <1>2, <1>4, <1>5, <1>6, BeginningGoes
<1> QED  BY <1>4, <1>6, <1>7 DEF c, sent

LEMMA BeginKeeps == ASSUME ClaudeInv, ClaudeCli!Begin("daemon") PROVE ClaudeInv'
<1>1. /\ Asking.phase = "idle" /\ UNCHANGED <<late, stored, accepted, cache, issued, r1, r4>>
      /\ ByCli["daemon"] = {"auto", "cli", "oauth"}
  BY DEF ClaudeCli!Begin, Asking, ByCli, Daemon
<1>2. ASSUME ClaudeCli!Fails("daemon"), probe' = probe PROVE ClaudeInv'
  <2>1. Asking \in ClaudeProbe /\ probe' = [probe EXCEPT !["daemon"] = Asking]
    BY <1>2, AskingIs DEF Asking, ClaudeInv, ClaudeTypes, Daemon
  <2>2. told' \in [Daemon -> AResult] /\ Dated(told'["daemon"])
    BY <1>2, FailureIs
  <2> QED  BY <1>1, <2>1, <2>2, AskingIs, AskingMoves
<1>3. ASSUME NEW mode \in {"auto", "cli", "oauth"},
             NEW reading \in {ClaudeCli!NoReading} \cup ClaudeCli!Passive(stored, late)
                               \cup ClaudeCli!Active(stored, late),
             ClaudeCli!Borrowed(ClaudeCli!Started("daemon", mode), reading),
             ClaudeCli!Goes("daemon", ClaudeCli!Chosen("daemon", ClaudeCli!Started("daemon", mode), reading)),
             told' = [told EXCEPT !["daemon"] = ClaudeCli!NoResult]
      PROVE  ClaudeInv'
  <2> DEFINE l == ClaudeCli!Started("daemon", mode)
             c == ClaudeCli!Chosen("daemon", l, reading)
  <2>1. Beginning(l) /\ l.mode = mode
    BY StartedIs
  <2>2. reading \in AReading /\ reading \in ClaudeCli!Passive(stored, late) \cup ClaudeCli!Active(stored, late)
    <3>1. ClaudeCli!NoReading \in ClaudeCli!Passive(stored, late)
      BY DEF ClaudeCli!Passive
    <3>2. late \in Nat
      BY AskingIs
    <3> QED  BY <3>1, <3>2, ObservationIs
  <2>3. probe' = [probe EXCEPT !["daemon"] = c]
    BY <1>3 DEF ClaudeCli!Goes
  <2>4. ClaudeCli!Borrowed(l, reading)
    BY <1>3
  <2> HIDE DEF l
  <2>5. l.creds = stored /\ l.at = late /\ l.live.limitedUntil \in Nat /\ late \in Nat /\ l \in ClaudeProbe
    BY <2>1, AskingIs DEF Beginning, ClaudeProbe, ACache
  <2>6. reading.src = "cli" => l.live.limitedUntil <= l.at
    <3>1. ClaudeCli!NoReading \in ClaudeCli!Passive(stored, late)
      BY DEF ClaudeCli!Passive
    <3>2. reading \in ClaudeCli!Passive(stored, late) => reading.src # "cli"
      BY <2>2, <2>5, ObservationIs
    <3>3. reading \in ClaudeCli!Passive(stored, late) \/ l.at >= l.live.limitedUntil
      BY <2>4, <2>5, <3>1 DEF ClaudeCli!Borrowed
    <3> QED  BY <2>5, <3>2, <3>3
  <2> DEFINE done == [l EXCEPT !.phase = "done"]
             sees == [l EXCEPT !.phase = "done", !.data = reading, !.src = reading.src,
                               !.observedAt = reading.at, !.sent = (reading.src = "cli")]
  <2>7. c = done \/ c = sees \/ c = ClaudeCli!OfCliMode(l) \/ c = ClaudeCli!OfOAuth(l)
    BY DEF ClaudeCli!Chosen, NoSession, Daemon
  <2>8. Waits(done) /\ Sees(done) /\ SameBut(done, l) /\ done.phase = "done"
    <3>1. SameBut(done, l) /\ SameData(done, l) /\ done.phase = "done" /\ done.sent = l.sent
      BY <2>5, PhaseAlone
    <3> HIDE DEF done
    <3> QED  BY <2>1, <3>1, BeginningGoes DEF Beginning, SameData
  <2>9. Waits(sees) /\ Sees(sees) /\ SameBut(sees, l) /\ sees.phase = "done"
    BY <2>1, <2>2, <2>6, ObservedIs
  <2> HIDE DEF c, done, sees
  <2>10. Waits(c) /\ Sees(c) /\ SameBut(c, l) /\ c.phase # "save"
    BY <2>1, <2>7, <2>8, <2>9, OfCliModeIs, OfOAuthIs
  <2>11. c \in ClaudeProbe /\ c.creds = stored
    BY <2>5, <2>10 DEF SameBut
  <2>12. told' \in [Daemon -> AResult] /\ Dated(told'["daemon"])
    <3>1. ClaudeCli!NoResult \in AResult /\ ClaudeCli!NoResult.data.at = 0
      BY ClaudeIdles DEF ClaudeCli!NoResult, AResult
    <3> QED  BY <1>3, <3>1, AskingIs DEF Daemon, Dated
  <2>13. stored.access < ClaudeCli!NewToken /\ stored.refresh < ClaudeCli!NewToken
    BY DEF ClaudeInv, InOrder
  <2> QED  BY <1>1, <2>3, <2>10, <2>11, <2>12, <2>13, AskingIs, AskingMoves
<1> QED  BY <1>1, <1>2, <1>3 DEF ClaudeCli!Begin, Daemon

LEMMA ClaudeKeeps == ASSUME ClaudeInv, ClaudeCli!Next PROVE ClaudeInv'
<1>1. CASE ClaudeCli!Tick
  BY <1>1, ClaudeTicks
<1>2. CASE ClaudeCli!CliRefresh \/ \E s \in BOOLEAN : ClaudeCli!CliLogin(s)
  BY <1>2, OwnerKeepsClaude
<1>3. CASE ClaudeCli!Die("daemon")
  BY <1>3, ClaudeDies DEF Daemon
<1>4. ASSUME NEW a, ClaudeCli!WebLoaded("daemon", a) PROVE FALSE
  <2>1. Asking.phase = "web"
    BY <1>4 DEF ClaudeCli!WebLoaded, Asking
  <2> QED  BY <2>1, AskingIs DEF ClaudeProbe
<1>5. CASE ClaudeCli!ProbeStep("daemon")
  BY <1>4, <1>5, BeginKeeps, RefreshKeeps, FetchKeeps, SavedKeeps, UnsavedKeeps, LookUpKeeps, FallbackKeeps, FinishKeeps
     DEF ClaudeCli!ProbeStep, Daemon
<1>6. \A p \in Daemon : p = "daemon"
  BY DEF Daemon
<1> QED  BY <1>1, <1>2, <1>3, <1>5, <1>6 DEF ClaudeCli!Next

LEMMA ClaudeHolds ==
  ClaudeInv => /\ ClaudeCli!SignedInKept /\ ClaudeCli!CooldownHonoured
               /\ ClaudeCli!FetchedAtIsObservation
<1> SUFFICES ASSUME ClaudeInv PROVE ClaudeCli!SignedInKept /\ ClaudeCli!CooldownHonoured
                                    /\ ClaudeCli!FetchedAtIsObservation
  OBVIOUS
<1>1. ClaudeCli!SignedInKept
  BY DEF ClaudeCli!SignedInKept, ClaudeInv, SignedIn, Asking, Daemon
<1>2. ClaudeCli!CooldownHonoured
  <2>1. Asking.sent => Asking.at >= Asking.known
    BY AskingIs DEF Waits, ClaudeProbe
  <2> QED  BY <2>1 DEF ClaudeCli!CooldownHonoured, Asking, Daemon
<1>3. ClaudeCli!FetchedAtIsObservation
  BY DEF ClaudeCli!FetchedAtIsObservation, ClaudeInv, Observed, Dated, Daemon
<1> QED  BY <1>1, <1>2, <1>3

-----------------------------------------------------------------------------
(* The providers side by side.                                             *)

LEMMA CodexIsOne ==
  /\ Codex!Init => AnyCodex(1, TRUE, FALSE, CodexTokens)!Init
  /\ Codex!Next => AnyCodex(1, TRUE, FALSE, CodexTokens)!Next
BY DEF Codex!Init, AnyCodex!Init, Codex!Next, AnyCodex!Next, Codex!Age, AnyCodex!Age, Codex!Begin, AnyCodex!Begin, Codex!Load, AnyCodex!Load, Codex!NextPlace, AnyCodex!NextPlace, Codex!ReloadAhead, AnyCodex!ReloadAhead, Codex!ReloadAfter401, AnyCodex!ReloadAfter401, Codex!RefreshRefused, AnyCodex!RefreshRefused, Codex!RefreshFailed, AnyCodex!RefreshFailed, Codex!Rotate, AnyCodex!Rotate, Codex!Compare, AnyCodex!Compare, Codex!Replace, AnyCodex!Replace, Codex!FetchEnds, AnyCodex!FetchEnds, Codex!Fetch401, AnyCodex!Fetch401, Codex!CliLogin, AnyCodex!CliLogin, Codex!CliRefresh, AnyCodex!CliRefresh, Codex!CliLogout, AnyCodex!CliLogout, Codex!Reread, AnyCodex!Reread, Codex!Saved, AnyCodex!Saved, Codex!ReplaceFails, AnyCodex!ReplaceFails, Codex!Die, AnyCodex!Die, Codex!Goes, AnyCodex!Goes, Codex!NeedsRefresh, AnyCodex!NeedsRefresh, Codex!Conflict, AnyCodex!Conflict, Codex!Adopted, AnyCodex!Adopted, Codex!WithoutToken, AnyCodex!WithoutToken, Codex!Idle, AnyCodex!Idle, Codex!Absent, AnyCodex!Absent, Codex!Tokens, AnyCodex!Tokens

LEMMA SealedIsOne ==
  /\ Sealed!Init => AnyCodex(1, TRUE, TRUE, OtherTokens)!Init
  /\ Sealed!Next => AnyCodex(1, TRUE, TRUE, OtherTokens)!Next
BY DEF Sealed!Init, AnyCodex!Init, Sealed!Next, AnyCodex!Next, Sealed!Age, AnyCodex!Age, Sealed!Begin, AnyCodex!Begin, Sealed!Load, AnyCodex!Load, Sealed!NextPlace, AnyCodex!NextPlace, Sealed!ReloadAhead, AnyCodex!ReloadAhead, Sealed!ReloadAfter401, AnyCodex!ReloadAfter401, Sealed!RefreshRefused, AnyCodex!RefreshRefused, Sealed!RefreshFailed, AnyCodex!RefreshFailed, Sealed!Rotate, AnyCodex!Rotate, Sealed!Compare, AnyCodex!Compare, Sealed!Replace, AnyCodex!Replace, Sealed!FetchEnds, AnyCodex!FetchEnds, Sealed!Fetch401, AnyCodex!Fetch401, Sealed!CliLogin, AnyCodex!CliLogin, Sealed!CliRefresh, AnyCodex!CliRefresh, Sealed!CliLogout, AnyCodex!CliLogout, Sealed!Reread, AnyCodex!Reread, Sealed!Saved, AnyCodex!Saved, Sealed!ReplaceFails, AnyCodex!ReplaceFails, Sealed!Die, AnyCodex!Die, Sealed!Goes, AnyCodex!Goes, Sealed!NeedsRefresh, AnyCodex!NeedsRefresh, Sealed!Conflict, AnyCodex!Conflict, Sealed!Adopted, AnyCodex!Adopted, Sealed!WithoutToken, AnyCodex!WithoutToken, Sealed!Idle, AnyCodex!Idle, Sealed!Absent, AnyCodex!Absent, Sealed!Tokens, AnyCodex!Tokens

LEMMA FilesIsOne ==
  /\ Files!Init => AnyCodex(2, FALSE, FALSE, OtherTokens)!Init
  /\ Files!Next => AnyCodex(2, FALSE, FALSE, OtherTokens)!Next
BY DEF Files!Init, AnyCodex!Init, Files!Next, AnyCodex!Next, Files!Age, AnyCodex!Age, Files!Begin, AnyCodex!Begin, Files!Load, AnyCodex!Load, Files!NextPlace, AnyCodex!NextPlace, Files!ReloadAhead, AnyCodex!ReloadAhead, Files!ReloadAfter401, AnyCodex!ReloadAfter401, Files!RefreshRefused, AnyCodex!RefreshRefused, Files!RefreshFailed, AnyCodex!RefreshFailed, Files!Rotate, AnyCodex!Rotate, Files!Compare, AnyCodex!Compare, Files!Replace, AnyCodex!Replace, Files!FetchEnds, AnyCodex!FetchEnds, Files!Fetch401, AnyCodex!Fetch401, Files!CliLogin, AnyCodex!CliLogin, Files!CliRefresh, AnyCodex!CliRefresh, Files!CliLogout, AnyCodex!CliLogout, Files!Reread, AnyCodex!Reread, Files!Saved, AnyCodex!Saved, Files!ReplaceFails, AnyCodex!ReplaceFails, Files!Die, AnyCodex!Die, Files!Goes, AnyCodex!Goes, Files!NeedsRefresh, AnyCodex!NeedsRefresh, Files!Conflict, AnyCodex!Conflict, Files!Adopted, AnyCodex!Adopted, Files!WithoutToken, AnyCodex!WithoutToken, Files!Idle, AnyCodex!Idle, Files!Absent, AnyCodex!Absent, Files!Tokens, AnyCodex!Tokens

(* What holds of each provider, while it is the one that runs.                *)
ProvidersInv ==
  /\ which = "codex" => CodexInv(1, TRUE, FALSE)
  /\ which = "sealed codex" => CodexInv(1, TRUE, TRUE)
  /\ which = "codex files" => CodexInv(2, FALSE, FALSE)
  /\ which = "oauth" => OAuthInv
  /\ which = "antigravity" => AntigravityInv
  /\ which = "copilot" => CopilotInv
  /\ which = "claude requests" => RequestsInv
  /\ which = "muse" => MuseInv
  /\ which = "claude cli" => ClaudeInv

LEMMA CodexStutters ==
  ASSUME NEW places, NEW native, NEW sealed, CodexInv(places, native, sealed), UNCHANGED vars
  PROVE  CodexInv(places, native, sealed)'
BY DEF vars, CodexInv, CodexTypes, Issuing, Apart, OfRevision, Rotated, Usable, Kept, Fresh, Whole, Saving

LEMMA ClaudeStutters == ASSUME ClaudeInv, UNCHANGED vars PROVE ClaudeInv'
<1>1. UNCHANGED <<stored, accepted, late, issued, probe, cache, told, r1, r4>>
  BY DEF vars
<1>2. ClaudeCli!NewToken' = ClaudeCli!NewToken
  BY <1>1, TokensAreCounted, TokensAreCountedThen DEF ClaudeInv, ClaudeTypes
<1>3. ClaudeTypes' /\ InOrder'
  BY <1>1, <1>2 DEF ClaudeInv, ClaudeTypes, InOrder, Asking
<1>4. PutOff' /\ SignedIn'
  BY <1>1 DEF ClaudeInv, PutOff, Waits, SignedIn, Asking, Id
<1>5. Observed'
  BY <1>1 DEF ClaudeInv, Observed, Sees, TimeOf, Dated, Asking, Id, ClaudeCli!LiveCache
<1> QED  BY <1>3, <1>4, <1>5 DEF ClaudeInv

LEMMA OthersStutter ==
  ASSUME UNCHANGED vars
  PROVE  /\ AntigravityInv => AntigravityInv'
         /\ CopilotInv => CopilotInv'
         /\ RequestsInv => RequestsInv'
         /\ MuseInv => MuseInv'
         /\ OAuthInv => OAuthInv'
<1>1. UNCHANGED <<stored, accepted, stale, late, issued, probe, cache, told, r1, r2, r3, r4, r5>>
  BY DEF vars
<1>2. AntigravityInv => AntigravityInv'
  BY <1>1 DEF AntigravityInv, Sound, Alone, IsProbe
<1>3. CopilotInv => CopilotInv'
  BY <1>1 DEF CopilotInv, CopilotMeters, CopilotTexts
<1>4. RequestsInv => RequestsInv'
  BY <1>1 DEF RequestsInv
<1>5. MuseInv => MuseInv'
  BY <1>1 DEF MuseInv, Muse!ExpiredWasRefused, Muse!KeptWasProven
<1>6. OAuthInv => OAuthInv'
  <2>1. OAuth!Rule' = OAuth!Rule
    BY <1>1, SameRule
  <2> QED  BY <1>1, <2>1 DEF OAuthInv, Careful, Live
<1> QED  BY <1>2, <1>3, <1>4, <1>5, <1>6

LEMMA ProvidersStart == Init => ProvidersInv
BY CodexStarts, CodexIsOne, SealedIsOne, FilesIsOne, OAuthStarts, AntigravityStarts, CopilotStarts,
   RequestsStart, MuseStarts, ClaudeStarts, Assumed
   DEF Init, Started, ProvidersInv

LEMMA ProvidersKeep == ASSUME ProvidersInv, [Next]_vars PROVE ProvidersInv'
<1>0. /\ 1 \in Nat \ {0} /\ 2 \in Nat \ {0} /\ TRUE \in BOOLEAN /\ FALSE \in BOOLEAN
      /\ CodexTokens \in Nat /\ OtherTokens \in Nat
  BY Assumed
<1>1. CASE CodexNext
  <2>1. CodexInv(1, TRUE, FALSE) /\ AnyCodex(1, TRUE, FALSE, CodexTokens)!Next
    BY <1>1, CodexIsOne DEF CodexNext, ProvidersInv
  <2>2. CodexInv(1, TRUE, FALSE)'
    BY <1>0, <2>1, CodexKeeps
  <2> QED  BY <1>1, <2>2 DEF CodexNext, ProvidersInv
<1>2. CASE SealedNext
  <2>1. CodexInv(1, TRUE, TRUE) /\ AnyCodex(1, TRUE, TRUE, OtherTokens)!Next
    BY <1>2, SealedIsOne DEF SealedNext, ProvidersInv
  <2>2. CodexInv(1, TRUE, TRUE)'
    BY <1>0, <2>1, CodexKeeps
  <2> QED  BY <1>2, <2>2 DEF SealedNext, ProvidersInv
<1>3. CASE FilesNext
  <2>1. CodexInv(2, FALSE, FALSE) /\ AnyCodex(2, FALSE, FALSE, OtherTokens)!Next
    BY <1>3, FilesIsOne DEF FilesNext, ProvidersInv
  <2>2. CodexInv(2, FALSE, FALSE)'
    BY <1>0, <2>1, CodexKeeps
  <2> QED  BY <1>3, <2>2 DEF FilesNext, ProvidersInv
<1>4. CASE OAuthNext
  BY <1>4, OAuthKeeps DEF OAuthNext, ProvidersInv
<1>5. CASE AntigravityNext
  BY <1>5, AntigravityKeeps DEF AntigravityNext, ProvidersInv
<1>6. CASE CopilotNext
  BY <1>6, CopilotKeeps DEF CopilotNext, ProvidersInv
<1>7. CASE RequestsNext
  BY <1>7, RequestsKeep DEF RequestsNext, ProvidersInv
<1>8. CASE MuseNext
  BY <1>8, MuseKeeps DEF MuseNext, ProvidersInv
<1>9. CASE ClaudeCliNext
  BY <1>9, ClaudeKeeps DEF ClaudeCliNext, ProvidersInv
<1>10. CASE UNCHANGED vars
  <2>1. which' = which
    BY <1>10 DEF vars
  <2> QED  BY <1>10, <2>1, CodexStutters, ClaudeStutters, OthersStutter DEF ProvidersInv
<1> QED  BY <1>1, <1>2, <1>3, <1>4, <1>5, <1>6, <1>7, <1>8, <1>9, <1>10 DEF Next

(* What is kept of a Codex login is what was promised of it.                  *)
LEMMA CodexHolds ==
  /\ CodexInv(1, TRUE, FALSE) => /\ Codex!StoreUsableAfterOne /\ Codex!SignInKept /\ Codex!SameAccount
                                 /\ Codex!NoRejectedTokenAgain
  /\ CodexInv(2, FALSE, FALSE) => /\ Files!StoreUsable /\ Files!SameAccount /\ Files!NoRejectedTokenAgain
<1>1. Codex!Absent = NoCredentials /\ Files!Absent = NoCredentials
  BY DEF Codex!Absent, Files!Absent, NoCredentials
<1>2. CodexInv(1, TRUE, FALSE) => Codex!StoreUsableAfterOne /\ Codex!SignInKept
  BY <1>1 DEF CodexInv, Usable, Kept, Saving, Codex!StoreUsableAfterOne, Codex!StoreUsable, Codex!SignInKept
<1>3. CodexInv(2, FALSE, FALSE) => Files!StoreUsable
  BY <1>1 DEF CodexInv, Usable, Saving, Files!StoreUsable
<1>4. CodexInv(1, TRUE, FALSE) => Codex!SameAccount /\ Codex!NoRejectedTokenAgain
  BY DEF CodexInv, OfRevision, Fresh, Codex!SameAccount, Codex!NoRejectedTokenAgain
<1>5. CodexInv(2, FALSE, FALSE) => Files!SameAccount /\ Files!NoRejectedTokenAgain
  BY DEF CodexInv, OfRevision, Fresh, Files!SameAccount, Files!NoRejectedTokenAgain
<1> QED  BY <1>2, <1>3, <1>4, <1>5

(* A probe of the encrypted store sends no refresh: who rotates writes the store. *)
LEMMA SealedHolds == ASSUME CodexInv(1, TRUE, TRUE), Sealed!Next PROVE Sealed!EncryptedNotRotated
<1>1. ASSUME NEW i, NEW account, NEW named, Sealed!CliLogin(i, account, named) PROVE probe' = probe
  BY <1>1 DEF Sealed!CliLogin
<1>2. ASSUME NEW i, Sealed!CliRefresh(i) \/ Sealed!CliLogout(i) PROVE probe' = probe
  BY <1>2 DEF Sealed!CliRefresh, Sealed!CliLogout
<1>3. ASSUME NEW arrives, Sealed!Rotate(arrives) PROVE FALSE
  BY <1>3 DEF Sealed!Rotate
<1>4. CASE (\E t \in Sealed!Tokens : Sealed!Age(t)) \/ Sealed!Die \/ Sealed!Begin \/ Sealed!NextPlace
  BY <1>4 DEF Sealed!Age, Sealed!Die, Sealed!Begin, Sealed!NextPlace, Sealed!Goes, Sealed!EncryptedNotRotated
<1>5. ASSUME NEW readable, Sealed!Load(readable) \/ Sealed!ReloadAhead(readable) \/ Sealed!ReloadAfter401(readable)
      PROVE  Sealed!EncryptedNotRotated
  BY <1>5 DEF Sealed!Load, Sealed!ReloadAhead, Sealed!ReloadAfter401, Sealed!Goes, Sealed!EncryptedNotRotated
<1>6. CASE Sealed!RefreshRefused \/ Sealed!RefreshFailed \/ Sealed!Compare \/ Sealed!Replace \/ Sealed!ReplaceFails
  BY <1>6 DEF Sealed!RefreshRefused, Sealed!RefreshFailed, Sealed!Compare, Sealed!Replace, Sealed!Saved,
              Sealed!ReplaceFails, Sealed!Goes, Sealed!EncryptedNotRotated
<1>7. CASE Sealed!FetchEnds \/ Sealed!Fetch401
  BY <1>7 DEF Sealed!FetchEnds, Sealed!Fetch401, Sealed!Goes, Sealed!EncryptedNotRotated
<1> QED  BY <1>1, <1>2, <1>3, <1>4, <1>5, <1>6, <1>7 DEF Sealed!Next, Sealed!EncryptedNotRotated

(* A refusal is noted where the organizations are asked, and the asking goes on. *)
LEMMA RequestsGoOn == ASSUME Requests!Next PROVE Requests!RefusalIsNotFinal
<1>1. CASE Requests!AskOrganization
  BY <1>1 DEF Requests!AskOrganization, Requests!RefusalIsNotFinal
<1>2. CASE Requests!ListOrganizations \/ Requests!NoOrganization \/ Requests!AskAccount
  BY <1>2 DEF Requests!ListOrganizations, Requests!NoOrganization, Requests!AskAccount, Requests!web,
              Requests!RefusalIsNotFinal
<1>3. CASE Requests!ReportFails \/ Requests!LastPage \/ Requests!ReadLogs \/ \E c \in Cursors : Requests!NextPage(c)
  BY <1>3 DEF Requests!ReportFails, Requests!LastPage, Requests!NextPage, Requests!ReadLogs, Requests!web,
              Requests!RefusalIsNotFinal
<1> QED  BY <1>1, <1>2, <1>3 DEF Requests!Next

(* A step is one of the provider that runs.                                   *)
LEMMA OneMoves ==
  ASSUME Next
  PROVE  /\ which = "sealed codex" => Sealed!Next
         /\ which = "copilot" => Copilot!Next
         /\ which = "antigravity" => Antigravity!Next
         /\ which = "claude requests" => Requests!Next
BY DEF Next, CodexNext, SealedNext, FilesNext, OAuthNext, AntigravityNext, CopilotNext, RequestsNext, MuseNext,
       ClaudeCliNext

(* The invariant of the project's providers: each keeps its own.              *)
THEOREM ProvidersAreSound == Spec => []ProvidersInv
<1>1. Init => ProvidersInv
  BY ProvidersStart
<1>2. ProvidersInv /\ [Next]_vars => ProvidersInv'
  BY ProvidersKeep
<1> QED  BY <1>1, <1>2, PTL DEF Spec

(* What a provider shows is what it is said to be, whatever the accounts, the *)
(* tokens and the pages: of the account or profile its probe began with,      *)
(* through every reload; of the time given with it; and of whole reports.     *)
THEOREM ReadingsAreOwn == Spec => []ShownIsItsOwn
<1>1. ProvidersInv => ShownIsItsOwn
  BY CodexHolds, AntigravityHolds, RequestsHold, ClaudeHolds DEF ProvidersInv, ShownIsItsOwn
<1> QED  BY <1>1, ProvidersAreSound, PTL

(* Rotated tokens reach the store beside a CLI that rotates its own, a token  *)
(* is dropped when rejected only, and the encrypted store is never rotated.   *)
THEOREM LoginsStayGood == Spec => LoginsAreKept
<1>1. ProvidersInv => LoginHolds
  BY CodexHolds, OAuthHolds, ClaudeHolds DEF ProvidersInv, LoginHolds
<1>2. ASSUME ProvidersInv, Next PROVE LoginStepHolds
  <2>1. CASE which = "sealed codex"
    <3>1. Sealed!Next /\ CodexInv(1, TRUE, TRUE)
      BY <1>2, <2>1, OneMoves DEF ProvidersInv
    <3> QED  BY <2>1, <3>1, SealedHolds DEF LoginStepHolds
  <2>2. CASE which = "copilot"
    <3>1. Copilot!Next /\ CopilotInv
      BY <1>2, <2>2, OneMoves DEF ProvidersInv
    <3> QED  BY <2>2, <3>1, CopilotDrops DEF LoginStepHolds
  <2> QED  BY <2>1, <2>2 DEF LoginStepHolds
<1>3. ProvidersInv /\ [Next]_vars => [LoginStepHolds]_vars
  BY <1>2
<1> QED  BY <1>1, <1>3, ProvidersAreSound, PTL DEF Spec, LoginsAreKept

(* No token is sent again after its rejection, refreshes are bounded and made *)
(* on evidence, a refused login rests for its hour, a 429 is waited out, and a *)
(* site under deployment is not chased.                                       *)
THEOREM NoServiceIsPressed == Spec => ServicesAreSpared
<1>1. ProvidersInv => Spared
  BY CodexHolds, OAuthHolds, MuseHolds, ClaudeHolds DEF ProvidersInv, Spared
<1>2. ASSUME ProvidersInv PROVE StepSpares
  BY <1>2, AntigravitySpares DEF ProvidersInv, StepSpares
<1>3. ProvidersInv /\ [Next]_vars => [StepSpares]_vars
  BY <1>2
<1> QED  BY <1>1, <1>3, ProvidersAreSound, PTL DEF Spec, ServicesAreSpared

(* A denial is told apart from a rejection and an expired session from a site *)
(* that changed; a good login, a fresh one and the next organization are tried, *)
(* and a failed extra costs no line.                                          *)
THEOREM EveryAnswerIsTold == Spec => AnswersAreTold
<1>1. ProvidersInv => AnswerTold
  BY OAuthHolds, AntigravityHolds, CopilotHolds, MuseHolds DEF ProvidersInv, AnswerTold
<1>2. ASSUME ProvidersInv, Next PROVE AnswerStepTold
  <2>1. CASE which = "antigravity"
    <3>1. Antigravity!Next /\ AntigravityInv
      BY <1>2, <2>1, OneMoves DEF ProvidersInv
    <3> QED  BY <2>1, <3>1, AntigravityTries DEF AnswerStepTold
  <2>2. CASE which = "claude requests"
    <3>1. Requests!Next
      BY <1>2, <2>2, OneMoves
    <3> QED  BY <2>2, <3>1, RequestsGoOn DEF AnswerStepTold
  <2> QED  BY <2>1, <2>2 DEF AnswerStepTold
<1>3. ProvidersInv /\ [Next]_vars => [AnswerStepTold]_vars
  BY <1>2
<1> QED  BY <1>1, <1>3, ProvidersAreSound, PTL DEF Spec, AnswersAreTold
=============================================================================
