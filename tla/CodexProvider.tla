---------------------------- MODULE CodexProvider ----------------------------
(***************************************************************************)
(* Credentials of the Codex provider: src/plugins/codex/plugin.js over the *)
(* host's codex_auth.rs.  A probe reads the credentials of the Codex CLI,  *)
(* rotates their tokens when they are about to expire or are rejected, and *)
(* saves them back, while the CLI does the same and its user signs out or  *)
(* in to another account.  Before a rotation the store is read again (a    *)
(* guarded reload); the host replaces it only if it still holds what the   *)
(* probe read (its revision), in two steps no lock of the CLI's covers.    *)
(* Reading the store again may fail, and so may the write, which is only   *)
(* logged.  Credentials with an API key and no token are left out.         *)
(*                                                                         *)
(* A token is the number under which it was issued.  A revision is a hash  *)
(* of the credentials; here it is the credentials themselves.              *)
(***************************************************************************)
EXTENDS Naturals, FiniteSets, Sequences

CONSTANTS
    Places,    \* where probe() looks, in order: one store with a native host
    Native,    \* the host has codex.readAuth and codex.writeAuth
    ReadOnly,  \* the store is the encrypted one
    Accounts,  \* ChatGPT accounts
    MaxTokens  \* bound on the tokens issued

CodexAssumption ==
    /\ Places \in Nat \ {0} /\ MaxTokens \in Nat \ {0}
    /\ Native \in BOOLEAN /\ ReadOnly \in BOOLEAN
    /\ Native => Places = 1

VARIABLES
    store,   \* store[i]: the credentials at place i
    valid,   \* refresh tokens the server accepts
    aging,   \* access tokens within the refresh window
    issued,  \* tokens issued
    probe,
    \* history
    signedIn,  \* signedIn[i]: the account last signed in to at place i
    dropped,   \* refresh tokens spent on a rotation that was lost with the probe, the
               \* answer or the write
    twice,     \* a rotation was saved under the revision of an earlier one
    crossed    \* a sign-in fell between the host's comparison and replacement

vars == <<store, valid, aging, issued, probe, signedIn, dropped, twice, crossed>>

Tokens == 1..MaxTokens
\* Not all credentials say which account they are of (tokens.account_id): named.
Absent == [access |-> 0, refresh |-> 0, account |-> "none", named |-> FALSE]
Auth == [access : 0..MaxTokens, refresh : 0..MaxTokens, account : Accounts \cup {"none"},
         named : BOOLEAN]

Idle == [phase |-> "idle", place |-> 0, auth |-> Absent, revision |-> Absent,
         stage |-> "first", refused |-> FALSE, rotated |-> FALSE,
         began |-> "none", rejected |-> {}, spent |-> {}]

TypeOK ==
    /\ store \in [1..Places -> Auth]
    /\ valid \subseteq Tokens /\ aging \subseteq Tokens /\ issued \in 0..MaxTokens
    /\ probe.phase \in {"idle", "load", "reload", "refresh", "compare", "replace",
                        "fetch", "retry", "failed"}
    /\ probe.auth \in Auth /\ probe.revision \in Auth
    /\ probe.stage \in {"first", "proactive", "reloaded", "last"}
    /\ dropped \subseteq Tokens /\ probe.spent \subseteq Tokens

Init ==
    /\ store = [i \in 1..Places |-> Absent]
    /\ valid = {} /\ aging = {} /\ issued = 0
    /\ probe = Idle
    /\ signedIn = [i \in 1..Places |-> "none"]
    /\ dropped = {} /\ twice = FALSE /\ crossed = FALSE

----------------------------------------------------------------------------
(* The Codex CLI, the passing of time, the end of a probe's process.       *)

CliLogin(i, account, named) ==
    /\ issued < MaxTokens
    /\ issued' = issued + 1
    /\ valid' = valid \cup {issued + 1}
    /\ store' = [store EXCEPT ![i] = [access |-> issued + 1, refresh |-> issued + 1,
                                      account |-> account, named |-> named]]
    /\ signedIn' = [signedIn EXCEPT ![i] = account]
    /\ crossed' = (crossed \/ (probe.place = i /\ probe.phase = "replace"))
    /\ UNCHANGED <<aging, probe, dropped, twice>>

CliLogout(i) ==
    /\ store[i] # Absent
    /\ store' = [store EXCEPT ![i] = Absent]
    /\ signedIn' = [signedIn EXCEPT ![i] = "none"]
    /\ crossed' = (crossed \/ (probe.place = i /\ probe.phase = "replace"))
    /\ UNCHANGED <<valid, aging, issued, probe, dropped, twice>>

CliRefresh(i) ==
    /\ issued < MaxTokens
    /\ store[i].refresh \in valid
    /\ issued' = issued + 1
    /\ valid' = (valid \ {store[i].refresh}) \cup {issued + 1}
    /\ store' = [store EXCEPT ![i].access = issued + 1, ![i].refresh = issued + 1]
    /\ UNCHANGED <<aging, probe, signedIn, dropped, twice, crossed>>

Age(t) ==
    /\ t \in 1..issued \ aging
    /\ aging' = aging \cup {t}
    /\ UNCHANGED <<store, valid, issued, probe, signedIn, dropped, twice, crossed>>

Die ==
    /\ probe.phase # "idle"
    /\ dropped' = dropped \cup probe.spent
    /\ probe' = Idle
    /\ UNCHANGED <<store, valid, aging, issued, signedIn, twice, crossed>>

----------------------------------------------------------------------------
(* probe(): the places in order, as long as they fail for their credentials. *)

Goes(local) ==
    /\ probe' = local
    /\ UNCHANGED <<store, valid, aging, issued, signedIn, dropped, twice, crossed>>

\* needsRefresh
NeedsRefresh(auth) == auth.access \in aging

Begin == probe.phase = "idle" /\ Goes([Idle EXCEPT !.phase = "load", !.place = 1])

\* Credentials that are absent, unusable or cannot be read make no candidate.
Load(readable) ==
    /\ probe.phase = "load"
    /\ LET auth == store[probe.place] IN
       Goes(IF ~readable \/ auth = Absent THEN [probe EXCEPT !.phase = "failed"]
            ELSE [Idle EXCEPT !.phase = IF NeedsRefresh(auth) THEN "reload" ELSE "fetch",
                              !.place = probe.place, !.auth = auth,
                              !.revision = auth, !.began = auth.account])

\* (mutant: begins again after the last place)
NextPlaceAround ==
    /\ probe.phase = "failed"
    /\ Goes([Idle EXCEPT !.phase = "load", !.place = (probe.place % Places) + 1])

\* An error about the credentials: the next place, or the probe's failure.
\* A native host has one place, and its failure is the probe's.
NextPlace ==
    /\ probe.phase = "failed"
    /\ \/ /\ probe.place < Places
          /\ Goes([Idle EXCEPT !.phase = "load", !.place = probe.place + 1])
       \/ /\ probe.place = Places
          /\ Goes(Idle)

----------------------------------------------------------------------------
(* reloadAuthState: once the probe's credentials name their account, only  *)
(* that account's replace them.                                            *)

\* (mutant: compares the accounts only if both credentials name one)
ConflictBothNamed(auth, current) ==
    auth.named /\ current.named /\ current.account # auth.account

Conflict(auth, current) ==
    auth.named /\ ~(current.named /\ current.account = auth.account)

\* Whoever's they are, if the probe's own did not say whose they were.
Adopted(local, current) ==
    [local EXCEPT !.auth = current, !.revision = current,
                  !.began = IF local.auth.named THEN @ ELSE current.account]

\* A file or keychain that cannot be read, or holds no credentials any more, counts as
\* unchanged; of a native host it is the probe's failure (the host throws).
Reread(local, readable, changed, unchanged) ==
    LET current == store[local.place] IN
    IF ~readable \/ current = Absent
    THEN IF Native THEN [local EXCEPT !.phase = "failed"] ELSE unchanged
    ELSE IF Conflict(local.auth, current) THEN [local EXCEPT !.phase = "failed"]
    ELSE IF current # local.auth THEN changed ELSE unchanged

\* Before a refresh ahead of time.  The CLI may have done it already.
ReloadAhead(readable) ==
    LET Ahead(l) == [l EXCEPT !.phase = IF NeedsRefresh(l.auth) THEN "refresh" ELSE "fetch",
                              !.stage = "proactive"]
    IN
    /\ probe.phase = "reload"
    /\ Goes(Reread(probe, readable, Ahead(Adopted(probe, store[probe.place])), Ahead(probe)))

\* After a 401: changed credentials are tried before any rotation, and a
\* refresh that was refused before the request is not tried again.
ReloadAfter401(readable) ==
    /\ probe.phase = "retry"
    /\ Goes(Reread(probe, readable,
            [Adopted(probe, store[probe.place]) EXCEPT
                !.phase = "fetch", !.stage = "reloaded", !.refused = FALSE],
            IF probe.refused THEN [probe EXCEPT !.phase = "failed"]
            ELSE [probe EXCEPT !.phase = "refresh", !.stage = "last"]))

----------------------------------------------------------------------------
(* refreshToken and saveAuth.                                              *)

\* Refused or answerless, ahead of time: the token at hand is tried; after a
\* 401 the probe fails.
WithoutToken(wasRefused) ==
    IF probe.stage = "proactive"
    THEN [probe EXCEPT !.phase = "fetch", !.refused = wasRefused]
    ELSE [probe EXCEPT !.phase = "failed"]

RefreshRefused ==
    /\ probe.phase = "refresh"
    /\ ReadOnly \/ probe.auth.refresh \notin valid
    /\ Goes(WithoutToken(TRUE))

RefreshFailed ==
    /\ probe.phase = "refresh" /\ ~ReadOnly
    /\ Goes(WithoutToken(FALSE))

\* The server rotates; the answer may still be lost.
Rotate(arrives) ==
    /\ probe.phase = "refresh" /\ ~ReadOnly
    /\ probe.auth.refresh \in valid /\ issued < MaxTokens
    /\ issued' = issued + 1
    /\ valid' = (valid \ {probe.auth.refresh}) \cup {issued + 1}
    /\ IF arrives
       THEN /\ probe' = [probe EXCEPT !.phase = "compare", !.rotated = TRUE,
                                      !.spent = {probe.auth.refresh},
                                      !.auth = [@ EXCEPT !.access = issued + 1,
                                                         !.refresh = issued + 1]]
            /\ twice' = (twice \/ probe.rotated)
            /\ UNCHANGED dropped
       ELSE /\ probe' = WithoutToken(FALSE)
            /\ dropped' = dropped \cup {probe.auth.refresh}
            /\ UNCHANGED twice
    /\ UNCHANGED <<store, aging, signedIn, crossed>>

\* codex_auth::write compares the store with the revision the probe was given
\* when it read the credentials; a mismatch throws, and is only logged.  The
\* encrypted store is not written at all.
Compare ==
    /\ probe.phase = "compare"
    /\ Goes(IF ~ReadOnly /\ (~Native \/ store[probe.place] = probe.revision)
            THEN [probe EXCEPT !.phase = "replace"]
            ELSE [probe EXCEPT !.phase = "fetch", !.spent = {}])

Saved(credentials) ==
    /\ probe.phase = "replace"
    /\ store' = [store EXCEPT ![probe.place] = credentials]
    /\ probe' = [probe EXCEPT !.phase = "fetch", !.spent = {}]
    /\ UNCHANGED <<valid, aging, issued, signedIn, dropped, twice, crossed>>

\* (mutant: the rotated refresh token is not written)
ReplaceAccess == Saved([store[probe.place] EXCEPT !.access = probe.auth.access])

Replace == Saved(probe.auth)

\* The write fails, or the host's keychain cannot be written: it is only logged, and the
\* usage is asked for with a token the store does not have.
ReplaceFails ==
    /\ probe.phase = "replace"
    /\ probe' = [probe EXCEPT !.phase = "fetch", !.spent = {}]
    /\ dropped' = dropped \cup probe.spent
    /\ UNCHANGED <<store, valid, aging, issued, signedIn, twice, crossed>>

----------------------------------------------------------------------------
(* fetchUsage, and what probeWithAuthState does with the status.           *)

\* The usage is shown; or the answer has another status or an invalid body, or the
\* connection broke: no other place is tried.
FetchEnds == probe.phase = "fetch" /\ Goes(Idle)

Fetch401 ==
    LET l == [probe EXCEPT !.rejected = @ \cup {probe.auth.access}] IN
    /\ probe.phase = "fetch"
    /\ Goes(CASE probe.stage \in {"first", "proactive"} -> [l EXCEPT !.phase = "retry"]
              [] probe.stage = "reloaded" -> [l EXCEPT !.phase = "refresh", !.stage = "last"]
              [] probe.stage = "last" -> [l EXCEPT !.phase = "failed"])

Next ==
    \/ \E i \in 1..Places, a \in Accounts, named \in BOOLEAN : CliLogin(i, a, named)
    \/ \E i \in 1..Places : CliRefresh(i) \/ CliLogout(i)
    \/ \E t \in Tokens : Age(t)
    \/ Die
    \/ Begin \/ NextPlace
    \/ \E readable \in BOOLEAN :
           Load(readable) \/ ReloadAhead(readable) \/ ReloadAfter401(readable)
    \/ RefreshRefused \/ RefreshFailed \/ (\E arrives \in BOOLEAN : Rotate(arrives))
    \/ Compare \/ Replace \/ ReplaceFails
    \/ FetchEnds \/ Fetch401

Spec == Init /\ [][Next]_vars

\* The steps of a probe that was begun.
Step == \/ NextPlace
        \/ \E readable \in BOOLEAN :
               Load(readable) \/ ReloadAhead(readable) \/ ReloadAfter401(readable)
        \/ RefreshRefused \/ RefreshFailed \/ (\E arrives \in BOOLEAN : Rotate(arrives))
        \/ Compare \/ Replace \/ ReplaceFails \/ FetchEnds \/ Fetch401

----------------------------------------------------------------------------
(* Properties.                                                             *)

\* What the comment at refreshToken asks for: no rotation that leaves the store with
\* tokens the server no longer accepts, which would sign the user out of the Codex CLI.
\* The code cannot keep to it when the rotation's answer, the probe or the write is lost;
\* but for the tokens spent on those, and the one being replaced, whatever is stored works.
StoreUsable ==
    \A i \in 1..Places :
        store[i] # Absent => store[i].refresh \in valid \cup dropped \cup probe.spent

\* The same, when no probe rotates a second time under its first revision.
StoreUsableAfterOne == ~twice => StoreUsable

\* A sign-in is not undone by a probe that had read the credentials before,
\* unless it falls between the host's comparison and its replacement, for
\* which no lock is shared with the CLI (codex_auth::write).
SignInKept == ~crossed => \A i \in 1..Places : store[i].account = signedIn[i]

\* A token that was rejected is not sent again in the same probe, whether the
\* next one comes from a reload, from a refresh ahead of time or after a 401.
NoRejectedTokenAgain == probe.phase = "fetch" => probe.auth.access \notin probe.rejected

\* The usage shown is that of the account the probe began with at its place, through
\* every reload (ERR_TOKEN_CONFLICT); of the last reload's, as long as none named it.
SameAccount == probe.phase = "fetch" => probe.auth.account = probe.began

\* A probe of the encrypted store leaves rotation to the CLI: no step of a
\* probe changes which refresh tokens the server accepts.
EncryptedNotRotated ==
    store' = store /\ probe' # probe => valid' = valid

\* Every probe ends: reloads, refreshes and retries do not go round.
Probing == probe.phase # "idle"
=============================================================================
