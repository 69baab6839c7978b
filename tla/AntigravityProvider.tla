------------------------- MODULE AntigravityProvider -------------------------
(***************************************************************************)
(* The combined Antigravity provider (src/plugins/antigravity/plugin.js).  *)
(* A probe asks a running IDE, then the login in an IDE's database, then   *)
(* that of agy in the keychain.  It never writes those logins: a token it  *)
(* refreshes is kept in a file of its own for each login, and a refresh    *)
(* token that was refused is left alone for an hour.                       *)
(*                                                                         *)
(* A login is the number of its refresh token; an access token is the      *)
(* number under which it was issued.                                       *)
(***************************************************************************)
EXTENDS Naturals, FiniteSets, Sequences, Functions

CONSTANTS
    Profiles,   \* the IDEs whose database may hold a login
    MaxLogins,  \* bound on the logins made
    MaxTokens   \* bound on the access tokens issued

AntigravityAssumption == MaxLogins \in Nat /\ MaxTokens \in Nat

VARIABLES
    selected,  \* settings.ideVariant or userDataDir, or "none"
    login,     \* login[p]: what the database or the keychain holds
    cache,     \* cache[p, r]: the token kept for a login, 0 for none
    cooling,   \* the refresh tokens with a cooldown file
    good,      \* access tokens the server accepts
    expired,   \* those past their expiry
    withdrawn, \* refresh tokens the server refuses
    logins, issued,
    probe,
    \* history
    kept,      \* kept[p, r]: the token that was last refreshed and written
    refused    \* refresh tokens whose refusal was recorded within the hour

vars == <<selected, login, cache, cooling, good, expired, withdrawn, logins, issued,
          probe, kept, refused>>
files == <<login, cache, cooling, kept, refused>>
server == <<good, expired, withdrawn, logins, issued>>

Places == Profiles \cup {"agy"}
None == [access |-> 0, refresh |-> 0]
Keys == Places \X (1..MaxLogins)

\* at: the login tried.  mine: what it was when it was read.  answers: of its
\* tokens.  verdict: ccData.  denied: whether any answer of the probe was a denial.
Idle == [phase |-> "idle", at |-> "none", mine |-> None, queue |-> <<>>, renewed |-> FALSE,
         answers |-> {}, down |-> {}, verdict |-> "none", denied |-> FALSE,
         skipped |-> {}, told |-> "none"]

TypeOK ==
    /\ login \in [Places -> [access : 0..MaxTokens, refresh : 0..MaxLogins]]
    /\ cache \in [Keys -> 0..MaxTokens] /\ kept \in [Keys -> 0..MaxTokens]
    /\ good \cup expired \subseteq 1..issued
    /\ cooling \cup withdrawn \cup refused \subseteq 1..logins
    /\ probe.phase \in {"idle", "ide", "agy process", "ask", "refresh", "over", "shown", "failed"}
    /\ probe.verdict \in {"none", "empty", "auth", "denied"}
    /\ probe.told \in {"none", "select", "log in", "denied"}

Init ==
    /\ selected \in Profiles \cup {"none"}
    /\ login = [p \in Places |-> None]
    /\ cache = [k \in Keys |-> 0] /\ kept = [k \in Keys |-> 0]
    /\ cooling = {} /\ good = {} /\ expired = {} /\ withdrawn = {} /\ refused = {}
    /\ logins = 0 /\ issued = 0
    /\ probe = Idle

----------------------------------------------------------------------------
(* The owners of the logins, the server, time, the end of a process.       *)

\* A login may come without an access token, or without a refresh token.
SignIn(p, access, refresh) ==
    /\ access \/ refresh
    /\ access => issued < MaxTokens
    /\ refresh => logins < MaxLogins
    /\ issued' = IF access THEN issued + 1 ELSE issued
    /\ logins' = IF refresh THEN logins + 1 ELSE logins
    /\ good' = IF access THEN good \cup {issued'} ELSE good
    /\ login' = [login EXCEPT ![p] = [access |-> IF access THEN issued' ELSE 0,
                                      refresh |-> IF refresh THEN logins' ELSE 0]]
    /\ UNCHANGED <<selected, cache, cooling, expired, withdrawn, probe, kept, refused>>

\* Of a token nobody holds any more it makes no difference.
Held == {login[p].access : p \in Places} \cup {cache[k] : k \in Keys}
        \cup {kept[k] : k \in Keys} \cup Range(probe.queue)

Expire(t) ==
    /\ t \in (1..issued \cap Held) \ expired
    /\ expired' = expired \cup {t} /\ good' = good \ {t}
    /\ UNCHANGED <<selected, files, withdrawn, logins, issued, probe>>

Reject(t) ==
    /\ t \in good \cap Held
    /\ good' = good \ {t}
    /\ UNCHANGED <<selected, files, expired, withdrawn, logins, issued, probe>>

Withdraw(r) ==
    /\ r \in {login[p].refresh : p \in Places} \ (withdrawn \cup {0})
    /\ withdrawn' = withdrawn \cup {r}
    /\ UNCHANGED <<selected, files, good, expired, logins, issued, probe>>

HourPasses ==
    /\ cooling' = {} /\ refused' = {}
    /\ UNCHANGED <<selected, login, cache, kept, server, probe>>

Die ==
    /\ probe.phase \notin {"idle", "shown", "failed"}
    /\ probe' = Idle
    /\ UNCHANGED <<selected, files, server>>

----------------------------------------------------------------------------
(* The running programs and the databases.                                 *)

Goes(local) == probe' = local /\ UNCHANGED <<selected, files, server>>
Fails(local, why) ==
    [Idle EXCEPT !.phase = "failed", !.at = local.at, !.denied = local.denied, !.told = why]
Shown(local) == [Idle EXCEPT !.phase = "shown", !.at = local.at]

\* A token kept for another login, or past its expiry, is passed over.
Cached(p, mine) ==
    IF mine.refresh = 0 \/ cache[<<p, mine.refresh>>] \in expired THEN 0 ELSE cache[<<p, mine.refresh>>]

\* What is left of a login's token: none that is missing or past its expiry.
Usable(t) == IF t = 0 \/ t \in expired THEN <<>> ELSE <<t>>

Tried(p, mine) ==
    Usable(Cached(p, mine))
    \o (IF Cached(p, mine) = mine.access THEN <<>> ELSE Usable(mine.access))

Tries(local, p) ==
    [local EXCEPT !.at = p, !.mine = login[p], !.queue = Tried(p, login[p]), !.renewed = FALSE,
                  !.phase = IF Tried(p, login[p]) = <<>> THEN "refresh" ELSE "ask",
                  !.answers = {}, !.down = {}, !.skipped = {}]

Databases == {p \in IF selected = "none" THEN Profiles ELSE {selected} : login[p] # None}

FromDatabases(local) ==
    IF Cardinality(Databases) > 1 THEN Fails(local, "select")
    ELSE IF Databases # {} THEN Tries(local, CHOOSE p \in Databases : TRUE)
    ELSE IF selected # "none" THEN Fails(local, "log in")
    ELSE [local EXCEPT !.phase = "agy process"]

Begin ==
    /\ probe.phase = "idle"
    /\ Goes(IF selected = "none" THEN [Idle EXCEPT !.phase = "ide"] ELSE FromDatabases(Idle))

Leave ==
    /\ probe.phase \in {"shown", "failed"}
    /\ Goes(Idle)

\* Some process answers, none does, or several were found.
AskIde(outcome) ==
    /\ probe.phase = "ide"
    /\ Goes(CASE outcome = "answers" -> Shown(probe)
              [] outcome = "missing" -> FromDatabases(probe)
              [] outcome = "ambiguous" -> Fails(probe, "select"))

AskAgyProcess(outcome) ==
    /\ probe.phase = "agy process"
    /\ Goes(CASE outcome = "answers" -> Shown(probe)
              [] outcome = "missing" -> Tries(probe, "agy")
              [] outcome = "ambiguous" -> Fails(probe, "select"))

----------------------------------------------------------------------------
(* The tokens of one login.                                                *)

\* Google's 401 is of the token, its 403 of the account.  An answer of agy's
\* without lines is null, as an outage is.
Answers(t) == IF t \in good THEN {"lines", "empty", "denied", "down"} ELSE {"auth", "down"}

\* The end of one login: the denial or the rejection of agy's takes the place
\* of the database's.
Concluded(local, verdict) ==
    [Idle EXCEPT !.phase = "over", !.at = local.at, !.denied = local.denied,
                 !.verdict = IF verdict = "none" THEN local.verdict ELSE verdict]

\* agy's login stands in for one that failed, not for one that answered nothing
\* or that was selected.
Successor(local) ==
    IF local.at # "agy" /\ selected = "none" /\ local.verdict # "empty" THEN Tries(local, "agy")
    ELSE Fails(local, IF local.verdict = "denied" THEN "denied" ELSE "log in")

Over == probe.phase = "over" /\ Goes(Successor(probe))

\* (mutant: an outage is taken for a rejection)
RefreshesOn(local) == TRUE

\* Only on evidence of a rejection, or when there was no token to try.
Refreshes(local) == local.answers = {} \/ "auth" \in local.answers

Ask(outcome) ==
    /\ probe.phase = "ask" /\ outcome \in Answers(Head(probe.queue))
    /\ outcome = "empty" => probe.at # "agy"
    /\ LET token == Head(probe.queue)
           asked == [probe EXCEPT !.queue = Tail(@),
                                  !.answers = @ \cup {outcome}, !.denied = @ \/ outcome = "denied",
                                  !.down = @ \cup IF outcome = "down" THEN {token} ELSE {}]
           ended == CASE outcome = "lines" -> Shown(asked)
                      [] outcome = "denied" -> Concluded(asked, "denied")
                      [] outcome = "empty" -> Concluded(asked, "empty")
                      [] OTHER -> asked
       IN  Goes(IF ended.phase # "ask" \/ asked.queue # <<>> THEN ended
                ELSE IF probe.renewed
                     THEN Concluded(ended, IF "auth" = outcome \/ (probe.at = "agy" /\ "auth" \in asked.answers)
                                           THEN "auth" ELSE "none")
                ELSE IF Refreshes(asked) THEN [ended EXCEPT !.phase = "refresh"]
                ELSE Concluded(ended, "none"))

\* A refresh that gives nothing: agy's rejection is the verdict, the database's is not.
NotRefreshed(local) ==
    Concluded(local, IF local.at = "agy" /\ "auth" \in local.answers THEN "auth" ELSE "none")

\* (mutant: one cooldown for all logins)
CoolingAll(r) == cooling # {}

Cooling(r) == r \in cooling

RefreshSkipped ==
    /\ probe.phase = "refresh"
    /\ probe.mine.refresh = 0 \/ Cooling(probe.mine.refresh)
    /\ Goes([NotRefreshed(probe) EXCEPT !.skipped = {probe.mine.refresh} \ {0}])

Presents == probe.phase = "refresh" /\ probe.mine.refresh # 0 /\ ~Cooling(probe.mine.refresh)

RefreshFails ==
    /\ Presents
    /\ Goes(NotRefreshed(probe))

Records(r) == cooling \cup {r}

\* invalid_grant: the cooldown is written, or the write fails.
RefreshRefused(writes) ==
    /\ Presents
    /\ probe.mine.refresh \in withdrawn
    /\ cooling' = IF writes THEN Records(probe.mine.refresh) ELSE cooling
    /\ refused' = IF writes THEN refused \cup {probe.mine.refresh} ELSE refused
    /\ probe' = NotRefreshed(probe)
    /\ UNCHANGED <<selected, login, cache, kept, server>>

\* (mutant: one file for all logins)
CachesShared(p, r, token) == [k \in Keys |-> IF k = <<p, r>> THEN token ELSE 0]

Caches(p, r, token) == [cache EXCEPT ![<<p, r>>] = token]

Refresh(writes) ==
    /\ Presents
    /\ probe.mine.refresh \notin withdrawn /\ issued < MaxTokens
    /\ issued' = issued + 1 /\ good' = good \cup {issued + 1}
    /\ cache' = IF writes THEN Caches(probe.at, probe.mine.refresh, issued + 1) ELSE cache
    /\ kept' = IF writes THEN [kept EXCEPT ![<<probe.at, probe.mine.refresh>>] = issued + 1] ELSE kept
    /\ probe' = [probe EXCEPT !.phase = "ask", !.queue = <<issued + 1>>, !.renewed = TRUE]
    /\ UNCHANGED <<selected, login, cooling, refused, expired, withdrawn, logins>>

ProbeStep ==
    \/ Leave \/ Over \/ RefreshSkipped \/ RefreshFails
    \/ \E o \in {"answers", "missing", "ambiguous"} : AskIde(o) \/ AskAgyProcess(o)
    \/ \E o \in {"lines", "empty", "denied", "down", "auth"} : Ask(o)
    \/ \E writes \in BOOLEAN : RefreshRefused(writes) \/ Refresh(writes)

Next ==
    \/ Begin \/ ProbeStep \/ Die \/ HourPasses
    \/ \E p \in Places, access \in BOOLEAN, refresh \in BOOLEAN : SignIn(p, access, refresh)
    \/ \E t \in 1..MaxTokens : Expire(t) \/ Reject(t)
    \/ \E r \in 1..MaxLogins : Withdraw(r)

\* Every request of a probe has a timeout.
Spec == Init /\ [][Next]_vars /\ WF_vars(ProbeStep)

----------------------------------------------------------------------------
Presented == Presents /\ probe'.phase # "idle" /\ probe' # probe

\* "Only refresh on evidence of an auth failure, or when there were no tokens
\* to try": while the service is down no login is refreshed.
NoRefreshOnOutage == Presented => probe.answers # {"down"}

\* A refused refresh token is not presented again within the hour, by the
\* database's login or by agy's.
CooldownKept == Presented => probe.mine.refresh \notin refused

\* "a new login bypasses this cooldown": only what was refused is passed over.
FreshLoginTried == probe.phase = "refresh" => probe'.skipped \subseteq refused

\* "the IDE and agy cannot evict each other's token": a token that was refreshed
\* and written is asked before its login is refreshed again.
RenewedOncePerLifetime ==
    Presented =>
        LET t == kept[<<probe.at, probe.mine.refresh>>] IN
        t \notin good \/ t \in probe.down

\* A selected database is read "without trying another process, CLI store or
\* profile".
SelectedAlone ==
    selected # "none" => probe.at \in {"none", selected} /\ probe.phase \notin {"ide", "agy process"}

\* A login whose token was rejected is not what tells a denial, and with no
\* other login to try a denial is told as one.
DenialToldApart ==
    /\ probe.told = "denied" => probe.denied
    /\ probe.phase = "failed" /\ selected # "none" /\ probe.denied => probe.told = "denied"

\* A probe that began comes to its end.
Probing == probe.phase # "idle"
=============================================================================
