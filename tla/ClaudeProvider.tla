--------------------------- MODULE ClaudeProvider ---------------------------
(***************************************************************************)
(* The live-quota half of the Claude provider, src/plugins/claude/         *)
(* plugin.js.  A probe loads the credentials Claude Code keeps in its      *)
(* profile, reads live-usage-cache.json, and takes the quota from the      *)
(* first of: an observation of Claude Code's own, the OAuth endpoint, the  *)
(* claude.ai session.  Probes run in different processes (the daemon, the  *)
(* command line), each in a JavaScript context of its own: what one leaves *)
(* to the next is the cache file and the credential file only.  Claude     *)
(* Code rotates the tokens in that file, and signs in, at any time.        *)
(*                                                                         *)
(* A quota reading is abstracted to where and when it was taken; a token   *)
(* to the number under which it was issued; time is counted in ticks, of   *)
(* which Interval make the five minutes of the source.                     *)
(***************************************************************************)
EXTENDS Naturals, FiniteSets

CONSTANTS
    Procs,           \* processes that may probe
    Modes,           \* Modes[p]: the source modes p is asked for
    Key,             \* Key[p]: the claude.ai session p is configured with, or "none"
    Interval,        \* MIN_USAGE_FETCH_INTERVAL_MS and DEFAULT_RATE_LIMIT_BACKOFF_MS
    MaxAge,          \* LIVE_USAGE_CACHE_MAX_AGE_MS
    GrantsInterval,  \* RESET_GRANTS_CHECK_INTERVAL_MS
    Buffer,          \* REFRESH_BUFFER_MS
    TokenLife,       \* expires_in of the tokens issued
    Ages,            \* how old an observation of Claude Code's may be when it is read
    RetryAfters,     \* the Retry-After values the server may send
    MaxTime,         \* bound on the clock
    MaxTokens        \* bound on the tokens issued

ClaudeAssumption ==
    /\ Interval \in Nat \ {0} /\ MaxAge \in Nat /\ GrantsInterval \in Nat
    /\ Buffer \in Nat /\ TokenLife \in Nat \ {0}
    /\ RetryAfters \subseteq Nat /\ Ages \subseteq Nat
    /\ MaxTime \in Nat \ {0} /\ MaxTokens \in Nat \ {0}
    /\ Modes \in [Procs -> SUBSET {"auto", "oauth", "web", "cli", "local"}]
    /\ "none" \in {Key[p] : p \in Procs} \cup {"none"}

VARIABLES
    now,
    file,       \* .credentials.json
    valid,      \* the refresh tokens the server accepts
    cache,      \* live-usage-cache.json
    probe,      \* each process's probe
    result,     \* each process's last snapshot
    \* history, read by the properties only
    issued,     \* issued[t]: the login of token t (0: not issued)
    deadline,   \* deadline[id]: latest moment before which a 429 said not to ask
    polled,     \* polled[id]: start of the last probe that asked the OAuth endpoint,
                \* and whether it was served
    asked,      \* asked[t]: profile lookups made with token t
    dropped     \* the refresh tokens spent on a rotation whose tokens reached no file

vars == <<now, file, valid, cache, probe, result, issued, deadline, polled,
          asked, dropped>>

Tokens == 1..MaxTokens
Keys == {Key[p] : p \in Procs}
Ids == (0..MaxTokens) \X Keys
Times == 0..(MaxTime + MaxAge + Interval + 10)
Larger(a, b) == IF a >= b THEN a ELSE b

\* A reading: when it was taken (0: there is none), from which source.
Sources == {"none", "oauth", "web", "cli", "cli-cache"}
NoReading == [at |-> 0, src |-> "none"]
Reading == [at : Times, src : Sources]

NoFile == [access |-> 0, refresh |-> 0, expires |-> 0, profile |-> FALSE]
Credentials == [access : 0..MaxTokens, refresh : 0..MaxTokens,
                expires : Times, profile : BOOLEAN]

\* A cache of another identity, a damaged one and none at all are the same.
Blank == [id |-> <<0, "none">>, limitedUntil |-> 0, lastFetch |-> 0,
          data |-> NoReading, dataSource |-> "none", fetchedAt |-> 0,
          lastWeb |-> 0, webRetryAt |-> 0, grantsAt |-> 0, profileOf |-> 0]

Idle == [phase |-> "idle", mode |-> "auto", at |-> 0, creds |-> NoFile, live |-> Blank,
         data |-> NoReading, src |-> "none", observedAt |-> 0,
         limited |-> FALSE, retried |-> FALSE, webTried |-> FALSE, sent |-> FALSE,
         known |-> 0, spent |-> 0]

\* bindUsageCache: readings belong to one token and one session.
Identity(c, p) == <<c.access, Key[p]>>

\* readLiveUsageCache
LiveCache(id) == IF cache.id = id THEN cache ELSE Blank

\* writeLiveUsageCache: what the file holds now, over which a writer puts its updates.
WriteLiveCache(id) == [LiveCache(id) EXCEPT !.id = id]

\* (mutant: the reading at any age)
CachedForever(live, t) == IF live.fetchedAt > 0 THEN live.data ELSE NoReading

\* cachedLiveUsageData
CachedReading(live, t) ==
    IF live.fetchedAt > 0 /\ t - live.fetchedAt <= MaxAge THEN live.data
    ELSE NoReading

\* hasProfileScope: an inference-only token cannot read quotas.
HasOAuth(c) == c.access # 0

\* needsRefresh
NeedsRefresh(c, t) == t + Buffer >= c.expires

\* What Claude Code's own observation may be when it is read: absent, or
\* taken within the interval; a control dialogue returns one of now.
\* It is only borrowed for the file's own login.
Passive(c, t) ==
    {NoReading} \cup
    IF c.access # 0 /\ c.profile
    THEN {[at |-> t - a, src |-> "cli-cache"] : a \in {x \in Ages : x < t /\ x <= Interval}}
    ELSE {}
Active(c, t) ==
    {NoReading} \cup
    IF c.access # 0 /\ c.profile /\ Ages # {} THEN {[at |-> t, src |-> "cli"]} ELSE {}

TypeOK ==
    /\ now \in 1..MaxTime
    /\ file \in Credentials
    /\ valid \subseteq Tokens
    /\ cache \in [id : Ids \cup {Blank.id}, limitedUntil : Times, lastFetch : Times,
                  data : Reading, dataSource : Sources, fetchedAt : Times,
                  lastWeb : Times, webRetryAt : Times, grantsAt : Times,
                  profileOf : 0..MaxTokens]
    /\ \A p \in Procs :
           /\ probe[p].phase \in {"idle", "refresh", "save", "fetch", "profile",
                                  "web", "failed", "done"}
           /\ probe[p].creds \in Credentials /\ probe[p].data \in Reading
           /\ probe[p].spent \in 0..MaxTokens
           /\ result[p].source \in Sources \cup {"cached", "local"}
           /\ result[p].state \in {"none", "ready", "failed", "error"}
    /\ issued \in [Tokens -> 0..MaxTokens]
    /\ dropped \subseteq Tokens

NoResult == [state |-> "none", source |-> "none", data |-> NoReading, fetchedAt |-> 0]

Init ==
    /\ now = 1
    /\ file = NoFile
    /\ valid = {}
    /\ cache = Blank
    /\ probe = [p \in Procs |-> Idle]
    /\ result = [p \in Procs |-> NoResult]
    /\ issued = [t \in Tokens |-> 0]
    /\ deadline = [id \in Ids |-> 0]
    /\ polled = [id \in Ids |-> [at |-> 0, ok |-> FALSE]]
    /\ asked = [t \in Tokens |-> 0]
    /\ dropped = {}

NewToken == Cardinality({t \in Tokens : issued[t] # 0}) + 1
Logins == {issued[t] : t \in Tokens} \ {0}

----------------------------------------------------------------------------
(* Around the probes: the clock, Claude Code, and processes that die.      *)

Tick ==
    /\ now < MaxTime
    /\ now' = now + 1
    /\ UNCHANGED <<file, valid, cache, probe, result, issued, deadline, polled, asked, dropped>>

\* Claude Code signs in, with or without the profile scope.
CliLogin(withProfile) ==
    /\ NewToken \in Tokens
    /\ issued' = [issued EXCEPT ![NewToken] = Cardinality(Logins) + 1]
    /\ valid' = valid \cup {NewToken}
    /\ file' = [access |-> NewToken, refresh |-> NewToken,
                expires |-> now + TokenLife, profile |-> withProfile]
    /\ UNCHANGED <<now, cache, probe, result, deadline, polled, asked, dropped>>

\* Claude Code refreshes its own tokens.
CliRefresh ==
    /\ NewToken \in Tokens
    /\ file.refresh \in valid
    /\ issued' = [issued EXCEPT ![NewToken] = issued[file.refresh]]
    /\ valid' = (valid \ {file.refresh}) \cup {NewToken}
    /\ file' = [file EXCEPT !.access = NewToken, !.refresh = NewToken,
                            !.expires = now + TokenLife]
    /\ UNCHANGED <<now, cache, probe, result, deadline, polled, asked, dropped>>

\* The host interrupts the script at its deadline, or the process dies.
Die(p) ==
    /\ probe[p].phase # "idle"
    /\ dropped' = dropped \cup (IF probe[p].phase = "save" THEN {probe[p].spent} ELSE {})
    /\ probe' = [probe EXCEPT ![p] = Idle]
    /\ UNCHANGED <<now, file, valid, cache, result, issued, deadline, polled, asked>>

----------------------------------------------------------------------------
(* probe(): the choice of the source.                                      *)

Started(p, mode) ==
    [Idle EXCEPT !.mode = mode, !.at = now, !.creds = file,
                 !.live = LiveCache(Identity(file, p)),
                 !.known = deadline[Identity(file, p)]]

Goes(p, local) == probe' = [probe EXCEPT ![p] = local]

\* A mode whose credential is missing: the probe throws before any work.
Refused(p, mode) == \/ mode = "web" /\ Key[p] = "none"
                    \/ mode = "oauth" /\ ~HasOAuth(file)

Fails(p) == result' = [result EXCEPT ![p] = [NoResult EXCEPT !.state = "error"]]

\* An API reading taken later than the observation, and still fresh.
FresherApi(live, t, q) ==
    /\ CachedReading(live, t).at # 0
    /\ live.fetchedAt <= t /\ t - live.fetchedAt < Interval
    /\ live.fetchedAt > q.at

\* The observation of Claude Code's that a probe of this mode takes.
\* Only the cli mode starts a control dialogue here, and not in a cooldown.
Borrowed(local, q) ==
    \/ /\ local.mode = "auto"
       /\ \/ q = NoReading
          \/ q \in Passive(local.creds, local.at) /\ ~FresherApi(local.live, local.at, q)
    \/ /\ local.mode = "cli"
       /\ \/ q \in Passive(local.creds, local.at)
          \/ local.at >= local.live.limitedUntil /\ q \in Active(local.creds, local.at)
    \/ local.mode \in {"oauth", "web", "local"} /\ q = NoReading

\* The cli mode without an observation: it waits, or gives up.
OfCliMode(local) ==
    IF local.at < local.live.limitedUntil
    THEN [local EXCEPT !.phase = "done", !.limited = TRUE,
                       !.data = CachedReading(local.live, local.at)]
    ELSE [local EXCEPT !.phase = "failed", !.sent = TRUE]

\* Within the interval, unless a cooldown has just been waited out.
Throttled(local) ==
    /\ CachedReading(local.live, local.at).at # 0
    /\ local.live.limitedUntil = 0
    /\ local.at - local.live.lastFetch < Interval

\* The OAuth source: in a cooldown, within the interval, or with a request.
OfOAuth(local) ==
    LET cached == CachedReading(local.live, local.at)
        oauth == [local EXCEPT !.src = "oauth"]
    IN  IF ~local.creds.profile THEN [oauth EXCEPT !.phase = "done"]
        ELSE IF local.at < local.live.limitedUntil
        THEN [oauth EXCEPT !.phase = "done", !.limited = TRUE, !.data = cached]
        ELSE IF Throttled(local)
        THEN [oauth EXCEPT !.phase = "done", !.data = cached]
        ELSE [oauth EXCEPT !.phase = IF NeedsRefresh(local.creds, local.at)
                                     THEN "refresh" ELSE "fetch"]

Chosen(p, local, q) ==
    CASE local.mode = "local"      -> [local EXCEPT !.phase = "done"]
      [] local.mode # "local" /\ q.at # 0 ->
             [local EXCEPT !.phase = "done", !.data = q, !.src = q.src,
                           !.observedAt = q.at, !.sent = (q.src = "cli")]
      [] local.mode = "cli" /\ q.at = 0 -> OfCliMode(local)
      [] local.mode \in {"auto", "oauth"} /\ q.at = 0 /\ HasOAuth(local.creds) ->
             OfOAuth(local)
      [] OTHER -> [local EXCEPT !.phase = IF Key[p] # "none" THEN "web" ELSE "done"]

Begin(p) ==
    /\ probe[p].phase = "idle"
    /\ \E mode \in Modes[p] :
           IF Refused(p, mode)
           THEN Fails(p) /\ UNCHANGED probe
           ELSE /\ \E q \in {NoReading} \cup Passive(file, now) \cup Active(file, now) :
                       /\ Borrowed(Started(p, mode), q)
                       /\ Goes(p, Chosen(p, Started(p, mode), q))
                /\ result' = [result EXCEPT ![p] = NoResult]
    /\ UNCHANGED <<now, file, valid, cache, issued, deadline, polled,
                   asked, dropped>>

----------------------------------------------------------------------------
(* refreshToken: the tokens in hand are the ones read when the probe began. *)

\* The server rotates the refresh token it accepts.  A rotation whose answer
\* is lost, like every failure but a refusal, is not told from "no token".
RefreshAnswered(p, answer) ==
    LET l == probe[p] IN
    /\ l.phase = "refresh"
    /\ \/ /\ answer = "ok" /\ l.creds.refresh \in valid /\ NewToken \in Tokens
          /\ valid' = (valid \ {l.creds.refresh}) \cup {NewToken}
          /\ issued' = [issued EXCEPT ![NewToken] = issued[l.creds.refresh]]
          /\ Goes(p, [l EXCEPT !.phase = "save", !.spent = l.creds.refresh,
                               !.creds = [@ EXCEPT !.access = NewToken, !.refresh = NewToken,
                                                   !.expires = now + TokenLife]])
          /\ UNCHANGED dropped
       \/ /\ answer = "lost" /\ l.creds.refresh \in valid /\ NewToken \in Tokens
          /\ valid' = (valid \ {l.creds.refresh}) \cup {NewToken}
          /\ issued' = [issued EXCEPT ![NewToken] = issued[l.creds.refresh]]
          /\ Goes(p, [l EXCEPT !.phase = IF l.retried THEN "failed" ELSE "fetch"])
          /\ dropped' = dropped \cup {l.creds.refresh}
       \/ /\ answer = "refused" /\ l.creds.refresh \notin valid
          /\ Goes(p, [l EXCEPT !.phase = "failed"])
          /\ UNCHANGED <<valid, issued, dropped>>
       \/ /\ answer = "error"
          /\ Goes(p, [l EXCEPT !.phase = IF l.retried THEN "failed" ELSE "fetch"])
          /\ UNCHANGED <<valid, issued, dropped>>
    /\ UNCHANGED <<now, file, cache, result, deadline, polled, asked>>

\* (mutant: the rotated refresh token is not written)
SaveAccessToken(p) ==
    /\ probe[p].phase = "save"
    /\ file' = [probe[p].creds EXCEPT !.refresh = file.refresh]
    /\ Goes(p, [probe[p] EXCEPT !.phase = "fetch", !.spent = 0])
    /\ UNCHANGED <<now, valid, cache, result, issued, deadline, polled, asked, dropped>>

\* saveCredentials: the whole file is replaced by what was read and rotated.
\* The cache is bound to the new token (Identity follows creds).
SaveCredentials(p) ==
    LET l == probe[p] IN
    /\ l.phase = "save"
    /\ file' = l.creds
    /\ Goes(p, [l EXCEPT !.phase = "fetch", !.spent = 0])
    /\ UNCHANGED <<now, valid, cache, result, issued, deadline, polled,
                   asked, dropped>>

\* A write that fails is only logged: the probe goes on with tokens the file does not have.
SaveFails(p) ==
    LET l == probe[p] IN
    /\ l.phase = "save"
    /\ Goes(p, [l EXCEPT !.phase = "fetch", !.spent = 0])
    /\ dropped' = dropped \cup {l.spent}
    /\ UNCHANGED <<now, file, valid, cache, result, issued, deadline, polled, asked>>

----------------------------------------------------------------------------
(* fetchUsage and what the probe makes of its answer.                      *)

\* Reset grants are asked for once per GrantsInterval.
ChecksGrants(live, t) ==
    live.grantsAt = 0 \/ t < live.grantsAt \/ t - live.grantsAt >= GrantsInterval

Fetched(p, l) ==
    LET id == Identity(l.creds, p)
        reading == [at |-> l.at, src |-> "oauth"]
        grants == IF ChecksGrants(LiveCache(id), l.at) THEN l.at
                  ELSE LiveCache(id).grantsAt
    IN  /\ cache' = [WriteLiveCache(id) EXCEPT
                         !.limitedUntil = 0, !.lastFetch = l.at, !.data = reading,
                         !.dataSource = "oauth", !.fetchedAt = l.at, !.grantsAt = grants]
        /\ Goes(p, [l EXCEPT !.phase = "profile", !.data = reading, !.sent = TRUE])
        /\ UNCHANGED deadline

\* HTTP 429, or a rate-limit error in a 2xx body; no Retry-After: Interval.
RateLimited(p, l, delay) ==
    LET id == Identity(l.creds, p)
        cached == CachedReading(l.live, l.at)
    IN  /\ cache' = [WriteLiveCache(id) EXCEPT
                         !.limitedUntil = l.at + delay, !.lastFetch = l.at,
                         !.data = cached, !.fetchedAt = l.live.fetchedAt]
        /\ Goes(p, [l EXCEPT !.phase = "done", !.limited = TRUE, !.data = cached,
                             !.sent = TRUE])
        /\ deadline' = [deadline EXCEPT ![id] = Larger(@, l.at + delay)]

\* "error" is every answer that makes the probe throw and writes nothing:
\* another status, a broken connection, a body without a usage window.
FetchAnswered(p, answer) ==
    LET l == probe[p] IN
    /\ l.phase = "fetch"
    /\ polled' = [polled EXCEPT ![Identity(l.creds, p)] = [at |-> l.at, ok |-> answer = "ok"]]
    /\ \/ answer = "ok" /\ Fetched(p, l)
       \/ answer = "limited" /\ \E delay \in RetryAfters \cup {Interval} : RateLimited(p, l, delay)
       \/ /\ answer = "auth"
          /\ Goes(p, IF l.retried THEN [l EXCEPT !.phase = "failed", !.sent = TRUE]
                     ELSE [l EXCEPT !.phase = "refresh", !.retried = TRUE, !.sent = TRUE])
          /\ UNCHANGED <<cache, deadline>>
       \/ /\ answer = "error"
          /\ Goes(p, [l EXCEPT !.phase = "failed", !.sent = TRUE])
          /\ UNCHANGED <<cache, deadline>>
    /\ UNCHANGED <<now, file, valid, result, issued, asked, dropped>>

\* livePlanLabel: one lookup per token, failed ones included.
LookUpProfile(p) ==
    LET l == probe[p]
        id == Identity(l.creds, p)
    IN
    /\ l.phase = "profile"
    /\ IF LiveCache(id).profileOf = l.creds.access
       THEN UNCHANGED <<cache, asked>>
       ELSE /\ cache' = [WriteLiveCache(id) EXCEPT !.profileOf = l.creds.access]
            /\ asked' = [asked EXCEPT ![l.creds.access] = @ + 1]
    /\ Goes(p, [l EXCEPT !.phase = "done"])
    /\ UNCHANGED <<now, file, valid, result, issued, deadline, polled, dropped>>

----------------------------------------------------------------------------
(* loadWebUsageData: the primary source without OAuth, or the stand-in of  *)
(* a rate-limited one, whose failure is only logged.                       *)

\* (mutant: as long as the answer says)
WebBackoffAsTold(delay) == delay

\* A web failure keeps the session from being asked again.
WebBackoff(delay) == Larger(Interval, delay)

\* The kept reading, when the web is where it came from.
WebCached(web, t) ==
    IF web.dataSource = "web" THEN CachedReading(web, t) ELSE NoReading

WebLoaded(p, answer) ==
    LET l == probe[p]
        id == Identity(l.creds, p)
        web == LiveCache(id)
        cached == WebCached(web, l.at)
        shows(reading) == [l EXCEPT !.phase = "done", !.data = reading, !.src = "web",
                                    !.limited = FALSE]
        refused == IF l.limited THEN [l EXCEPT !.phase = "done", !.webTried = TRUE]
                   ELSE [l EXCEPT !.phase = "failed"]
    IN
    /\ l.phase = "web"
    /\ \/ /\ web.webRetryAt > l.at /\ answer = "none"
          /\ Goes(p, refused) /\ UNCHANGED cache
       \/ /\ web.webRetryAt <= l.at /\ answer = "none"
          /\ cached.at # 0 /\ l.at - web.lastWeb < Interval
          /\ Goes(p, shows(cached)) /\ UNCHANGED cache
       \/ /\ web.webRetryAt <= l.at /\ ~(cached.at # 0 /\ l.at - web.lastWeb < Interval)
          /\ \/ /\ answer = "ok"
                /\ Goes(p, shows([at |-> l.at, src |-> "web"]))
                /\ cache' = [WriteLiveCache(id) EXCEPT
                                 !.data = [at |-> l.at, src |-> "web"], !.dataSource = "web",
                                 !.fetchedAt = l.at, !.lastWeb = l.at, !.webRetryAt = 0]
             \/ /\ answer = "error"
                /\ Goes(p, refused)
                /\ \E delay \in RetryAfters :
                       cache' = [WriteLiveCache(id) EXCEPT
                                     !.lastWeb = l.at, !.webRetryAt = l.at + WebBackoff(delay)]
    /\ UNCHANGED <<now, file, valid, result, issued, deadline, polled,
                   asked, dropped>>

----------------------------------------------------------------------------
(* The end of the probe.                                                   *)

\* The handler of primaryError: in auto, outside a cooldown, Claude Code's
\* own observation, read again or asked for, stands in for the failed source.
Fallback(p) ==
    LET l == probe[p] IN
    /\ l.phase = "failed"
    /\ \/ /\ l.mode = "auto" /\ l.at >= l.live.limitedUntil
          /\ \E q \in (Passive(l.creds, now) \cup Active(l.creds, now)) \ {NoReading} :
                 Goes(p, [l EXCEPT !.phase = "done", !.data = q, !.src = q.src,
                                   !.observedAt = q.at, !.limited = FALSE,
                                   !.sent = @ \/ q.src = "cli"])
          /\ UNCHANGED result
       \/ Fails(p) /\ Goes(p, Idle)
    /\ UNCHANGED <<now, file, valid, cache, issued, deadline, polled,
                   asked, dropped>>

\* A rate-limited probe with a session tries the web first.
TriesWeb(p) == probe[p].mode = "auto" /\ Key[p] # "none" /\ probe[p].limited /\ ~probe[p].webTried

\* The snapshot: its time is the observation's, or else what the cache file
\* now says, or else the start of the probe.
Snapshot(p) ==
    LET l == probe[p]
        recorded == LiveCache(Identity(l.creds, p)).fetchedAt
    IN  [state |-> IF l.limited THEN "failed" ELSE "ready",
         source |-> IF l.data.at = 0 THEN "local"
                    ELSE IF l.limited THEN "cached" ELSE l.src,
         data |-> l.data,
         fetchedAt |-> IF l.data.at = 0 THEN l.at
                       ELSE IF l.observedAt # 0 THEN l.observedAt
                       ELSE IF recorded # 0 THEN recorded ELSE l.at]

Finish(p) ==
    /\ probe[p].phase = "done"
    /\ IF TriesWeb(p)
       THEN Goes(p, [probe[p] EXCEPT !.phase = "web"]) /\ UNCHANGED result
       ELSE Goes(p, Idle) /\ result' = [result EXCEPT ![p] = Snapshot(p)]
    /\ UNCHANGED <<now, file, valid, cache, issued, deadline, polled,
                   asked, dropped>>

Answers == {"ok", "lost", "refused", "error", "auth", "limited", "none"}

ProbeStep(p) ==
    \/ Begin(p)
    \/ \E a \in Answers : RefreshAnswered(p, a) \/ FetchAnswered(p, a) \/ WebLoaded(p, a)
    \/ SaveCredentials(p) \/ SaveFails(p)
    \/ LookUpProfile(p)
    \/ Fallback(p)
    \/ Finish(p)

Next ==
    \/ Tick
    \/ \E s \in BOOLEAN : CliLogin(s)
    \/ CliRefresh
    \/ \E p \in Procs : ProbeStep(p) \/ Die(p)

Spec == Init /\ [][Next]_vars

----------------------------------------------------------------------------
(* Properties.                                                             *)

\* No probe sends a quota request, of its own or through Claude Code, before
\* the moment a 429 answered to its identity in an earlier probe put it off
\* to: the deadline outlives the probe, the process and the other writes of
\* the cache file (effectiveRateLimitedUntilMs and writeLiveUsageCache).
CooldownHonoured == \A p \in Procs : probe[p].sent => probe[p].at >= probe[p].known

\* A snapshot that shows a reading gives the time that very reading was taken,
\* not the time of the probe or of another reading (the fetchedAt of probe).
FetchedAtIsObservation ==
    \A p \in Procs : result[p].data.at # 0 => result[p].fetchedAt = result[p].data.at

\* A snapshot names the source its reading came from, or "cached": the cache
\* file has one slot for the readings of both APIs (usageSource).
SourceTruthful ==
    \A p \in Procs :
        result[p].source \in {"oauth", "web", "cli", "cli-cache"} =>
            result[p].source = result[p].data.src

\* A probe about to report shows nothing older than a day
\* (LIVE_USAGE_CACHE_MAX_AGE_MS), even through 429 after 429, each of which
\* writes the kept reading back into the cache file.
ShownWithinMaxAge ==
    \A p \in Procs :
        probe[p].phase = "done" /\ probe[p].data.at # 0 =>
            probe[p].at - probe[p].data.at <= MaxAge \/ probe[p].data.at > probe[p].at

\* However probes and Claude Code take turns at rotating the tokens, the file holds a
\* refresh token the server accepts, unless it is one that was spent on a rotation that
\* never reached the file (its answer was lost, the process died before the save, or the
\* save failed) or is just being saved.
SignedInKept ==
    file # NoFile => file.refresh \in valid \cup dropped \cup {probe[p].spent : p \in Procs}

\* An identity the OAuth endpoint served is not polled again before the
\* interval is over, whichever probe was served.
ThrottledAfterSuccess ==
    \A p \in Procs :
        LET last == polled[Identity(probe[p].creds, p)] IN
        probe[p].phase = "fetch" /\ last.ok => probe[p].at - last.at >= Interval

\* The profile is looked up once per token, whether or not the lookup and later probes
\* succeed (livePlanLabel, "Include failed lookups").  A token whose rotation reached no
\* file is outside: a probe that could not save what it rotated asks, and writes the
\* cache, as another identity, and the probe after it starts over with the old token.
ProfileOncePerToken == \A t \in Tokens \ dropped : asked[t] <= 1

\* The web session is asked for once per interval and identity, after a
\* failure as after a success (lastWebUsageFetchMs and webRetryAtMs).
WebOncePerInterval ==
    cache'.id = cache.id /\ cache'.lastWeb # cache.lastWeb /\ cache.lastWeb # 0 =>
        cache'.lastWeb - cache.lastWeb >= Interval

=============================================================================
