--------------------------- MODULE CursorProvider ---------------------------
(***************************************************************************)
(* The probe of the Cursor provider, src/plugins/cursor/plugin.js: which   *)
(* credentials it uses, what it asks when, and what it shows.  The service *)
(* has four places that may tell the usage (the current period, the active *)
(* grants, cursor.com's REST usage, the subscription) and an account may   *)
(* be answered by any of them; a last request may replace the lines.       *)
(*                                                                         *)
(* A usage is what the program tells apart in it: whether the account is   *)
(* enabled, has a plan with a limit and a total percentage (a number or a  *)
(* text that is coerced later), two model pools (absent, both zero or in   *)
(* use), whether anything was spent, and whether it is a team's.           *)
(***************************************************************************)
EXTENDS Naturals, FiniteSets

CONSTANTS
    Profiles,   \* of "default", "explicit" (a chosen database), "nightly"
    Logins,     \* what the three places may hold
    RestUsages  \* the usages cursor.com's REST may tell

VARIABLES
    profile,
    stores,   \* stores[p]: what place p holds
    phase,
    source,   \* the place the credentials come from
    access,   \* the access token: "none", "aging", "good" or "new"
    saved,    \* the places a new access token was saved to
    usage,    \* what the current-period request answered
    status,   \* its last status
    plan,     \* [name, known]: the plan, and whether the request succeeded
    rest,     \* what the REST usage is to stand in for
    result,   \* [kind, lines, why]
    asked,    \* how often the usage and the refresh have been asked
    activity  \* the local transcripts are shown

vars == <<profile, stores, phase, source, access, saved, usage, status, plan, rest,
          result, asked, activity>>
credentials == <<profile, stores, source, access, saved>>

Places == {"account", "sqlite", "keychain"}
Holdings == [access : {"none", "aging", "good"}, refresh : BOOLEAN]
Names == {"", "Pro", "Team", "Enterprise"}
Given == {"none", "number", "text"}

Usages == [enabled : BOOLEAN, plan : {TRUE}, limit : Given, total : Given,
           pools : {"none", "zero", "used"}, spent : BOOLEAN, team : BOOLEAN]
          \cup [enabled : BOOLEAN, plan : {FALSE}, limit : {"none"}, total : {"none"},
                pools : {"none"}, spent : {FALSE}, team : BOOLEAN]

CursorAssumption ==
    /\ Profiles \subseteq {"default", "explicit", "nightly"} /\ Profiles # {}
    /\ Logins \subseteq [Places -> Holdings]
    /\ RestUsages \subseteq Usages

Unread == [enabled |-> TRUE, plan |-> FALSE, limit |-> "none", total |-> "none",
           pools |-> "none", spent |-> FALSE, team |-> FALSE]
None == [kind |-> "none", lines |-> {}, why |-> ""]
Lines(lines) == [kind |-> "lines", lines |-> lines, why |-> ""]
Fails(why) == [kind |-> "error", lines |-> {}, why |-> why]
Line(label, from) == [label |-> label, from |-> from]
Labels == {l.label : l \in result.lines}
Over == phase \in {"attach", "end"}

TypeOK ==
    /\ profile \in Profiles
    /\ stores \in [Places -> Holdings]
    /\ phase \in {"load", "ahead", "ask", "refresh", "plan", "grants", "rest", "stripe",
                  "connect", "attach", "end"}
    /\ source \in Places \cup {"none"}
    /\ access \in {"none", "aging", "good", "new"} /\ saved \subseteq Places
    /\ usage \in Usages
    /\ rest \in {"none", "only", "first", "after null", "after 400"}
    /\ result.kind \in {"none", "lines", "error"}
    /\ plan.name \in Names
    /\ asked.usage \in Nat /\ asked.refresh \in Nat

Init ==
    /\ profile \in Profiles
    /\ stores \in Logins
    /\ phase = "load" /\ source = "none" /\ access = "none" /\ saved = {}
    /\ usage = Unread /\ status = "none"
    /\ plan = [name |-> "", known |-> FALSE]
    /\ rest = "none" /\ result = None
    /\ asked = [usage |-> 0, refresh |-> 0]
    /\ activity = FALSE

----------------------------------------------------------------------------
(* loadAuthState and refreshToken.                                         *)

\* sharedCredentialsAllowed: the keychain's login and the transcripts belong to
\* the default profile of the stable Cursor.
SharedAllowed == profile = "default"

Present(p) ==
    /\ stores[p].access # "none" \/ stores[p].refresh
    /\ p = "keychain" => SharedAllowed

\* The first place that holds either token; no token is taken from another.
Chosen ==
    IF Present("account") THEN "account"
    ELSE IF Present("sqlite") THEN "sqlite"
    ELSE IF Present("keychain") THEN "keychain" ELSE "none"

Load ==
    /\ phase = "load"
    /\ source' = Chosen
    /\ IF Chosen = "none"
       THEN phase' = "end" /\ result' = Fails("not logged in") /\ UNCHANGED access
       ELSE /\ access' = stores[Chosen].access
            /\ phase' = IF stores[Chosen].access = "good" THEN "ask" ELSE "ahead"
            /\ UNCHANGED result
    /\ UNCHANGED <<profile, stores, saved, usage, status, plan, rest, asked, activity>>

\* persistAccessToken: back to the place it came from.
Saved == saved' = saved \cup {source}

\* A refresh answers with a new token ("new"), with a rejection ("thrown"), or
\* with nothing of use, which is also the outcome without a refresh token.
Outcomes == IF stores[source].refresh THEN {"new", "thrown", "nothing"} ELSE {"nothing"}

Refreshed(outcome) ==
    /\ outcome \in Outcomes
    /\ asked' = [asked EXCEPT !.refresh = @ + (IF stores[source].refresh THEN 1 ELSE 0)]
    /\ IF outcome = "new" THEN access' = "new" /\ Saved ELSE UNCHANGED <<access, saved>>
    /\ UNCHANGED <<profile, stores, source, usage, plan, rest, activity>>

\* Ahead of time: an access token at hand is tried whatever the outcome.
RefreshAhead(outcome) ==
    /\ phase = "ahead"
    /\ Refreshed(outcome)
    /\ IF outcome # "new" /\ access = "none"
       THEN phase' = "end" /\ result' = Fails(IF outcome = "thrown" THEN "token expired"
                                              ELSE "not logged in")
       ELSE phase' = "ask" /\ UNCHANGED result
    /\ UNCHANGED status

\* Without a new token the rejection is the answer.
RefreshAfterRejection(outcome) ==
    /\ phase = "refresh"
    /\ Refreshed(outcome)
    /\ IF outcome = "new" THEN phase' = "ask" /\ UNCHANGED result
       ELSE phase' = "end" /\ result' = Fails("token expired")
    /\ UNCHANGED status

----------------------------------------------------------------------------
(* The usage of the current period, and the plan.                          *)

AskedUsage(answer) ==
    /\ phase = "ask"
    /\ asked' = [asked EXCEPT !.usage = @ + 1]
    /\ status' = answer
    /\ UNCHANGED <<credentials, plan, activity>>

\* (mutant: refreshed as often as it is rejected)
AskRejectedAgain(answer) ==
    /\ answer \in {"401", "403"}
    /\ AskedUsage(answer)
    /\ phase' = "refresh"
    /\ UNCHANGED <<usage, rest, result>>

\* isAuthStatus: 403 is taken for a rejected token as 401 is.
AskRejected(answer) ==
    /\ answer \in {"401", "403"}
    /\ AskedUsage(answer)
    /\ IF asked.usage = 0 THEN phase' = "refresh" /\ UNCHANGED result
       ELSE phase' = "end" /\ result' = Fails("token expired")
    /\ UNCHANGED <<usage, rest>>

AskRefused ==
    /\ AskedUsage("400")
    /\ phase' = "grants" /\ rest' = "after 400"
    /\ UNCHANGED <<usage, result>>

AskFails ==
    /\ AskedUsage("failed")
    /\ phase' = "end" /\ result' = Fails("usage request failed")
    /\ UNCHANGED <<usage, rest>>

AskAnswered(u) ==
    /\ AskedUsage("200")
    /\ usage' = u /\ phase' = "plan"
    /\ UNCHANGED <<rest, result>>

\* A pair of pools is one only if it is in use or nothing was spent: the legacy
\* team plans report zeros beside their dollars.
HasPools(u) == u.pools = "used" \/ (u.pools = "zero" /\ ~u.spent)

\* planUsageLimitMissing in probeImpl, where nothing has been coerced yet.
LimitMissing(u) == u.plan /\ u.limit # "number" /\ ~HasPools(u)

\* (mutant: whatever the account's state)
StandsInAnyState(u, name, known) ==
    IF (~u.plan \/ LimitMissing(u)) /\ name \in {"Enterprise", "Team"} THEN "only"
    ELSE IF (~u.plan \/ LimitMissing(u)) /\ u.total # "number" /\ name = "" /\ ~known
    THEN "only"
    ELSE IF LimitMissing(u) /\ u.total # "number" THEN "first"
    ELSE "none"

\* Whether the REST usage is asked in place of this one: "only" it, or "first".
StandsIn(u, name, known) ==
    IF ~u.enabled THEN "none"
    ELSE IF (~u.plan \/ LimitMissing(u)) /\ name \in {"Enterprise", "Team"} THEN "only"
    ELSE IF (~u.plan \/ LimitMissing(u)) /\ u.total # "number" /\ name = "" /\ ~known
    THEN "only"
    ELSE IF LimitMissing(u) /\ u.total # "number" THEN "first"
    ELSE "none"

AskPlan(name, known) ==
    /\ phase = "plan"
    /\ ~known => name = ""
    /\ plan' = [name |-> name, known |-> known]
    /\ rest' = StandsIn(usage, name, known)
    /\ phase' = IF rest' = "none" THEN "connect" ELSE "rest"
    /\ UNCHANGED <<credentials, usage, status, result, asked, activity>>

----------------------------------------------------------------------------
(* buildPlanAndLinesFromConnectStyleUsage, after the numbers are coerced.  *)

Team(u, name) == name = "Team" \/ u.team

TotalLine(u, name) ==
    IF Team(u, name) /\ HasPools(u)
    THEN IF u.total # "none" THEN {Line("Total usage", "percent")} ELSE {}
    ELSE IF Team(u, name) THEN {Line("Total usage", "dollars")}
    ELSE {Line("Total usage", IF u.total # "none" THEN "percent"
                              ELSE IF u.limit # "none" THEN "limit" ELSE "nothing")}

PoolLines(u, name) ==
    IF u.pools # "none" /\ ~(Team(u, name) /\ ~HasPools(u) /\ u.pools = "zero")
    THEN {Line("Cursor Models", u.pools), Line("Other Models", u.pools)} ELSE {}

CreditLine(credits) == IF credits THEN {Line("Credits", "dollars")} ELSE {}

\* None: a team's account without a limit, which only REST can tell.
Built(u, name, credits) ==
    IF ~u.enabled \/ ~u.plan THEN Fails("no active subscription")
    ELSE IF u.limit = "none" /\ u.total = "none" /\ ~HasPools(u) THEN Fails("limit missing")
    ELSE IF Team(u, name) /\ ~HasPools(u) /\ u.limit = "none" THEN None
    ELSE Lines(CreditLine(credits) \cup TotalLine(u, name) \cup PoolLines(u, name))

\* The credit grants and the customer's balance are asked first; either may fail.
Connect(credits) ==
    /\ phase = "connect"
    /\ LET built == IF ~usage.enabled \/ ~usage.plan THEN Fails("no active subscription")
                    ELSE Built(usage, plan.name, credits)
       IN  IF built = None
           THEN phase' = "rest" /\ rest' = "after null" /\ UNCHANGED result
           ELSE /\ phase' = IF built.kind = "lines" THEN "attach" ELSE "end"
                /\ result' = built /\ UNCHANGED rest
    /\ UNCHANGED <<credentials, usage, status, plan, asked, activity>>

----------------------------------------------------------------------------
(* The places that stand in for the current period.                        *)

\* normalizeLimitGrantsToUsageShape: what has no plan usage of its own is given
\* one from its limit status or its percentage; "none" answers nothing of use.
Grants == {u \in RestUsages : u.enabled /\ u.plan}

AskGrants(u, name, credits) ==
    /\ phase = "grants"
    /\ LET built == Built(u, name, credits) IN
       IF built.kind = "lines"
       THEN phase' = "attach" /\ result' = built ELSE phase' = "rest" /\ UNCHANGED result
    /\ UNCHANGED <<credentials, usage, status, plan, rest, asked, activity>>

GrantsFail ==
    /\ phase = "grants" /\ phase' = "rest"
    /\ UNCHANGED <<credentials, usage, status, plan, rest, result, asked, activity>>

\* The answers of one REST address: a failure, the request counter of an
\* enterprise, a usage like the current period's, or something else.
Answer(kind, u) == [kind |-> kind, usage |-> u]
RestAnswers == {Answer(k, Unread) : k \in {"failed", "requests", "other"}}
               \cup {Answer("usage", u) : u \in RestUsages}

Promising(a) == a.kind \in {"requests", "usage"}

\* fetchRequestBasedUsage: of two addresses, with the user and without, the first
\* that promises something, else the first that answered at all.
RestUsage(first, second) ==
    IF Promising(first) THEN first
    ELSE IF Promising(second) THEN second
    ELSE IF first.kind # "failed" THEN first ELSE second

\* buildRequestBasedResult
RequestBased(a, name, credits) ==
    IF a.kind = "requests" THEN Lines({Line("Requests", "counter")})
    ELSE IF a.kind = "usage" /\ Built(a.usage, name, credits) # None
    THEN Built(a.usage, name, credits)
    ELSE Fails("request usage unavailable")

\* A first try, and the fallback after a 400, go on when there is no usage.
AskRest(first, second, credits) ==
    /\ phase = "rest"
    /\ LET built == RequestBased(RestUsage(first, second),
                                 IF rest = "after 400" THEN "" ELSE plan.name, credits)
       IN  IF built.kind = "lines" THEN phase' = "attach" /\ result' = built
           ELSE IF rest = "first" THEN phase' = "connect" /\ UNCHANGED result
           ELSE IF rest = "after 400" THEN phase' = "stripe" /\ UNCHANGED result
           ELSE phase' = "end" /\ result' = built
    /\ UNCHANGED <<credentials, usage, status, plan, rest, asked, activity>>

\* buildPartialStripeSubscriptionResult: the subscription, without any meter.
AskStripe(known) ==
    /\ phase = "stripe"
    /\ IF known THEN phase' = "attach" /\ result' = Lines({Line("Account", "text")})
       ELSE phase' = "end" /\ result' = Fails("fallback failed")
    /\ UNCHANGED <<credentials, usage, status, plan, rest, asked, activity>>

----------------------------------------------------------------------------
(* probe(): what is attached to the lines.                                 *)

Meters == {"Total usage", "Cursor Models", "Other Models", "Grok Bot usage"}

\* attachGrokBotUsage: a paid unified allowance that is yet to be reset replaces
\* the meters it unifies, unless requests are counted; another is added.
GrokBot(answer) ==
    IF answer = "weekly" /\ "Requests" \notin Labels
    THEN {l \in result.lines : l.label \notin Meters} \cup {Line("Weekly", "percent")}
    ELSE IF answer \in {"weekly", "extra"}
    THEN result.lines \cup {Line("Grok Bot usage", "percent")}
    ELSE result.lines

Attach(answer, transcripts) ==
    /\ phase = "attach"
    /\ phase' = "end"
    /\ result' = Lines(GrokBot(answer))
    /\ activity' = (transcripts /\ SharedAllowed)
    /\ UNCHANGED <<credentials, usage, status, plan, rest, asked>>

Next ==
    \/ Load
    \/ \E o \in {"new", "thrown", "nothing"} : RefreshAhead(o) \/ RefreshAfterRejection(o)
    \/ \E answer \in {"401", "403"} : AskRejected(answer)
    \/ AskRefused \/ AskFails
    \/ \E u \in Usages : AskAnswered(u)
    \/ \E name \in Names, known \in BOOLEAN : AskPlan(name, known)
    \/ \E credits \in BOOLEAN : Connect(credits)
    \/ \E u \in Grants, name \in Names, credits \in BOOLEAN : AskGrants(u, name, credits)
    \/ GrantsFail
    \/ \E first \in RestAnswers, second \in RestAnswers, credits \in BOOLEAN :
           AskRest(first, second, credits)
    \/ \E known \in BOOLEAN : AskStripe(known)
    \/ \E answer \in {"none", "extra", "weekly"}, t \in BOOLEAN : Attach(answer, t)

\* Each request has a timeout, and the steps between them end.
Spec == Init /\ [][Next]_vars /\ WF_vars(Next)

----------------------------------------------------------------------------
\* An account other than the default stable one uses neither the shared login
\* nor the shared transcripts (docs/provider-paths.md: Nightly does not inherit
\* them), and what is saved goes back to where it was read.
ProfilesApart ==
    /\ profile # "default" => source # "keychain" /\ ~activity
    /\ saved \subseteq {source}

\* An account the service calls disabled is told so: no other place is asked in
\* its stead, and no meter is shown.
DisabledIsTold ==
    phase = "end" /\ status = "200" /\ ~usage.enabled
    => result = Fails("no active subscription")

\* A team's dollars are never accompanied by the zeros of a plan without pools
\* (the comment on hasModelPools).
NoPlaceholderPools ==
    Line("Total usage", "dollars") \in result.lines
    => {Line("Cursor Models", "zero"), Line("Other Models", "zero")} \cap result.lines = {}

\* The unified allowance does not stand beside the meters it unifies, nor beside
\* the requests that are counted for an enterprise.
WeeklyAlone == "Weekly" \in Labels => Labels \cap (Meters \cup {"Requests"}) = {}

\* A team's total is what the service reports: dollars or its percentage, never
\* one put together from the pools (plugin.js: "A combined percentage cannot be
\* reconstructed from independent pools").
TeamTotalReported ==
    phase = "attach" /\ status = "200" /\ rest = "none" /\ Team(usage, plan.name)
    => \A l \in result.lines : l.label = "Total usage" => l.from \in {"percent", "dollars"}

\* A usage the current period told in full is shown, although REST was tried
\* first and had none.
ToldUsageShown ==
    phase = "end" /\ status = "200" /\ rest = "first" /\ usage.limit = "text" /\ usage.enabled
    => result.kind = "lines"

\* Rejections and fallbacks do not go round: the usage is asked for twice and the token
\* refreshed twice at most, whatever the four places answer.
AskedTwice == asked.usage <= 2 /\ asked.refresh <= 2
=============================================================================
