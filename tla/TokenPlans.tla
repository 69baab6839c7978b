----------------------------- MODULE TokenPlans -----------------------------
(***************************************************************************)
(* The Alibaba consoles (src/plugins/{alibaba,alibaba-token-plan,          *)
(* qwencloud}): a cookie, a token found in one of three places, a form     *)
(* posted with both, and a payload in which the subscription in force has  *)
(* to be told from the expired ones before its numbers are read.  Qwen     *)
(* Cloud has a Team plan besides, selected by a setting.                   *)
(***************************************************************************)
EXTENDS Integers, Sequences, FiniteSets, FiniteSetsExt

CONSTANTS
    Counts,      \* the credits that are told, negative ones among them
    Fractions,   \* the used shares that are told, in hundredths
    MaxInstances \* the subscriptions in one payload

VARIABLES case, answer

vars == <<case, answer>>

Consoles == {"alibaba", "token plan", "qwen"}

\* A variable holds nothing, a text, or a text with a "=" in it.
Texts == {"none", "text", "cookie"}

CookieCases == [kind : {"cookie"}, console : Consoles, named : BOOLEAN,
                saved : Texts, setting : Texts, env : Texts]

\* What a request is answered with: html is a page that does not ask to log in.
Answers == {"json", "auth", "outage", "login page", "html", "garbage", "fails"}

RequestCases ==
    [kind : {"request"}, console : Consoles, inCookie : BOOLEAN,
     page : {"token", "none", "login page", "outage", "fails"},
     info : {"token", "none", "outage", "fails"},
     main : Answers, subscription : Answers, config : Answers]

Codes == {-1, 0, 200, 401, 403, 500}  \* -1: there is none

ErrorCases == [kind : {"error"}, console : Consoles, success : {"none", "true", "false"},
               code : Codes, loginText : BOOLEAN]

Absent == 10 ^ 6
Credits == Counts \cup {Absent}
Subscription == [status : {"active", "expired", "unknown"},
                 used : Credits, total : Credits, remaining : Credits]
NoQuota == [status |-> "unknown", used |-> Absent, total |-> Absent, remaining |-> Absent]

\* The root may tell numbers besides the list of subscriptions.
Roots == {NoQuota, [NoQuota EXCEPT !.used = 1, !.total = 2]}

PayloadCases == [kind : {"payload"}, console : {"token plan", "qwen"},
                 root : Roots,
                 list : UNION {[1..n -> Subscription] : n \in 0..MaxInstances}]

Shares == Fractions \cup {Absent}
WindowCases == [kind : {"windows"}, five : Shares, weekly : Shares, plan : BOOLEAN, totals : BOOLEAN]

\* start, end: the period relative to now.
TeamCases ==
    [kind : {"team"}, selected : {"unset", "false", "true", "other"}, session : BOOLEAN,
     login : {"json", "auth", "outage"}, token : BOOLEAN, data : {"none", "no groups", "told"},
     start : {-1, 0, 1}, end : {-1, 0, 1}, groups : 1..2, equities : 0..2,
     total : Credits, remaining : Credits]

Nothing == [outcome |-> "none", from |-> "none", lines |-> <<>>, shown |-> NoQuota]

Outcomes == {"none", "ok", "log in", "error", "empty", "individual"}

TypeOK ==
    /\ answer.outcome \in Outcomes
    /\ answer.from \in {"none", "saved", "setting", "env", "page", "cookie", "info"}
    /\ \A i \in DOMAIN answer.lines : answer.lines[i].percent \in 0..100
    /\ answer.shown \in Subscription \cup Roots

Init ==
    /\ case \in CookieCases \cup RequestCases \cup ErrorCases \cup PayloadCases
                \cup WindowCases \cup TeamCases
    /\ answer = Nothing

----------------------------------------------------------------------------
(* The cookie.                                                             *)

Accepted(console, text) == text = "cookie" \/ (console = "alibaba" /\ text = "text")

\* A named Qwen instance does not read the variables, which are the unnamed one's.
Environment(c) == IF c.console = "qwen" /\ c.named THEN "none" ELSE c.env

\* The first that is usable, in this order.
CookieHeader(c) ==
    IF Accepted(c.console, c.saved) THEN "saved"
    ELSE IF Accepted(c.console, c.setting) THEN "setting"
    ELSE IF Accepted(c.console, Environment(c)) THEN "env"
    ELSE "none"

FindCookie ==
    /\ case.kind = "cookie" /\ answer = Nothing
    /\ LET found == CookieHeader(case) IN
       answer' = [Nothing EXCEPT !.from = found, !.outcome = IF found = "none" THEN "log in" ELSE "ok"]
    /\ UNCHANGED case

----------------------------------------------------------------------------
(* The token and the requests.                                             *)

\* Only Qwen tells a login page; the others' page is scanned for a token either way.
PageToken(c) == c.page = "token" \/ (c.page = "login page" /\ c.console # "qwen")

AskedInfo(c) == c.console = "token plan" \/ (c.console = "qwen" /\ ~c.inCookie)

SecToken(c) ==
    IF PageToken(c) THEN "page"
    ELSE IF AskedInfo(c) /\ c.info = "token" THEN "info"
    ELSE IF c.inCookie THEN "cookie"
    ELSE "none"

\* (mutant: every refusal is told as an expired login)
OutageAsLogin(c, told) == IF told = "json" THEN "ok" ELSE "log in"

\* What the answer to a post is told as.  Alibaba takes every page for a login page.
Posted(c, told) ==
    CASE told = "json" -> "ok"
      [] told \in {"auth", "login page"} -> "log in"
      [] told = "html" /\ c.console = "alibaba" -> "log in"
      [] OTHER -> "error"

\* Only an outage or an unreadable answer is passed over.
Optional(c, told) == IF told \in {"outage", "html", "garbage"} THEN "ok" ELSE Posted(c, told)

\* Qwen does not post without a token, and asks for two more answers.
Requested(c) ==
    IF c.console = "qwen" /\ SecToken(c) = "none" THEN "log in"
    ELSE IF Posted(c, c.main) # "ok" \/ c.console # "qwen" THEN Posted(c, c.main)
    ELSE IF Optional(c, c.subscription) # "ok" THEN Optional(c, c.subscription)
    ELSE Optional(c, c.config)

Request ==
    /\ case.kind = "request" /\ answer = Nothing
    /\ answer' = [Nothing EXCEPT !.from = SecToken(case), !.outcome = Requested(case)]
    /\ UNCHANGED case

----------------------------------------------------------------------------
(* The error in a payload.                                                 *)

\* Qwen looks at the code first, the Token Plan at the flag and at the texts.
ErrorTold(c) ==
    LET byCode == IF c.code \in {401, 403} THEN "log in"
                  ELSE IF c.code \in {-1, 0, 200} THEN "ok" ELSE "error"
        byFlag == IF c.success # "false" THEN "ok" ELSE IF c.loginText THEN "log in" ELSE "error"
    IN  IF c.console = "alibaba"
        THEN IF c.code \in {-1, 200} THEN IF c.loginText THEN "log in" ELSE "ok"
             ELSE IF c.code \in {401, 403} THEN "log in" ELSE "error"
        ELSE IF c.console = "qwen" THEN IF byCode # "ok" THEN byCode ELSE byFlag
        ELSE IF byFlag # "ok" THEN byFlag ELSE IF c.loginText THEN "log in" ELSE byCode

CheckError ==
    /\ case.kind = "error" /\ answer = Nothing
    /\ answer' = [Nothing EXCEPT !.outcome = ErrorTold(case)]
    /\ UNCHANGED case

----------------------------------------------------------------------------
(* The subscription in force and its numbers.                              *)

Score(s) == CASE s.status = "active" -> 3 [] s.status = "expired" -> -1 [] OTHER -> 0

\* The first of those with the best score.
Chosen(list) ==
    CHOOSE i \in DOMAIN list :
        /\ \A j \in DOMAIN list : Score(list[i]) >= Score(list[j])
        /\ \A j \in 1..(i - 1) : Score(list[i]) > Score(list[j])

TellsQuota(s) == s.used # Absent \/ s.total # Absent \/ s.remaining # Absent

\* The chosen one, if it tells anything; else the first object that does.
Scope(c) ==
    LET objects == <<c.root>> \o c.list
        telling == {i \in DOMAIN objects : TellsQuota(objects[i])}
    IN  IF c.list # <<>> /\ TellsQuota(c.list[Chosen(c.list)]) THEN c.list[Chosen(c.list)]
        ELSE IF telling = {} THEN NoQuota ELSE objects[Min(telling)]

Least(a, b) == IF a < b THEN a ELSE b
Most(a, b) == IF a > b THEN a ELSE b

\* A missing use follows from the two others.
UsedCredits(s) ==
    IF s.used # Absent THEN s.used
    ELSE IF s.total # Absent /\ s.remaining # Absent THEN s.total - s.remaining
    ELSE Absent

ReadPayload ==
    /\ case.kind = "payload" /\ answer = Nothing
    /\ LET s == Scope(case)
           used == UsedCredits(s)
           clamped == Most(0, Least(s.total, used))
       IN  answer' =
             IF s.total = Absent \/ s.total <= 0 \/ used = Absent
             THEN [Nothing EXCEPT !.outcome = "error"]
             ELSE [Nothing EXCEPT !.outcome = "ok", !.shown = s,
                       !.lines = <<[label |-> "Credits", percent |-> (100 * clamped) \div s.total,
                                    detail |-> TRUE]>>]
    /\ UNCHANGED case

----------------------------------------------------------------------------
(* Qwen's two windows.                                                     *)

\* A share is a fraction of one, bounded to it.
Points(share) == Most(0, Least(100, share))

\* The totals need the plan's name, from the optional subscription, and the configuration.
WindowLines(c) ==
    LET line(label, share) == IF share = Absent THEN <<>>
            ELSE <<[label |-> label, percent |-> Points(share), detail |-> c.plan /\ c.totals]>>
    IN  line("5-hour", c.five) \o line("Weekly", c.weekly)

\* Without either window the payload is read as one of the older kind, and tells nothing.
ReadWindows ==
    /\ case.kind = "windows" /\ answer = Nothing
    /\ answer' = [Nothing EXCEPT !.lines = WindowLines(case),
                                 !.outcome = IF WindowLines(case) = <<>> THEN "error" ELSE "ok"]
    /\ UNCHANGED case

----------------------------------------------------------------------------
(* Qwen's Team plan.                                                       *)

Team(c) == c.selected = "true"

\* start is compared with a safe positive integer and with end.
PeriodReadable(c) == c.end > c.start

TeamLogin(c) ==
    IF ~c.session \/ c.login = "auth" \/ (c.login = "json" /\ ~c.token) THEN "log in"
    ELSE IF c.login = "outage" THEN "error" ELSE "ok"

TeamRead(c) ==
    IF TeamLogin(c) # "ok" THEN TeamLogin(c)
    ELSE IF c.data # "told" THEN "empty"
    ELSE IF ~PeriodReadable(c) THEN "error"
    ELSE IF c.start > 0 \/ c.end <= 0 THEN "empty"
    ELSE IF c.groups # 1 \/ c.equities # 1 \/ {c.total, c.remaining} \ Nat # {}
            \/ Absent \in {c.total, c.remaining} \/ c.total = 0 \/ c.remaining > c.total
         THEN "error"
    ELSE "ok"

ReadTeam ==
    /\ case.kind = "team" /\ answer = Nothing
    /\ answer' = IF case.selected = "other" THEN [Nothing EXCEPT !.outcome = "error"]
                 ELSE IF ~Team(case) THEN [Nothing EXCEPT !.outcome = "individual"]
                 ELSE [Nothing EXCEPT !.outcome = TeamRead(case)]
    /\ UNCHANGED case

Next == FindCookie \/ Request \/ CheckError \/ ReadPayload \/ ReadWindows \/ ReadTeam

Spec == Init /\ [][Next]_vars

----------------------------------------------------------------------------
Done(kind) == case.kind = kind /\ answer # Nothing

\* docs/provider-sources.md asks named accounts "to use saved settings rather than
\* default-account environment credentials": for Qwen they do.
NamedKeepsOut == Done("cookie") /\ case.console = "qwen" /\ case.named => answer.from # "env"

\* A Qwen session that only shows login pages and has no token of its own is told
\* as a login; a token that was found on one would post with the wrong session.
LoginPageIsNoToken ==
    Done("request") /\ case.console = "qwen" /\ case.page = "login page" => answer.from # "page"

\* An outage of the usage is not told as a login, which would send the user to
\* sign in again for nothing.
OutageIsNotLogin ==
    Done("request") /\ answer.from # "none" /\ case.main \in {"outage", "garbage", "fails"}
    => answer.outcome = "error"

\* The two optional answers never lose the usage to an outage of theirs.
UsageOutlivesOptional ==
    Done("request") /\ case.main = "json" /\ answer.from # "none"
    /\ {case.subscription, case.config} \subseteq {"json", "outage", "garbage"}
    => answer.outcome = "ok"

\* A payload that failed is never read: neither by its flag nor by its code, alone
\* or against the other.
FailureIsNotRead ==
    Done("error") /\ (case.code \in {401, 403, 500} \/ (case.success = "false" /\ case.console # "alibaba"))
    => answer.outcome # "ok"

\* What is shown is one subscription's, and that of an expired one only when the first that
\* is in force tells no numbers: later ones are not looked at then.
SubscriptionInForce ==
    Done("payload") /\ answer.outcome = "ok" /\ answer.shown.status = "expired" =>
        \A i \in DOMAIN case.list :
            case.list[i].status = "active" /\ TellsQuota(case.list[i])
            => \E j \in 1..(i - 1) : case.list[j].status = "active"

\* The share that is shown and what is told to remain add up, where all is told.
RemainderAgrees ==
    Done("payload") /\ answer.outcome = "ok" /\ answer.shown.used = Absent =>
        LET s == answer.shown IN
        s.remaining \in 0..s.total
        => answer.lines[1].percent = (100 * (s.total - s.remaining)) \div s.total

\* Each window that is told is shown, whether or not the other and the totals are.
WindowsKept ==
    Done("windows") =>
        /\ (answer.outcome = "ok") <=> (case.five # Absent \/ case.weekly # Absent)
        /\ case.weekly # Absent => \E i \in DOMAIN answer.lines : answer.lines[i].label = "Weekly"

\* "An empty alternative-source response never authorizes a fallback to a different
\* account or billing scope."
TeamNeverFallsBack == Done("team") /\ case.selected \in {"true", "other"} => answer.outcome # "individual"

\* A team is told to be without a subscription only when it is: one that cannot be
\* read, because its period ends before it begins, is a failure.
EmptyTeamIsEmpty ==
    Done("team") /\ answer.outcome = "empty" /\ case.data = "told" => case.start < case.end
=============================================================================
