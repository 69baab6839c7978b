--------------------------- MODULE BillingReports ---------------------------
(***************************************************************************)
(* The billing reports of the API platforms (src/plugins/{openai-api,      *)
(* openrouter,fireworks-ai,claudeplatform}): reports in pages, rows that   *)
(* two answers repeat, several organizations or accounts of which one is   *)
(* the bill, and parts that may fail without losing the rest.              *)
(***************************************************************************)
EXTENDS Integers, Sequences, FiniteSets, FiniteSetsExt

CONSTANTS
    MaxPages,  \* of one report
    Latest,    \* the last completed day; the report's first is 1
    Costs,     \* of a row
    MaxRows    \* of a report

VARIABLES case, answer

vars == <<case, answer>>

Lists(S, longest) == UNION {[1..n -> S] : n \in 0..longest}

Told == {"ok", "auth", "outage"}

OpenAICases == [kind : {"openai"}, key : {"configured", "admin", "plain"}, project : BOOLEAN,
                costs : Told, completions : Told, balance : Told]

Cursors == {"", "p", "q"}
PageCases == [kind : {"pages"}, pages : [1..(MaxPages + 1) -> [more : BOOLEAN, next : Cursors]]]

\* Day 0 is a bucket without a start.
Buckets == Lists([day : 0..2, value : 1..2], 2)
DailyCases == [kind : {"daily"}, costs : Buckets, completions : Buckets]

\* Day -1 is no date, Latest + 1 is today.
ActivityRow == [day : {-1, 0, 1, Latest, Latest + 1}, id : {"a", "b"}, cost : Costs, tokens : BOOLEAN]
ActivityCases == [kind : {"activity"}, all : Lists(ActivityRow, MaxRows), last : Lists(ActivityRow, 1)]

Absent == -9
RouterCases == [kind : {"router"}, credits : Told, key : Told, management : BOOLEAN, activity : Told,
                limit : {0, 4}, remaining : {Absent, -2, 0, 3, 5}, usage : {Absent, 2, 7}]

Account == [id : BOOLEAN, state : {"ready", "suspended"}]
FireworksCases == [kind : {"fireworks"}, keys : SUBSET {"keychain", "legacy", "env"},
                   accounts : Lists(Account, MaxRows), export : {"ok", "unsupported", "failed"},
                   tokens : BOOLEAN, spend : BOOLEAN]

Organization == [api : BOOLEAN, credits : {"ok", "denied", "session", "outage"}]
ConsoleCases == [kind : {"console"}, cookie : BOOLEAN, list : {"ok", "session", "outage"},
                 organizations : Lists(Organization, MaxRows),
                 spend : {"ok", "denied", "session", "outage"}]

Never == 99
Grant == [subscription : BOOLEAN, purchased : BOOLEAN, granted : {0, 4}, remaining : {-1, 0, 3},
          expires : {0, 1, 2, Never}]
\* Promotions are listed before purchases.
GrantCases ==
    {[kind |-> "grants", grants |-> g] :
        g \in {l \in Lists(Grant, MaxRows) :
               \A i, j \in DOMAIN l : i < j /\ l[i].purchased => l[j].purchased}}

Nothing == [outcome |-> "none", lines |-> {}, asked |-> 0, days |-> <<>>, total |-> 0, used |-> 0,
            chosen |-> 0, lanes |-> <<>>, others |-> {}, left |-> 0]

TypeOK ==
    /\ answer.outcome \in {"none", "usage", "balance", "auth", "outage", "denied", "ok", "failed",
                           "no login", "no account"}
    /\ answer.asked \in 0..MaxPages
    /\ answer.used \in Nat /\ answer.left \in Nat
    /\ answer.chosen \in 0..MaxRows

Init ==
    /\ case \in OpenAICases \cup PageCases \cup DailyCases \cup ActivityCases \cup RouterCases
                \cup FireworksCases \cup ConsoleCases \cup GrantCases
    /\ answer = Nothing

Is(kind) == case.kind = kind /\ answer = Nothing

----------------------------------------------------------------------------
(* OpenAI.                                                                 *)

\* The configured key is taken for one of an administrator.
AdminKey(c) == c.key \in {"configured", "admin"}

Report(c) == IF c.costs # "ok" THEN c.costs ELSE c.completions

\* An administrator's project has no balance of its own.
BalanceAllowed(c) == ~(c.project /\ AdminKey(c))

\* The failure of the report is told unless it was a refusal of the key.
Failure(c) == IF Report(c) # "auth" THEN Report(c) ELSE c.balance

OpenAI ==
    /\ Is("openai")
    /\ answer' = [Nothing EXCEPT !.outcome =
                     IF Report(case) = "ok" THEN "usage"
                     ELSE IF ~BalanceAllowed(case) THEN Report(case)
                     ELSE IF case.balance = "ok" THEN "balance"
                     ELSE Failure(case)]
    /\ UNCHANGED case

\* The report ends, lacks its cursor, or repeats one.
Stop(pages, i) ==
    \/ ~pages[i].more \/ pages[i].next = ""
    \/ \E j \in 1..(i - 1) : pages[j].next = pages[i].next

Complete(pages, last) == ~pages[last].more

FetchPagedBuckets ==
    /\ Is("pages")
    /\ LET stops == {i \in 1..MaxPages : Stop(case.pages, i)}
           last == IF stops = {} THEN MaxPages ELSE Min(stops)
       IN  answer' = [Nothing EXCEPT !.asked = last,
                         !.outcome = IF Complete(case.pages, last) THEN "ok" ELSE "failed"]
    /\ UNCHANGED case

\* What the buckets of some days tell.
Sum(list, daysOf) ==
    MapThenSumSet(LAMBDA i : list[i].value, {i \in DOMAIN list : list[i].day \in daysOf})

DaysIn(list) == {list[i].day : i \in DOMAIN list} \ {0}

\* A day of either report.
DaysTold(c) == DaysIn(c.costs) \cup DaysIn(c.completions)

MakeAdminDaily ==
    /\ Is("daily")
    /\ answer' = [Nothing EXCEPT !.outcome = "ok",
           !.days = [d \in DaysTold(case) |->
                       [cost |-> Sum(case.costs, {d}),
                        tokens |-> Sum(case.completions, {d})]]]
    /\ UNCHANGED case

----------------------------------------------------------------------------
(* OpenRouter.                                                             *)

Rows(c) == c.all \o c.last

InReport(row) == row.day \in 1..Latest

SameIdentity(a, b) == a.day = b.day /\ a.id = b.id

\* (mutant: the two answers add up)
CountedTwice(rows, i) == InReport(rows[i])

\* The two answers tell the last day twice.
Counted(rows, i) == InReport(rows[i]) /\ \A j \in 1..(i - 1) : ~SameIdentity(rows[j], rows[i])

Conflict(rows) ==
    \E i, j \in DOMAIN rows : InReport(rows[i]) /\ SameIdentity(rows[i], rows[j]) /\ rows[i] # rows[j]

Invalid(row) == row.day = -1 \/ (InReport(row) /\ (row.cost < 0 \/ ~row.tokens))

Activity ==
    /\ Is("activity")
    /\ LET rows == Rows(case)
           counted == {i \in DOMAIN rows : Counted(rows, i)}
       IN  answer' = IF Conflict(rows) \/ \E i \in DOMAIN rows : Invalid(rows[i])
                     THEN [Nothing EXCEPT !.outcome = "failed"]
                     ELSE [Nothing EXCEPT !.outcome = "ok",
                              !.total = MapThenSumSet(LAMBDA i : rows[i].cost, counted)]
    /\ UNCHANGED case

\* What remains is bounded by the limit; without it the use of the period is told.
UsedOfKey(c) ==
    IF c.remaining # Absent THEN c.limit - Max({0, Min({c.limit, c.remaining})}) ELSE c.usage

\* Only the credits are required.
KeyLines(c) == {"Credits"} \cup IF c.key = "ok" /\ c.limit > 0 /\ UsedOfKey(c) >= 0 THEN {"Key Cap"} ELSE {}

Router ==
    /\ Is("router")
    /\ answer' = IF case.credits # "ok" THEN [Nothing EXCEPT !.outcome = case.credits]
                 ELSE [Nothing EXCEPT !.outcome = "usage",
                          !.used = IF "Key Cap" \in KeyLines(case) THEN UsedOfKey(case) ELSE 0,
                          !.lines = KeyLines(case) \cup IF case.management /\ case.activity = "ok"
                                                         THEN {"Cost"} ELSE {}]
    /\ UNCHANGED case

----------------------------------------------------------------------------
(* Fireworks.                                                              *)

Usable(accounts) == {i \in DOMAIN accounts : accounts[i].id}

\* The first in good standing, else the first.
PickAccount(accounts) ==
    LET healthy == {i \in Usable(accounts) : accounts[i].state = "ready"}
    IN  IF healthy # {} THEN Min(healthy) ELSE IF Usable(accounts) # {} THEN Min(Usable(accounts)) ELSE 0

TokenLines(c) ==
    IF c.export = "ok" THEN {"Serverless usage", "Prompt tokens", "Generated tokens"}
    ELSE IF c.tokens THEN {"Serverless usage"} ELSE {"Unavailable"}

Fireworks ==
    /\ Is("fireworks")
    /\ LET picked == PickAccount(case.accounts) IN
       answer' = IF case.keys = {} THEN [Nothing EXCEPT !.outcome = "no login"]
                 ELSE IF picked = 0 THEN [Nothing EXCEPT !.outcome = "no account"]
                 ELSE [Nothing EXCEPT !.outcome = "usage", !.chosen = picked,
                          !.lines = TokenLines(case) \cup (IF case.spend THEN {"Month spend"} ELSE {})
                              \cup IF case.accounts[picked].state # "ready" THEN {"Status"} ELSE {}]
    /\ UNCHANGED case

----------------------------------------------------------------------------
(* Claude Platform.                                                        *)

Candidates(c) == {i \in DOMAIN c.organizations : c.organizations[i].api}

\* Only a denial moves on to the next organization.
MovesOn(credits) == credits = "denied"

\* "Spend is optional: a broken report must not discard an authenticated balance."
SpendRow(c) == IF c.spend = "ok" THEN {"Balance", "This month"} ELSE {"Balance", "Spend unavailable"}

Told403(status) == IF status = "session" THEN "auth" ELSE status

Console ==
    /\ Is("console")
    /\ LET readable == {i \in Candidates(case) : ~MovesOn(case.organizations[i].credits)}
           selected == IF readable = {} THEN 0 ELSE Min(readable)
       IN  answer' =
             IF ~case.cookie THEN [Nothing EXCEPT !.outcome = "no login"]
             ELSE IF case.list # "ok" THEN [Nothing EXCEPT !.outcome = Told403(case.list)]
             ELSE IF selected = 0 THEN [Nothing EXCEPT !.outcome = "denied"]
             ELSE IF case.organizations[selected].credits # "ok"
             THEN [Nothing EXCEPT !.outcome = Told403(case.organizations[selected].credits)]
             ELSE [Nothing EXCEPT !.outcome = "balance", !.chosen = selected, !.lines = SpendRow(case)]
    /\ UNCHANGED case

\* A malformed expiry is an unknown one.
Live(grant) == grant.granted > 0 /\ grant.expires > 0

\* The one to be lost first.
Soonest(grants, of) ==
    IF of = {} THEN 0
    ELSE Min({i \in of : \A j \in of : grants[i].expires <= grants[j].expires})

\* A purchase with credit left, else any.
Purchased(grants, live) ==
    LET all == {i \in live : grants[i].purchased}
        left == {i \in all : grants[i].remaining > 0}
    IN  Soonest(grants, IF left # {} THEN left ELSE all)

Left(grant) == Max({0, grant.remaining})

Grants ==
    /\ Is("grants")
    /\ LET live == {i \in DOMAIN case.grants : Live(case.grants[i])}
           subscription == Soonest(case.grants,
               {i \in live : case.grants[i].subscription /\ case.grants[i].remaining > 0})
           purchased == Purchased(case.grants, live)
       IN  answer' = [Nothing EXCEPT !.outcome = "ok", !.lanes = <<subscription, purchased>>,
               !.others = live \ {subscription, purchased},
               !.left = MapThenSumSet(LAMBDA i : Left(case.grants[i]), live)]
    /\ UNCHANGED case

Next ==
    OpenAI \/ FetchPagedBuckets \/ MakeAdminDaily \/ Activity \/ Router \/ Fireworks \/ Console \/ Grants

Spec == Init /\ [][Next]_vars

----------------------------------------------------------------------------
Done(kind) == case.kind = kind /\ answer # Nothing

\* A project of an administrator's key is never told by the balance of its whole
\* organization.
ProjectNotMixed ==
    Done("openai") /\ case.project /\ case.key = "admin" => answer.outcome # "balance"

\* That a key may not read the report is no reason to report it refused when it
\* was the report that was out; of two failures the outage is told.
OutageTold ==
    Done("openai") /\ case.costs = "outage" /\ case.balance # "ok" => answer.outcome = "outage"

\* A report is only read when its last page was: cut off, without its cursor or in
\* a circle it fails, and no cursor is asked for twice.
ReportComplete ==
    Done("pages") =>
        /\ answer.outcome = "ok" => ~case.pages[answer.asked].more
        /\ \A i, j \in 1..(answer.asked - 1) : i # j => case.pages[i].next # case.pages[j].next

\* Costs and tokens that were told are each in the day they belong to, whichever of
\* the two reports knows of the day.
NothingLost ==
    Done("daily") =>
        /\ MapThenSumSet(LAMBDA d : answer.days[d].cost, DOMAIN answer.days)
             = Sum(case.costs, DaysIn(case.costs))
        /\ MapThenSumSet(LAMBDA d : answer.days[d].tokens, DOMAIN answer.days)
             = Sum(case.completions, DaysIn(case.completions))

\* A row that both answers tell is counted once, and the day that is not over not
\* at all: the total is that of the distinct rows of the completed days.
ActivityOnce ==
    Done("activity") /\ answer.outcome = "ok" =>
        answer.total = MapThenSumSet(LAMBDA r : r.cost,
            {r \in Range(Rows(case)) : r.day \in 1..Latest})

\* Two rows of one identity that differ cannot both be true: none is shown.
ConflictShowsNothing ==
    Done("activity") /\ answer.outcome = "ok" =>
        \A i, j \in DOMAIN Rows(case) :
            (Rows(case)[i].day \in 1..Latest /\ SameIdentity(Rows(case)[i], Rows(case)[j]))
            => Rows(case)[i] = Rows(case)[j]

\* The key's details and the activity may fail; the credits stay.
CreditsStay == Done("router") /\ case.credits = "ok" => answer.outcome = "usage" /\ "Credits" \in answer.lines

\* What remains may be told as more than the limit or as less than nothing: what is
\* shown as used is within the limit.
CapHolds == Done("router") /\ "Key Cap" \in answer.lines /\ case.remaining # Absent => answer.used \in 0..case.limit

\* An account in good standing is never passed over for a suspended one.
StandingPreferred ==
    Done("fireworks") /\ answer.chosen # 0 /\ "Status" \in answer.lines =>
        \A i \in DOMAIN case.accounts : case.accounts[i].id => case.accounts[i].state # "ready"

\* Without an export or a quota the tokens are unavailable, and are not told as none.
TokensNotInvented ==
    Done("fireworks") /\ answer.outcome = "usage" /\ case.export # "ok" /\ ~case.tokens
    => "Unavailable" \in answer.lines

\* "The first one whose billing this member can read wins": an outage of it is not
\* answered with the balance of another organization.
OutageNotPassed ==
    Done("console") /\ answer.outcome = "balance" =>
        \A i \in 1..(answer.chosen - 1) : case.organizations[i].api => case.organizations[i].credits = "denied"

\* The balance outlives every failure of the spend.
BalanceStays == Done("console") /\ answer.outcome = "balance" => "Balance" \in answer.lines

\* Each grant that is not over is shown in one place, and one that is over in none.
GrantsShownOnce ==
    Done("grants") =>
        LET now == {i \in DOMAIN case.grants : case.grants[i].granted > 0 /\ case.grants[i].expires > 0}
        IN  {answer.lanes[1], answer.lanes[2]} \cup answer.others \cup {0} = now \cup {0}

\* The lane of the subscription is the grant that is about to be lost.
LostFirstShown ==
    Done("grants") /\ answer.lanes[1] # 0 =>
        \A i \in answer.others :
            case.grants[i].subscription /\ case.grants[i].remaining > 0
            => case.grants[answer.lanes[1]].expires <= case.grants[i].expires
=============================================================================
