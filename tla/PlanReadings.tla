---------------------------- MODULE PlanReadings ----------------------------
(***************************************************************************)
(* Quotas that are told in several shapes (src/plugins/{minimax,kimi,      *)
(* perplexity,ollama}): which login goes to which host, which of the told  *)
(* windows is shown, and what is unknown when a part of it is missing.     *)
(***************************************************************************)
EXTENDS Integers, Sequences, FiniteSets, FiniteSetsExt

CONSTANTS
    Totals,    \* MiniMax: the calls of a window
    Remains,   \* MiniMax: what is left of a window, in seconds or in milliseconds
    MaxItems,  \* of a list
    MaxPage    \* Ollama: the marks on a settings page

VARIABLES case, answer

vars == <<case, answer>>

Absent == -9

Lists(S, longest) == UNION {[1..n -> S] : n \in 0..longest}

Told == {"usage", "next", "auth", "failed"}
RegionCases == [kind : {"region"}, region : {"", "CN", "GLOBAL", "other"}, configured : BOOLEAN,
                env : SUBSET {"CN", "plain"}, answers : [1..3 -> Told]]

Item == [total : Totals, percent : {Absent, 20, 150}, general : BOOLEAN,
         used : {Absent, 50}, remaining : {Absent, 5, 60}]
ItemCases == [kind : {"items"}, cn : BOOLEAN, items : Lists(Item, MaxItems)]

RemainsCases == [kind : {"remains"}, raw : Remains]

KimiCases == [kind : {"kimi"}, mode : {"auto", "api", "oauth", "cli", "web", "local"}, named : BOOLEAN,
              key : {"", "configured", "env"}, override : {"", "configured", "env"},
              home : BOOLEAN, homes : [1..2 -> {"none", "stale", "fresh"}],
              web : {"", "configured", "env"}]

\* Tenths of a limit; a period of 0 is unknown, 5 and 168 are hours.
Quota == [used : {1, 4}, period : {0, 5, 168}, reset : {1, 2}]
Ratios == {Absent, 2, 10}
LimitCases == [kind : {"limits"}, limits : Lists(Quota, MaxItems), usage : {Absent, 4},
               fiveHours : {Absent, 2}, sevenDays : {Absent, 2}, month : Ratios, reset : {1, 2},
               member : Ratios, code : {Absent, 2}]

CacheCases == [kind : {"cache"}, mac : BOOLEAN, explicit : BOOLEAN,
               paths : [0..2 -> {"none", "unreadable", "session"}],
               organizations : Lists([id : BOOLEAN, default : BOOLEAN], MaxItems), group : BOOLEAN]
Meters == Lists({"invalid", "empty", "cost"}, MaxItems)
CreditCases == [kind : {"credits"}, balance : {Absent, -1, 0, 5}, analytics : BOOLEAN, meters : Meters,
                rates : SUBSET {"Queries", "Labs"}, plan : BOOLEAN]

OllamaCases == [kind : {"ollama"}, mode : {"auto", "api", "web"}, named : BOOLEAN,
                key : {"", "configured", "env"}, cookie : {"", "configured", "env"},
                balance : {"ok", "invalid", "missing", "auth", "failed"},
                validation : {"ok", "auth", "failed"}, tags : {"ok", "auth", "failed"},
                web : {"ok", "auth", "failed"}]
Window == [percent : {Absent, -1, 30}, left : {Absent, 30, 130}, usage : {Absent, 1, 40}]
BalanceCases == [kind : {"balance"}, allowance : {Absent, -1, 0, 4}, balance : {Absent, -2, 0, 3, 6},
                 weekly : Window, purchased : {Absent, 2}]
Labels == {"Monthly", "Session", "Hourly", "Weekly"}
Marks == Labels \cup {"percent", "dollars", "width"}
PageCases == [kind : {"page"}, page : Lists(Marks, MaxPage)]

Nothing == [outcome |-> "none", asked |-> {}, chosen |-> 0, used |-> 0, limit |-> 0, lines |-> <<>>,
            credential |-> "", host |-> "", places |-> <<>>]

TypeOK ==
    /\ answer.outcome \in {"none", "usage", "auth", "failed", "no login", "unsupported", "no data"}
    /\ answer.used \in Nat /\ answer.limit \in Nat
    /\ \A i \in DOMAIN answer.lines : answer.lines[i].used \in Nat

Init ==
    /\ case \in RegionCases \cup ItemCases \cup RemainsCases \cup KimiCases \cup LimitCases
                \cup CacheCases \cup CreditCases \cup OllamaCases \cup BalanceCases \cup PageCases
    /\ answer = Nothing

Is(kind) == case.kind = kind /\ answer = Nothing

\* The first of some places (0: there is none).
FirstOf(places) == IF places = {} THEN 0 ELSE Min(places)

----------------------------------------------------------------------------
(* MiniMax.                                                                *)

\* "Keep credentials within the selected region, including failed requests."
EndpointAttempts(c) ==
    IF c.region # "" THEN <<c.region>> ELSE IF "CN" \in c.env THEN <<"CN">> ELSE <<"GLOBAL">>

LoadApiKey(c, region) ==
    IF c.configured THEN "configured"
    ELSE IF region = "CN" /\ "CN" \in c.env THEN "CN"
    ELSE IF "plain" \in c.env THEN "plain"
    ELSE ""

\* Only an address that does not know the request or tells no usage is passed over.
TryUrls(answers) ==
    LET ends == {i \in DOMAIN answers : answers[i] # "next"}
    IN  IF ends = {} THEN "failed" ELSE answers[Min(ends)]

MiniMax ==
    /\ Is("region")
    /\ LET regions == EndpointAttempts(case)
           asked == {<<r, LoadApiKey(case, r)>> : r \in Range(regions)}
       IN  answer' =
             IF case.region = "other" THEN [Nothing EXCEPT !.outcome = "failed"]
             ELSE IF \A pair \in asked : pair[2] = "" THEN [Nothing EXCEPT !.outcome = "no login"]
             ELSE [Nothing EXCEPT !.asked = asked, !.outcome = TryUrls(case.answers)]
    /\ UNCHANGED case

\* Fifteen calls are one prompt, which is what is shown.
Prompts(calls, cn) == IF cn THEN (2 * calls + 15) \div 30 ELSE calls

Displayable(item, cn) == item.total > 0 /\ Prompts(item.total, cn) > 0

\* The first that counts, else the general one of those with a percentage, else the
\* first of them.
ChooseItem(items, cn) ==
    LET counts == {i \in DOMAIN items : Displayable(items[i], cn)}
        percents == {i \in DOMAIN items : items[i].percent \in 0..100}
        general == {i \in percents : items[i].general}
        first == IF counts # {} THEN counts ELSE IF general # {} THEN general ELSE percents
    IN  FirstOf(first)

\* The count of use is what remains, unless use is told as such.
UsedOfItem(item) ==
    LET used == IF item.used # Absent THEN item.used ELSE item.total - item.remaining
    IN  Min({item.total, Max({0, used})})

ParsePayloadShape ==
    /\ Is("items")
    /\ LET i == ChooseItem(case.items, case.cn)
           item == case.items[i]
       IN  answer' =
             IF i = 0 THEN [Nothing EXCEPT !.outcome = "no data"]
             ELSE IF ~Displayable(item, case.cn)
             THEN [Nothing EXCEPT !.outcome = "usage", !.chosen = i,
                      !.used = 100 - item.percent, !.limit = 100]
             ELSE IF item.used = Absent /\ item.remaining = Absent
             THEN [Nothing EXCEPT !.outcome = "no data"]
             ELSE [Nothing EXCEPT !.outcome = "usage", !.chosen = i,
                      !.used = Prompts(UsedOfItem(item), case.cn), !.limit = Prompts(item.total, case.cn)]
    /\ UNCHANGED case

\* Five hours and ten minutes.
MaxExpectedMs == 18600000

\* Seconds unless only milliseconds fit the window; of two that do not fit
\* milliseconds are always the closer.
InferRemainsMs(raw) == IF raw <= MaxExpectedMs \div 1000 THEN raw * 1000 ELSE raw

RemainsTold ==
    /\ Is("remains")
    /\ answer' = [Nothing EXCEPT !.outcome = "usage", !.used = InferRemainsMs(case.raw)]
    /\ UNCHANGED case

----------------------------------------------------------------------------
(* Kimi.                                                                   *)

\* "require additional named accounts to use saved settings rather than
\* default-account environment credentials" (docs/provider-sources.md)
Env(c, told) == IF c.named /\ told = "env" THEN "" ELSE told

\* "CLI credentials are never forwarded."
CliAllowed(c) == ~c.named /\ Env(c, c.override) = ""

\* Good for another minute.
Fresh(session) == session = "fresh"

CliSession(c) ==
    LET fresh == {i \in 1..(IF c.home THEN 1 ELSE 2) : Fresh(c.homes[i])}
    IN  IF CliAllowed(c) THEN FirstOf(fresh) ELSE 0

UsesKey(c) == Env(c, c.key) # "" /\ c.mode \in {"auto", "api"}

Kimi ==
    /\ Is("kimi")
    /\ LET session == IF case.mode # "web" /\ ~UsesKey(case) THEN CliSession(case) ELSE 0
           token == Env(case, case.web)
           base == Env(case, case.override)
       IN  answer' =
             IF case.mode = "local" THEN [Nothing EXCEPT !.outcome = "failed"]
             ELSE IF case.mode = "api" /\ ~UsesKey(case) THEN [Nothing EXCEPT !.outcome = "no login"]
             ELSE IF UsesKey(case)
             THEN [Nothing EXCEPT !.outcome = "usage", !.credential = Env(case, case.key), !.host = base]
             ELSE IF session # 0
             THEN [Nothing EXCEPT !.outcome = "usage", !.credential = "cli", !.chosen = session, !.host = base]
             ELSE IF token # "" /\ case.mode \in {"web", "auto"}
             THEN [Nothing EXCEPT !.outcome = "usage", !.credential = token]
             ELSE [Nothing EXCEPT !.outcome = "no login"]
    /\ UNCHANGED case

Row(label, used, period, reset) == [label |-> label, used |-> used, period |-> period, reset |-> reset]

\* The shortest known period, the first of equals; an unknown one is last.
PickSession(limits) ==
    LET Rank(i) == IF limits[i].period = 0 THEN 999 ELSE limits[i].period
    IN  FirstOf({i \in DOMAIN limits : \A j \in DOMAIN limits : Rank(i) <= Rank(j)})

PickLargest(limits, of) ==
    FirstOf({i \in of : \A j \in of : limits[j].period <= limits[i].period})

\* (mutant: one quota is told twice)
NeverSame(a, b) == FALSE

SameQuota(a, b) == a.used = b.used /\ a.reset = b.reset

\* What the counters tell: the week's total resets at 2.
Counters(c) ==
    LET session == PickSession(c.limits)
        largest == PickLargest(c.limits, DOMAIN c.limits \ {session})
        sessionRow == IF session = 0 THEN <<>>
                      ELSE <<Row("Session", 10 * c.limits[session].used, c.limits[session].period,
                                 c.limits[session].reset)>>
        weekRow == IF c.usage # Absent THEN <<Row("Weekly", 10 * c.usage, 168, 2)>>
                   ELSE IF largest # 0
                   THEN <<Row("Weekly", 10 * c.limits[largest].used, c.limits[largest].period,
                              c.limits[largest].reset)>>
                   ELSE <<>>
    IN  IF sessionRow # <<>> /\ weekRow # <<>> /\ SameQuota(weekRow[1], sessionRow[1])
        THEN sessionRow ELSE sessionRow \o weekRow

Position(lines, label) == FirstOf({i \in DOMAIN lines : lines[i].label = label})

Replaced(lines, row) ==
    LET i == Position(lines, row.label)
    IN  IF i = 0 THEN Append(lines, row) ELSE [lines EXCEPT ![i] = row]

First(lines, row) ==
    LET i == Position(lines, row.label)
        rest == IF i = 0 THEN lines ELSE SubSeq(lines, 1, i - 1) \o SubSeq(lines, i + 1, Len(lines))
    IN  <<row>> \o rest

\* Of one window the counter that is ahead stays.
PoolBehind(old, row) == old.period = row.period /\ old.reset = row.reset /\ old.used > row.used

\* "Reset Code windows cannot make an exhausted membership pool available again."
WithMonth(lines, row) == IF row.used >= 100 THEN First(lines, row) ELSE Replaced(lines, row)

WithPool(lines, label, ratio, period, reset) ==
    LET i == Position(lines, label)
        row == Row(label, 10 * ratio, period, reset)
    IN  IF ratio = Absent \/ (i # 0 /\ PoolBehind(lines[i], row)) THEN lines
        ELSE IF label = "Monthly" THEN WithMonth(lines, row) ELSE Replaced(lines, row)

Pools(c) ==
    LET session == WithPool(Counters(c), "Session", c.fiveHours, 5, c.reset)
        weekly == WithPool(session, "Weekly", c.sevenDays, 168, c.reset)
    IN  WithPool(weekly, "Monthly", c.month, 720, c.reset)

\* A month that is not exhausted is only shown where none is.
MemberMonth(lines, row) ==
    IF row.used >= 100 \/ Position(lines, "Monthly") = 0 THEN WithMonth(lines, row) ELSE lines

\* The weekly limit within one percent and five minutes is the same.
EnrichMembership(lines, c) ==
    LET month == IF c.member = Absent THEN lines
                 ELSE MemberMonth(lines, Row("Monthly", 10 * c.member, 720, c.reset))
        same == \E i \in DOMAIN month : /\ month[i].label = "Weekly"
                                        /\ month[i].used = 10 * c.code /\ month[i].reset = c.reset
    IN  IF c.code = Absent \/ same THEN month
        ELSE Append(month, Row("Code 7-day", 10 * c.code, 168, c.reset))

Limits ==
    /\ Is("limits")
    /\ LET lines == EnrichMembership(Pools(case), case)
       IN  answer' = [Nothing EXCEPT !.lines = lines, !.outcome = IF lines = <<>> THEN "no data" ELSE "usage"]
    /\ UNCHANGED case

----------------------------------------------------------------------------
(* Perplexity.                                                             *)

\* The path that is set replaces the two that are known.
CachePaths(c) == IF c.explicit THEN <<0>> ELSE <<1, 2>>

\* The default one, else the first with an id.
PickGroup(organizations) ==
    LET known == {i \in DOMAIN organizations : organizations[i].id}
        default == {i \in known : organizations[i].default}
    IN  FirstOf(IF default # {} THEN default ELSE known)

Cache ==
    /\ Is("cache")
    /\ LET found == SelectSeq(CachePaths(case), LAMBDA p : case.paths[p] = "session")
           group == PickGroup(case.organizations)
       IN  answer' =
             IF ~case.mac THEN [Nothing EXCEPT !.outcome = "unsupported"]
             ELSE IF found = <<>> THEN [Nothing EXCEPT !.outcome = "no login"]
             ELSE IF group = 0 \/ ~case.group THEN [Nothing EXCEPT !.outcome = "failed", !.places = found]
             ELSE [Nothing EXCEPT !.outcome = "usage", !.places = found, !.chosen = group]
    /\ UNCHANGED case

\* A meter was read, or there are none.
UsageKnown(c) ==
    c.analytics /\ (c.meters = <<>> \/ \E i \in DOMAIN c.meters : c.meters[i] # "invalid")

Credits ==
    /\ Is("credits")
    /\ LET dollars == IF case.balance > 0 /\ UsageKnown(case)
                      THEN <<Row("API credits", Cardinality({i \in DOMAIN case.meters : case.meters[i] = "cost"}),
                                 0, 0)>>
                      ELSE <<>>
           rate(label) == IF label \in case.rates THEN <<Row(label, 0, 0, 0)>> ELSE <<>>
           rates == rate("Queries") \o rate("Labs")
       IN  answer' = [Nothing EXCEPT !.lines = dollars \o rates,
                         !.outcome = IF dollars \o rates = <<>> THEN "no data" ELSE "usage"]
    /\ UNCHANGED case

----------------------------------------------------------------------------
(* Ollama.                                                                 *)

\* Only where there is no balance.
Validates(balance) == balance = "missing"

ProbeApi(c) ==
    IF c.balance = "ok" THEN "usage"
    ELSE IF ~Validates(c.balance) THEN IF c.balance = "auth" THEN "auth" ELSE "failed"
    ELSE IF c.validation # "ok" THEN c.validation
    ELSE IF c.tags # "ok" THEN c.tags ELSE "no data"

ProbeWeb(c) == IF Env(c, c.cookie) = "" THEN "no login" ELSE IF c.web = "ok" THEN "usage" ELSE c.web

\* The page first; the key where there is no cookie or the page fails.
FallsBack(c) == Env(c, c.cookie) = "" \/ c.web # "ok"

Ollama ==
    /\ Is("ollama")
    /\ LET key == Env(case, case.key)
           api == case.mode = "api" \/ (case.mode = "auto" /\ key # "" /\ FallsBack(case))
       IN  answer' =
             IF ~api THEN [Nothing EXCEPT !.outcome = ProbeWeb(case), !.credential = Env(case, case.cookie),
                              !.host = "page"]
             ELSE IF key = "" THEN [Nothing EXCEPT !.outcome = "no login"]
             ELSE [Nothing EXCEPT !.outcome = ProbeApi(case), !.credential = key, !.host = "api"]
    /\ UNCHANGED case

\* One of the two amounts is not enough, and an allowance is not below zero.
CreditsInvalid(c) ==
    /\ c.allowance # Absent \/ c.balance # Absent
    /\ c.allowance = Absent \/ c.balance = Absent \/ c.allowance < 0

CreditRow(c) ==
    IF c.allowance = Absent THEN <<>>
    ELSE IF c.allowance = 0 THEN <<Row("Monthly allowance", 0, 0, 0)>>
    ELSE <<Row("Monthly credits", Max({0, c.allowance - c.balance}), 0, 0)>>

\* A use of at most one is a fraction.
Percent(w) == IF w.percent # Absent THEN w.percent
              ELSE IF w.left # Absent THEN 100 - w.left
              ELSE IF w.usage <= 1 THEN 100 * w.usage ELSE w.usage

Unknown(w) == w.percent = Absent /\ w.left = Absent /\ w.usage = Absent

BalanceInvalid(c) == CreditsInvalid(c) \/ (~Unknown(c.weekly) /\ Percent(c.weekly) < 0)

BalanceResult ==
    /\ Is("balance")
    /\ LET weekly == IF Unknown(case.weekly) THEN <<>> ELSE <<Row("Weekly", Percent(case.weekly), 168, 0)>>
           purchased == IF case.purchased = Absent THEN <<>> ELSE <<Row("Purchased", case.purchased, 0, 0)>>
       IN  answer' = IF BalanceInvalid(case) \/ CreditRow(case) \o weekly \o purchased = <<>>
                     THEN [Nothing EXCEPT !.outcome = "failed"]
                     ELSE [Nothing EXCEPT !.outcome = "usage", !.lines = CreditRow(case) \o weekly \o purchased]
    /\ UNCHANGED case

\* Up to the next label that is another.
Block(page, i) ==
    {j \in i + 1 .. Len(page) : \A k \in i + 1 .. j : page[k] \notin Labels \ {page[i]}}

\* The percentage, else the dollars, else the width of the bar.
BlockValue(page, label) ==
    LET i == FirstOf({j \in DOMAIN page : page[j] = label})
        Of(mark) == {j \in Block(page, i) : page[j] = mark}
    IN  IF i = 0 THEN 0
        ELSE IF Of("percent") # {} THEN Min(Of("percent"))
        ELSE IF Of("dollars") # {} THEN Min(Of("dollars"))
        ELSE FirstOf(Of("width"))

\* Where each of the three was read; an hourly use stands in for a session's.
PageUsage(page) ==
    LET session == BlockValue(page, "Session")
    IN  <<BlockValue(page, "Monthly"), IF session # 0 THEN session ELSE BlockValue(page, "Hourly"),
          BlockValue(page, "Weekly")>>

Page ==
    /\ Is("page")
    /\ LET places == PageUsage(case.page)
       IN  answer' = [Nothing EXCEPT !.places = places,
                         !.outcome = IF places = <<0, 0, 0>> THEN "failed" ELSE "usage"]
    /\ UNCHANGED case

Next ==
    MiniMax \/ ParsePayloadShape \/ RemainsTold \/ Kimi \/ Limits \/ Cache \/ Credits \/ Ollama
    \/ BalanceResult \/ Page

Spec == Init /\ [][Next]_vars

----------------------------------------------------------------------------
Done(kind) == case.kind = kind /\ answer # Nothing

\* A key that was selected for China is never sent to the other region, nor is any
\* key sent to two.
RegionKept ==
    Done("region") =>
        /\ Cardinality({pair[1] : pair \in answer.asked}) <= 1
        /\ <<"GLOBAL", "CN">> \notin answer.asked

\* A refusal is told as one, and no other address is asked with the refused key.
RefusalTold ==
    Done("region") /\ answer.asked # {} /\ case.answers[1] = "auth" => answer.outcome = "auth"

\* What is shown as used is within a limit that is more than nothing, after the
\* rounding to prompts too.
SessionWithin ==
    Done("items") /\ answer.outcome = "usage" => answer.limit > 0 /\ answer.used \in 0..answer.limit

\* A model's own percentage never stands in for a count, or for the general one.
GeneralPreferred ==
    Done("items") /\ answer.outcome = "usage" /\ answer.limit = 100 =>
        /\ case.items[answer.chosen].percent \in 0..100
        /\ (\E i \in DOMAIN case.items : case.items[i].general /\ case.items[i].percent \in 0..100)
           => case.items[answer.chosen].general

\* Time that is left fits the window whenever one of the two units makes it fit.
RemainsFits == Done("remains") /\ case.raw <= MaxExpectedMs => answer.used <= MaxExpectedMs

\* The command line's login is never sent to a host that was set, and one that is
\* about to expire to none.
CliKept ==
    answer.credential = "cli" =>
        answer.host = "" /\ case.override = "" /\ case.homes[answer.chosen] = "fresh"

\* A named account is only asked with what was saved for it.
NamedUsesSaved ==
    (Done("kimi") \/ Done("ollama")) /\ case.named => answer.credential \in {"", "configured"}

\* While the month is exhausted no other window is shown first.
ExhaustedFirst ==
    Done("limits") /\ (case.month = 10 \/ case.member = 10) =>
        answer.lines[1].label = "Monthly" /\ answer.lines[1].used = 100

\* No window is shown twice, and a window that the pools and the counters both tell
\* not with the lower of the two.
WindowsDistinct ==
    Done("limits") =>
        /\ \A i, j \in DOMAIN answer.lines : i # j => answer.lines[i].label # answer.lines[j].label
        /\ \A i, j \in DOMAIN answer.lines :
               answer.lines[i].label = "Session" /\ answer.lines[j].label = "Weekly"
               /\ case.fiveHours = Absent /\ case.sevenDays = Absent
               => ~(answer.lines[i].used = answer.lines[j].used
                    /\ answer.lines[i].reset = answer.lines[j].reset)

UseNotLowered ==
    Done("limits") /\ case.usage # Absent /\ case.limits = <<>> /\ case.reset = 2 =>
        answer.lines[Position(answer.lines, "Weekly")].used >= 10 * case.usage

\* The membership's answer adds to what is shown: no window is lost to it, and only
\* an exhausted month changes one.
EnrichmentAdds ==
    Done("limits") =>
        \A i \in DOMAIN Pools(case) :
            \/ Pools(case)[i] \in Range(answer.lines)
            \/ Pools(case)[i].label = "Monthly" /\ case.member = 10

\* A person's default organization is asked, when they have one.
DefaultAsked ==
    Done("cache") /\ answer.chosen # 0
    /\ (\E i \in DOMAIN case.organizations : case.organizations[i].id /\ case.organizations[i].default)
    => case.organizations[answer.chosen].default

\* Credits are not shown unused because their use could not be read.
UseNotInvented ==
    Done("credits") /\ (\E i \in DOMAIN answer.lines : answer.lines[i].label = "API credits") =>
        case.analytics /\ (case.meters = <<>> \/ \E i \in DOMAIN case.meters : case.meters[i] # "invalid")

\* A balance that was refused or broken is not passed over for the note that the
\* key is valid.
BalanceNotPassed ==
    Done("ollama") /\ answer.host = "api" /\ answer.outcome = "no data" => case.balance = "missing"

\* A failing page is no failure while there is a key that works.
KeyStandsIn ==
    Done("ollama") /\ case.mode = "auto" /\ case.key = "configured" /\ case.balance = "ok"
    => answer.outcome = "usage"

\* Credits of which one amount is missing fail the reading; they are not shown as
\* none beside the windows that could be read.
BalanceWhole ==
    Done("balance") /\ answer.outcome = "usage" => ((case.allowance = Absent) <=> (case.balance = Absent))

\* No window shows the number of another.
OwnBlock ==
    Done("page") =>
        \A i \in {1, 3} : answer.places[i] # 0 =>
            LET label == IF i = 1 THEN "Monthly" ELSE "Weekly"
                before == {j \in 1..answer.places[i] : case.page[j] \in Labels}
            IN  before # {} /\ case.page[Max(before)] = label
=============================================================================
