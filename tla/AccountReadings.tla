--------------------------- MODULE AccountReadings --------------------------
(***************************************************************************)
(* What the accounts of OAuthProviders tell once they are logged in        *)
(* (src/plugins/{kiro,gemini,factory,grok}): stored and live snapshots     *)
(* that are merged, several logins of which one is used, and use that is   *)
(* told in parts.                                                          *)
(***************************************************************************)
EXTENDS Integers, Sequences, FiniteSets, FiniteSetsExt

CONSTANTS
    Amounts,     \* Kiro: of a pool
    Fractions,   \* Gemini: what remains of a model, in tenths
    MaxItems     \* of a list

VARIABLES case, answer

vars == <<case, answer>>

Absent == -9

Lists(S, longest) == UNION {[1..n -> S] : n \in 0..longest}

Overages == {"unknown", "on", "off"}
Snapshot == [told : BOOLEAN, usage : BOOLEAN, plan : BOOLEAN, overage : Overages]
\* What the editor keeps is told only with usage, and without a plan.
SnapshotCases == [kind : {"snapshots"}, local : BOOLEAN, login : BOOLEAN,
                  kept : {"none", "undated", "old", "recent"}, logged : Snapshot, live : Snapshot,
                  rejected : BOOLEAN]

Pool == [status : {"ACTIVE", "EXPIRED", "EXHAUSTED"}, limit : {0, 4}]
Breakdown == [credit : BOOLEAN, total : Amounts, limit : {0, 4}, overage : {Absent, -1, 2, 9}]
BreakdownCases == [kind : {"breakdowns"}, list : Lists(Breakdown, MaxItems), enabled : Overages,
                   cap : {0, 3}, rate : {0, 2}, charges : {Absent, 5}, dollars : BOOLEAN]
PoolCases == [kind : {"pools"}, trial : Pool, bonuses : Lists(Pool, MaxItems)]

Bucket == [model : {"Pro", "Flash", "other"}, left : Fractions]
BucketCases == [kind : {"buckets"}, buckets : Lists(Bucket, MaxItems + 1)]

Project == [id : BOOLEAN, generated : BOOLEAN, label : BOOLEAN]
ProjectCases == [kind : {"project"}, assist : BOOLEAN, list : {"ok", "failed"},
                 projects : Lists(Project, MaxItems), paid : {"", "g1-pro-tier"},
                 current : {"", "free-tier", "standard-tier"}, domain : BOOLEAN]

Places == <<"v2", "encrypted", "json", "keychain">>
File == {"none", "broken", "refresh only", "full"}
FactoryCases == [kind : {"factory"}, mode : {"auto", "api", "web", "oauth"}, key : BOOLEAN, cookie : BOOLEAN,
                 api : {"ok", "auth", "failed"}, web : {"ok", "auth", "failed"},
                 files : [{"v2", "encrypted", "json", "keychain"} -> File], oauth : {"ok", "auth", "failed"}]
TokenCases == [kind : {"tokens"}, standard : {Absent, 0, 20}, premium : {Absent, 0, 40},
               used : {Absent, 5}, dated : BOOLEAN]

\* Now is 5.
GrokCases == [kind : {"grok"}, type : {"weekly", "monthly", "other"}, start : {Absent, 0, 6},
              end : {Absent, 0, 5, 9}, percent : {Absent, -1, 50, 130}, malformed : BOOLEAN,
              cap : {Absent, -1, 0, 7}]

Nothing == [outcome |-> "none", source |-> "", asked |-> <<>>, plan |-> "", used |-> 0, limit |-> 0,
            overage |-> 0, lines |-> {}, chosen |-> 0, fetched |-> ""]

TypeOK ==
    /\ answer.outcome \in {"none", "usage", "auth", "failed", "no login", "no data"}
    /\ answer.used \in Nat /\ answer.limit \in Nat /\ answer.overage \in Nat

Init ==
    /\ case \in SnapshotCases \cup BreakdownCases \cup PoolCases \cup BucketCases \cup ProjectCases
                \cup FactoryCases \cup TokenCases \cup GrokCases
    /\ answer = Nothing

Is(kind) == case.kind = kind /\ answer = Nothing

\* The first of some places (0: there is none).
FirstOf(places) == IF places = {} THEN 0 ELSE Min(places)

----------------------------------------------------------------------------
(* Kiro.                                                                   *)

\* Live use is asked unless what is kept is of the last fifteen minutes and a plan
\* was logged.
ShouldTryLive(c) == c.kept # "recent" \/ ~c.logged.told \/ ~c.logged.plan

\* (mutant: a live answer without use is shown)
LiveShown(c, live) == live.told

LiveHasUsage(c, live) == live.told /\ live.usage

MergedSource(c, live) ==
    IF LiveHasUsage(c, live) THEN "live"
    ELSE IF c.kept # "none" THEN "kept"
    ELSE IF c.logged.told /\ c.logged.usage THEN "logged"
    ELSE ""

\* Of the live answer, else as logged.
MergedOverage(live, logged) ==
    IF live.told /\ live.overage # "unknown" THEN live.overage
    ELSE IF logged.told THEN logged.overage
    ELSE "unknown"

MergeSnapshots ==
    /\ Is("snapshots")
    /\ LET asks == ~case.local /\ ShouldTryLive(case)
           live == IF asks /\ ~case.rejected THEN case.live ELSE [case.live EXCEPT !.told = FALSE]
           source == MergedSource(case, live)
       IN  answer' =
             IF ~case.local /\ ~case.login THEN [Nothing EXCEPT !.outcome = "no login"]
             ELSE [Nothing EXCEPT
                     !.asked = IF asks THEN <<"live">> ELSE <<>>,
                     !.source = source,
                     !.plan = IF live.told /\ live.plan THEN "live"
                              ELSE IF case.logged.told /\ case.logged.plan THEN "logged" ELSE "",
                     !.fetched = MergedOverage(live, case.logged),
                     !.outcome = IF source # "" THEN "usage"
                                 ELSE IF asks /\ case.rejected THEN "auth" ELSE "no data"]
    /\ UNCHANGED case

\* An overage is a part of the total.
ValidBreakdown(b) ==
    /\ b.total >= 0 /\ b.limit >= 0
    /\ b.overage = Absent \/ b.overage \in 0..b.total

\* The credits without what is beyond them.
CreditsUsed(b) == IF b.overage = Absent THEN b.total ELSE b.total - b.overage

PickPrimaryBreakdown(list) ==
    LET valid == {i \in DOMAIN list : ValidBreakdown(list[i])}
        credit == {i \in valid : list[i].credit}
    IN  FirstOf(IF credit # {} THEN credit ELSE valid)

OverageMetered(c) == c.enabled = "on" /\ c.cap > 0

OverageLines(c, b) ==
    (IF b.overage = Absent THEN {}
     ELSE IF OverageMetered(c) THEN {"overage meter"}
     ELSE IF b.overage > 0 THEN {"overage text"} ELSE {})
    \cup (IF c.charges < 0 THEN {}
          ELSE IF OverageMetered(c) /\ c.rate > 0 /\ c.dollars THEN {"charges meter"} ELSE {"charges text"})

BuildOutput ==
    /\ Is("breakdowns")
    /\ LET i == PickPrimaryBreakdown(case.list)
           b == case.list[i]
       IN  answer' = IF i = 0 THEN [Nothing EXCEPT !.outcome = "no data"]
                     ELSE [Nothing EXCEPT !.outcome = "usage", !.chosen = i, !.used = CreditsUsed(b),
                              !.limit = b.limit, !.overage = Max({0, b.overage}),
                              !.lines = OverageLines(case, b)]
    /\ UNCHANGED case

TrialActive(pool) == pool.limit > 0 /\ pool.status = "ACTIVE"

BonusKept(pool) == pool.limit > 0 /\ pool.status \in {"ACTIVE", "EXHAUSTED"}

\* The trial (0), else the first bonus that was not given up (Absent: none).
PickBonusUsage ==
    /\ Is("pools")
    /\ LET bonus == FirstOf({i \in DOMAIN case.bonuses : BonusKept(case.bonuses[i])})
       IN  answer' = [Nothing EXCEPT !.outcome = "usage",
                        !.chosen = IF TrialActive(case.trial) THEN 0 ELSE IF bonus # 0 THEN bonus ELSE Absent]
    /\ UNCHANGED case

----------------------------------------------------------------------------
(* Gemini.                                                                 *)

UsedOf(left) == 10 * (10 - Max({0, Min({10, left})}))

\* The one with the least left.
PickLowestRemaining(buckets, of) ==
    FirstOf({i \in of : \A j \in of : buckets[i].left <= buckets[j].left})

Family(buckets, model) == {i \in DOMAIN buckets : buckets[i].model = model}

ParseQuotaLines ==
    /\ Is("buckets")
    /\ LET pro == PickLowestRemaining(case.buckets, Family(case.buckets, "Pro"))
           flash == PickLowestRemaining(case.buckets, Family(case.buckets, "Flash"))
       IN  answer' = [Nothing EXCEPT !.outcome = "usage",
               !.lines = (IF pro = 0 THEN {} ELSE {<<"Pro", UsedOf(case.buckets[pro].left)>>})
                         \cup IF flash = 0 THEN {} ELSE {<<"Flash", UsedOf(case.buckets[flash].left)>>}]
    /\ UNCHANGED case

\* Only a project that was made for, or is labelled as, the service.
ProjectFits(project) == project.id /\ (project.generated \/ project.label)

\* 0 is the one that the assistant told, Absent none.
DiscoverProjectId(c) ==
    IF c.assist THEN 0
    ELSE IF c.list # "ok" THEN Absent
    ELSE LET i == FirstOf({j \in DOMAIN c.projects : ProjectFits(c.projects[j])}) IN IF i = 0 THEN Absent ELSE i

ExtractTier(c) == IF c.paid # "" THEN c.paid ELSE c.current

MapTierToPlan(tier, domain) ==
    CASE tier = "g1-pro-tier" -> "AI Pro"
      [] tier = "standard-tier" -> "Paid"
      [] tier = "free-tier" -> IF domain THEN "Workspace" ELSE "Free"
      [] OTHER -> ""

GeminiProject ==
    /\ Is("project")
    /\ answer' = [Nothing EXCEPT !.outcome = "usage", !.chosen = DiscoverProjectId(case),
                     !.plan = MapTierToPlan(ExtractTier(case), case.domain)]
    /\ UNCHANGED case

----------------------------------------------------------------------------
(* Factory.                                                                *)

\* In the keychain a login without its access token is none.
ValidAt(c, place) == c.files[place] = "full" \/ (c.files[place] = "refresh only" /\ place # "keychain")

\* The first place with a login.
LoadAuth(c) == FirstOf({i \in DOMAIN Places : ValidAt(c, Places[i])})

FetchOAuth(c) ==
    LET i == LoadAuth(c)
    IN  IF i = 0 THEN "no login"
        ELSE IF c.files[Places[i]] = "refresh only" THEN "failed"
        ELSE IF c.oauth = "ok" THEN "usage" ELSE c.oauth

\* A key that fails is passed over in the automatic mode, for a session there is.
PassedOver(c) == c.mode # "api" /\ (c.cookie \/ LoadAuth(c) # 0)

Result(told) == IF told = "ok" THEN "usage" ELSE told

Factory ==
    /\ Is("factory")
    /\ LET keyed == case.key /\ case.mode \in {"auto", "api"}
           web == case.cookie /\ case.mode \in {"auto", "web"}
           asks == IF keyed THEN <<"api">> ELSE <<>>
       IN  answer' =
             IF (case.mode = "api" /\ ~case.key) \/ (case.mode = "web" /\ ~case.cookie)
             THEN [Nothing EXCEPT !.outcome = "no login"]
             ELSE IF keyed /\ (case.api = "ok" \/ ~PassedOver(case))
             THEN [Nothing EXCEPT !.outcome = Result(case.api), !.source = "api", !.asked = asks]
             ELSE IF web
             THEN [Nothing EXCEPT !.outcome = Result(case.web), !.source = "web", !.asked = asks \o <<"web">>]
             ELSE [Nothing EXCEPT !.outcome = FetchOAuth(case), !.source = "oauth",
                      !.chosen = LoadAuth(case), !.asked = asks \o <<"oauth">>]
    /\ UNCHANGED case

PremiumShown(c) == c.premium > 0

Tokens ==
    /\ Is("tokens")
    /\ LET lines == (IF case.standard # Absent THEN {<<"Standard", case.standard>>} ELSE {})
                    \cup IF PremiumShown(case) THEN {<<"Premium", case.premium>>} ELSE {}
       IN  answer' = [Nothing EXCEPT !.outcome = IF lines = {} THEN "no data" ELSE "usage", !.lines = lines,
                         !.used = IF case.used = Absent THEN 0 ELSE case.used]
    /\ UNCHANGED case

----------------------------------------------------------------------------
(* Grok.                                                                   *)

Now == 5

PeriodValid(c) ==
    c.type # "other" /\ c.start # Absent /\ c.end # Absent /\ c.end > c.start

\* "Grok billing usage is unavailable for this period.": only in the period itself
\* is a use that is not told none.
UseTold(c) ==
    /\ ~c.malformed
    /\ c.percent = Absent => c.start <= Now /\ Now < c.end
    /\ c.percent # Absent => c.percent >= 0

\* A cap that is not told is none.
CapValid(c) == c.cap = Absent \/ c.cap >= 0

Grok ==
    /\ Is("grok")
    /\ answer' = IF PeriodValid(case) /\ UseTold(case) /\ CapValid(case)
                 THEN [Nothing EXCEPT !.outcome = "usage", !.limit = 100,
                          !.used = Max({0, Min({100, case.percent})}),
                          !.lines = IF case.cap > 0 THEN {"cap"} ELSE {"disabled"}]
                 ELSE [Nothing EXCEPT !.outcome = "failed"]
    /\ UNCHANGED case

Next ==
    MergeSnapshots \/ BuildOutput \/ PickBonusUsage \/ ParseQuotaLines \/ GeminiProject \/ Factory \/ Tokens
    \/ Grok

Spec == Init /\ [][Next]_vars

----------------------------------------------------------------------------
Done(kind) == case.kind = kind /\ answer # Nothing

\* What was kept is only shown unasked when it is known to be recent, and a plan is
\* known; a local reading asks for nothing.
StaleIsAsked ==
    Done("snapshots") /\ answer.source \in {"kept", "logged"} =>
        IF case.local THEN answer.asked = <<>>
        ELSE answer.asked = <<"live">> \/ (case.kept = "recent" /\ answer.plan = "logged")

\* A live answer without use, or a session that is over, never hides what was kept.
KeptOutlivesLive ==
    Done("snapshots") /\ case.kept # "none" /\ (case.local \/ case.login) =>
        /\ answer.outcome = "usage"
        /\ answer.source = "live" => case.live.usage

\* With a live answer that tells of overages none of an older log is shown.
OverageOfLatest ==
    Done("snapshots") /\ answer.source = "live" /\ case.live.overage # "unknown"
    => answer.fetched = case.live.overage

\* Each credit is shown once: within the credits or beyond them.
CreditsShownOnce ==
    Done("breakdowns") /\ answer.outcome = "usage" =>
        answer.used + answer.overage = case.list[answer.chosen].total

\* The credits are shown before any other resource.
CreditsPreferred ==
    Done("breakdowns") /\ answer.outcome = "usage" =>
        \/ case.list[answer.chosen].credit
        \/ \A i \in DOMAIN case.list : ValidBreakdown(case.list[i]) => ~case.list[i].credit

\* Nothing is metered against a cap that does not apply, and what was used beyond
\* the credits is told all the same.
OverageHonest ==
    Done("breakdowns") /\ answer.outcome = "usage" =>
        /\ answer.lines \cap {"overage meter", "charges meter"} # {} => case.enabled = "on"
        /\ answer.overage > 0 => answer.lines \cap {"overage meter", "overage text"} # {}

\* A trial that is over does not hide the bonus that is not.
TrialOverHidesNothing ==
    Done("pools") /\ case.trial.status # "ACTIVE"
    /\ (\E i \in DOMAIN case.bonuses : case.bonuses[i].status = "ACTIVE" /\ case.bonuses[i].limit > 0)
    => answer.chosen > 0

\* No model of a family is closer to its limit than the line of the family says.
TightestShown ==
    Done("buckets") =>
        \A i \in DOMAIN case.buckets : case.buckets[i].model # "other" =>
            \E line \in answer.lines :
                line[1] = case.buckets[i].model /\ line[2] \in UsedOf(case.buckets[i].left)..100

\* No project of another purpose is asked for its quota.
ProjectOwn ==
    Done("project") /\ answer.chosen > 0 =>
        LET project == case.projects[answer.chosen] IN project.generated \/ project.label

\* Who pays is not told to be on the tier that is free.
PaidTierTold == Done("project") /\ case.paid # "" => answer.plan = "AI Pro"

\* A source that was chosen is the only one that is asked.
ChosenSourceOnly ==
    Done("factory") /\ case.mode # "auto" =>
        \A i \in DOMAIN answer.asked : answer.asked[i] = case.mode

\* Of several logins the newest form wins: the keychain's only without a file's.
FilesBeforeKeychain ==
    Done("factory") /\ answer.source = "oauth" /\ answer.chosen = 4 =>
        \A place \in {"v2", "encrypted", "json"} : case.files[place] \in {"none", "broken"}

\* A plan without premium tokens shows no meter for them.
NoEmptyPremium == Done("tokens") => <<"Premium", 0>> \notin answer.lines

\* A period that is over, or not begun, is not shown unused.
UnusedOnlyNow ==
    Done("grok") /\ answer.outcome = "usage" /\ case.percent = Absent => case.start <= Now /\ Now < case.end
=============================================================================
