-------------------------- MODULE BundledProviders --------------------------
(***************************************************************************)
(* The adapter of the vendored providers                                   *)
(* (ai-usage-plugins/src/bundled_provider.js: whose credential is used,    *)
(* what an answer counts for, which lines are told) and the two of them    *)
(* that join what a token and a browser session tell of one account        *)
(* (src/plugins/{muse,huggingface}).                                       *)
(***************************************************************************)
EXTENDS Integers, Sequences, FiniteSets, FiniteSetsExt

VARIABLES case, answer

vars == <<case, answer>>

UpToTwo(S) == UNION {[1..n -> S] : n \in 0..2}

FiveHours == 18000  \* in seconds

Given == {"none", "blank", "given"}

SecretCases == [kind : {"secret"}, scoped : BOOLEAN, setting : Given, first : BOOLEAN, generic : BOOLEAN,
                apiKey : Given, env : Given, file : Given]

RequestCases == [kind : {"request"}, session : BOOLEAN, cookies : {"off", "missing", "given"}, rejected : BOOLEAN,
                 status : {200, 401, 403, 500}, mitigated : BOOLEAN, html : BOOLEAN, challenge : BOOLEAN]

Window == [known : BOOLEAN, percent : BOOLEAN, described : BOOLEAN]
LineCases == [kind : {"lines"}, windows : UpToTwo(Window), cost : BOOLEAN, limit : BOOLEAN, balance : BOOLEAN,
              balanceOnly : BOOLEAN, rows : SUBSET {"Balance", "Requests"}, empty : BOOLEAN]

LoginCases == [kind : {"muse login"}, token : {"none", "other", "device"}, status : {200, 401, 403, 429, 500, 404},
               payment : BOOLEAN, active : BOOLEAN, quotas : BOOLEAN]
WebCases == [kind : {"muse web"}, cookies : BOOLEAN, plan : BOOLEAN, email : BOOLEAN,
             me : {"mine", "foreign", "blank", "nobody", "expired", "forbidden", "failed"},
             teams : {"expired", "failed", "none", "listed"},
             members : {"mine", "foreign", "not listed", "expired", "forbidden"},
             selected : {"none", "visible", "hidden"},
             quota : {"expired", "failed", "none", "other plan", "stale", "fine"}]
QuotaCases == [kind : {"muse quota"}, used : {-1, 0, 30}, limit : {0, 20, 60}, weekReset : {"none", "past", "next"},
               seconds : {30, FiveHours}, windowUsed : {0, 5}, windowReset : {"none", "invalid", "past", "next"}]

Asked == {"ok", "bad", "failed"}
HuggingFaceCases == [kind : {"huggingface"}, status : {200, 401, 403, 429, 500}, gross : {0, 3, 9}, included : {0, 5},
                     gpu : Asked, who : {"mine", "no id", "bad", "failed"}, cookies : BOOLEAN]
WalletCases == [kind : {"wallet"}, page : {"html", "other", "expired", "failed"},
                current : UpToTwo({-1, 7}), organization : BOOLEAN, legacy : UpToTwo({-1, 500}),
                owner : {"mine", "other", "no id", "expired", "failed"}]

Nothing == [outcome |-> "none", source |-> "", asked |-> <<>>, rejects |-> FALSE, meters |-> 0, texts |-> <<>>,
            used |-> 0, balance |-> 0, account |-> ""]

TypeOK ==
    /\ answer.outcome \in {"none", "usage", "auth", "denied", "rate limited", "failed", "no data", "note"}
    /\ answer.used \in 0..100 /\ answer.meters \in Nat /\ answer.balance \in Nat

Init ==
    /\ case \in SecretCases \cup RequestCases \cup LineCases \cup LoginCases \cup WebCases \cup QuotaCases
                \cup HuggingFaceCases \cup WalletCases
    /\ answer = Nothing

Is(kind) == case.kind = kind /\ answer = Nothing

Answer(fields) == answer' = fields /\ UNCHANGED case

----------------------------------------------------------------------------
(* The adapter.                                                            *)

\* (mutant: a second account finds the login of the first)
SecretShared(c) ==
    IF c.setting # "none" THEN IF c.setting = "given" THEN "setting" ELSE ""
    ELSE IF c.first /\ c.generic /\ c.apiKey # "none" THEN IF c.apiKey = "given" THEN "key" ELSE ""
    ELSE IF c.env = "given" THEN "env"
    ELSE IF c.file = "given" THEN "file" ELSE ""

\* What is configured decides, also when it is blank; the environment and another
\* program's login belong to the account that is no instance of its own.
Secret(c) ==
    IF c.setting # "none" THEN IF c.setting = "given" THEN "setting" ELSE ""
    ELSE IF c.first /\ c.generic /\ c.apiKey # "none" THEN IF c.apiKey = "given" THEN "key" ELSE ""
    ELSE IF c.scoped THEN ""
    ELSE IF c.env = "given" THEN "env"
    ELSE IF c.file = "given" THEN "file" ELSE ""

GetSecret ==
    /\ Is("secret")
    /\ Answer([Nothing EXCEPT !.source = Secret(case), !.outcome = IF Secret(case) = "" THEN "auth" ELSE "usage"])

\* A page of browser protection, whatever its status.
Challenge(c) == c.mitigated \/ (c.html /\ c.challenge)

\* The caller's reading of the status, as both providers here do it.
Request ==
    /\ Is("request")
    /\ LET unavailable == case.session /\ (case.cookies # "given" \/ case.rejected)
       IN  Answer([Nothing EXCEPT
             !.asked = IF unavailable THEN <<>> ELSE <<"site">>,
             !.outcome = IF unavailable THEN "auth"
                         ELSE IF Challenge(case) THEN "failed"
                         ELSE IF case.status \in {401, 403} THEN "auth"
                         ELSE IF case.status = 200 THEN "usage" ELSE "failed",
             !.rejects = case.session /\ ~unavailable /\ ~Challenge(case) /\ case.status \in {401, 403}])

Metered(w) == w.known /\ w.percent

Told(w) == ~Metered(w) /\ (~w.known \/ w.described)

BalanceTold(c) == c.cost /\ c.balance /\ "Balance" \notin c.rows

\* The three windows, the cost and the details. A cap of billing is told beside the cost
\* and has no meter.
Result ==
    /\ Is("lines")
    /\ LET number(Test(_)) == Cardinality({i \in DOMAIN case.windows : Test(case.windows[i])})
           told(label, isTold) == IF isTold THEN <<label>> ELSE <<>>
           texts == [i \in 1..number(Told) |-> "Window"]
                    \o told("Spend", case.cost /\ ~case.balanceOnly) \o told("Balance", BalanceTold(case))
                    \o told("Balance", "Balance" \in case.rows) \o told("Requests", "Requests" \in case.rows)
           meters == number(Metered)
       IN  Answer([Nothing EXCEPT
             !.meters = meters, !.texts = texts,
             !.outcome = IF case.empty \/ (meters = 0 /\ texts = <<>>) THEN "no data" ELSE "usage"])

----------------------------------------------------------------------------
(* Muse Code.                                                              *)

Subscription(c) == IF c.payment \/ ~c.active THEN "denied" ELSE "active"

\* Only what the login leaves out is asked of the browser's session.
MuseLogin ==
    /\ Is("muse login")
    /\ Answer(
         IF case.token # "device" THEN [Nothing EXCEPT !.outcome = "auth"]
         ELSE [Nothing EXCEPT
                 !.outcome = CASE case.status \in {401, 403} -> "auth"
                               [] case.status = 429 -> "rate limited"
                               [] case.status \in {404, 500} -> "failed"
                               [] case.status = 200 ->
                                    IF Subscription(case) = "denied" THEN "denied" ELSE "usage",
                 !.asked = <<"login">> \o
                           (IF case.status = 200 /\ Subscription(case) = "active" /\ ~case.quotas
                            THEN <<"web">> ELSE <<>>)])

Stops == [Nothing EXCEPT !.outcome = "no data"]

RejectsMembers(members) == members = "expired"

\* A session whose address is blank is the login's if a team lists its user with the
\* login's address.
Membership(c) == c.teams = "listed" /\ c.members = "mine"

PlanFits(c) == c.plan /\ c.quota # "other plan"

Note == [Nothing EXCEPT !.outcome = "note"]

\* What the team that the user chose may use.
TeamQuota(c) ==
    IF c.selected = "none" \/ c.teams = "none" \/ c.selected = "hidden" THEN Note
    ELSE IF c.quota = "expired" THEN [Stops EXCEPT !.rejects = TRUE]
    ELSE IF c.quota \in {"failed", "none"} \/ ~PlanFits(c) THEN Note
    ELSE IF c.quota = "stale" THEN Note
    ELSE [Nothing EXCEPT !.outcome = "usage", !.account = c.me]

\* teamQuota of the session at hand, which has an address or only a user.
OfSession(c) ==
    IF c.teams = "expired" THEN [Stops EXCEPT !.rejects = TRUE]
    ELSE IF c.teams = "failed" THEN Stops
    ELSE IF c.me = "blank" /\ ~Membership(c)
         THEN [Stops EXCEPT !.rejects = c.teams = "listed" /\ RejectsMembers(c.members)]
    ELSE TeamQuota(c)

SessionFits(c) == c.me \in {"mine", "blank"}

\* The host has one session to offer: the one that was configured.
WebQuota ==
    /\ Is("muse web")
    /\ Answer(
         IF ~case.cookies \/ ~case.email THEN Stops
         ELSE IF case.me \in {"expired", "forbidden"} THEN [Stops EXCEPT !.rejects = TRUE, !.asked = <<"me">>]
         ELSE IF SessionFits(case) THEN [OfSession(case) EXCEPT !.asked = <<"me", "teams">>]
         ELSE [Stops EXCEPT !.asked = <<"me">>])

Percent(used, limit) == IF used < 0 \/ limit <= 0 THEN -1 ELSE Min({100, (used * 100) \div limit})

\* A window without a reset is idle; one whose reset has passed is unused.
WindowUse(c) == IF c.windowReset = "next" THEN c.windowUsed * 10 ELSE 0

WeekShown(c) == Percent(c.used, c.limit) >= 0 /\ c.weekReset = "next"

ParseWebQuota ==
    /\ Is("muse quota")
    /\ LET fine == /\ WeekShown(case) /\ case.seconds >= 60
                   /\ case.windowReset # "invalid"
                   /\ case.windowReset = "none" => case.windowUsed = 0
       IN  Answer(IF ~fine THEN Stops
                  ELSE [Nothing EXCEPT !.outcome = "usage", !.meters = 2, !.used = WindowUse(case),
                                       !.balance = Percent(case.used, case.limit)])

----------------------------------------------------------------------------
(* Hugging Face.                                                           *)

Billable(c) == Max({0, c.gross - c.included})

\* The accelerator's quota and the account only accompany the use: both may fail. The
\* wallet is asked for only when the token's account is known.
HuggingFace ==
    /\ Is("huggingface")
    /\ Answer(
         IF case.status = 200
         THEN [Nothing EXCEPT
                 !.outcome = "usage", !.used = Billable(case),
                 !.meters = IF case.gpu = "ok" THEN 1 ELSE 0,
                 !.asked = IF case.who = "mine" /\ case.cookies THEN <<"wallet">> ELSE <<>>]
         ELSE [Nothing EXCEPT !.outcome =
                 IF case.status = 401 THEN "auth"
                 ELSE IF case.status = 403 THEN "denied"
                 ELSE IF case.status = 429 THEN "rate limited" ELSE "failed"])

\* One balance of today's page, else one of the older: in cents.
Wallet(c) ==
    IF c.current # <<>>
    THEN IF c.organization \/ Len(c.current) # 1 \/ c.current[1] < 0 THEN -1 ELSE c.current[1]
    ELSE IF Len(c.legacy) # 1 \/ c.legacy[1] < 0 THEN -1 ELSE c.legacy[1] \div 100

OwnerFits(c) == c.owner = "mine"

ReadWallet ==
    /\ Is("wallet")
    /\ LET read == case.page = "html" /\ Wallet(case) >= 0
           owned == read /\ OwnerFits(case)
       IN  Answer([Nothing EXCEPT
             !.outcome = "usage",
             !.texts = IF owned THEN <<"Balance">> ELSE <<>>,
             !.balance = IF owned THEN Wallet(case) ELSE 0,
             !.rejects = case.page = "expired" \/ (read /\ case.owner = "expired")])

----------------------------------------------------------------------------

Next == GetSecret \/ Request \/ Result \/ MuseLogin \/ WebQuota \/ ParseWebQuota \/ HuggingFace \/ ReadWallet

Spec == Init /\ [][Next]_vars

----------------------------------------------------------------------------
Done(kind) == case.kind = kind /\ answer # Nothing

\* A further account is never measured with what the environment or a program's own
\* login says of the first.
InstanceOwnSecret == Done("secret") /\ case.scoped => answer.source \notin {"env", "file"}

\* What the user emptied is not filled from elsewhere: the account is logged out, and
\* not another's.
BlankIsNoOther == Done("secret") /\ case.setting = "blank" => answer.outcome = "auth"

\* A page of browser protection says nothing of the login, whose cookie stays in use.
ChallengeIsNotExpiry ==
    Done("request") /\ (case.mitigated \/ (case.html /\ case.challenge)) /\ answer.asked # <<>> =>
        answer.outcome = "failed" /\ ~answer.rejects

\* A use that is not known has no meter, and is told all the same.
UnknownIsNotMetered ==
    Done("lines") =>
        LET unknown == Cardinality({i \in DOMAIN case.windows : ~case.windows[i].known})
        IN  /\ answer.meters <= Len(case.windows) - unknown
            /\ Cardinality({i \in DOMAIN answer.texts : answer.texts[i] = "Window"}) >= unknown

\* One balance is told once.
BalanceToldOnce ==
    Done("lines") => Cardinality({i \in DOMAIN answer.texts : answer.texts[i] = "Balance"}) <= 1

\* A browser session is used for a subscription that is active and whose login leaves
\* its quotas out, never to get around a login that was refused.
WebOnlyBesideLogin ==
    Done("muse login") /\ "web" \in Range(answer.asked) =>
        answer.outcome = "usage" /\ case.active /\ ~case.payment /\ ~case.quotas

\* A quota is shown of the account that is logged in, the team that the user chose and
\* the plan of the login, or not at all.
QuotaOfLogin ==
    Done("muse web") /\ answer.outcome = "usage" =>
        /\ case.me = "mine" \/ (case.me = "blank" /\ case.members = "mine")
        /\ case.selected = "visible" /\ case.teams = "listed"
        /\ case.plan /\ case.quota = "fine"

\* A role that may not list the members keeps its session.
DenialKeepsSession ==
    Done("muse web") /\ answer.rejects =>
        \/ case.me \in {"expired", "forbidden"} \/ case.teams = "expired" \/ case.quota = "expired"
        \/ case.members = "expired"

\* No reading of a week or of a window that is over is shown as today's.
OverIsUnused ==
    Done("muse quota") /\ answer.outcome = "usage" =>
        /\ case.weekReset = "next"
        /\ case.windowReset # "next" => answer.used = 0

\* What is included is not billed, and a surplus of it is no credit.
BilledBeyondIncluded ==
    Done("huggingface") /\ answer.outcome = "usage" =>
        /\ answer.used >= 0 /\ answer.used + case.included >= case.gross
        /\ answer.used > 0 => answer.used + case.included = case.gross

\* A balance is shown of the token's own account, and only when the page has one.
WalletOfOwner ==
    Done("wallet") /\ answer.texts # <<>> =>
        /\ case.owner = "mine"
        /\ IF case.current # <<>> THEN Len(case.current) = 1 /\ ~case.organization ELSE Len(case.legacy) = 1
=============================================================================
