------------------------------ MODULE MCReadings ------------------------------
(***************************************************************************)
(* What the providers make of what they are told, side by side, as in       *)
(* MCProviders: a behaviour is one of them, `which` says of which.  Most    *)
(* are given a case and answer it, in `stored` and `told`; the others use   *)
(* the registers as there: Cursor, Claude as it polls in the background,    *)
(* and two more views of the providers that renew logins, an owner who      *)
(* changes accounts, two logins in one file, and two of one program.        *)
(***************************************************************************)
EXTENDS Integers, FiniteSets, Sequences, TLC

CONSTANTS
  Machines,    \* the providers checked, of which `which` is one
  MaxList,     \* items of a list in a case
  MaxText,     \* bytes of a text
  Interval, MaxAge, GrantsInterval, Buffer, TokenLife, RetryAfters,  \* ClaudeProvider's
  ClaudeTime,  \* the end of time
  MaxLogins,   \* logins made in a login's place (antigravity)
  MaxTokens,   \* tokens issued, to Claude and to those logins
  OwnerTokens  \* tokens issued by an OAuth service

VARIABLES which, stored, accepted, stale, late, issued, probe, cache, told, r1, r2, r3, r4, r5

vars == <<which, stored, accepted, stale, late, issued, probe, cache, told, r1, r2, r3, r4, r5>>

CursorProfiles == {"default", "nightly"}

\* Cursor: no login, one in each place, and two at once; REST tells a personal plan, a
\* team's plan without a limit, an account that is disabled, and one with pools only.
Holds(token, renewable) == [access |-> token, refresh |-> renewable]
Nothing == Holds("none", FALSE)
CursorPlaces == {"account", "sqlite", "keychain"}
Only(place, h) == [p \in CursorPlaces |-> IF p = place THEN h ELSE Nothing]
CursorLogins ==
  {Only("sqlite", Nothing), Only("sqlite", Holds("good", TRUE)), Only("account", Holds("none", TRUE)),
   Only("keychain", Holds("aging", TRUE)),
   [p \in CursorPlaces |-> IF p = "sqlite" THEN Holds("aging", FALSE)
                           ELSE IF p = "keychain" THEN Holds("good", TRUE) ELSE Nothing]}
Usage(isEnabled, limit, total, pools, isTeam) ==
  [enabled |-> isEnabled, plan |-> TRUE, limit |-> limit, total |-> total,
   pools |-> pools, spent |-> FALSE, team |-> isTeam]
CursorRest ==
  {Usage(TRUE, "number", "none", "none", FALSE), Usage(TRUE, "none", "text", "none", TRUE),
   Usage(FALSE, "number", "number", "none", FALSE), Usage(TRUE, "none", "none", "used", TRUE)}

\* Claude in the daemon with a browser session; two ticks are the five minutes between
\* polls.
People == {"a", "b"}
Daemon == {"daemon"}
ByNet == [p \in Daemon |-> {"auto"}]
Session == [p \in Daemon |-> "k"]

(* ClaudeReading: bytes and code points on both sides of every boundary of  *)
(* UTF-8, all places for a credential, short ledgers, answers, histories.   *)
Absent == -1

bytes == {65, 128, 160, 195, 224, 237, 240, 144, 244}
upTo(S, n) == UNION {[1..k -> S] : k \in 0..n}
Texts == upTo(bytes, MaxText) \cup {t \o <<66, 67, 68>> : t \in upTo(bytes, MaxText - 1)}
Words == upTo({65, 127, 128, 2047, 2048, 55295, 57344, 65535, 65536, 1114111}, MaxText - 1)

Homes == [account : BOOLEAN, macos : BOOLEAN, override : BOOLEAN, hash : BOOLEAN,
          keychain : {"absent", "stale", "denied", "profile", "inference"},
          file : {"absent", "stale", "profile", "inference"}, env : BOOLEAN]

\* PlanReadings: within the five hours in seconds, in milliseconds, and in neither.
Remainders == {300, 18601, 300000, 2000000}

costBuckets == [day : {Absent, 1, 2}, results : upTo([amount : {Absent, 3}], 2)]
noted(m, i, c, h) == [model |-> m, input |-> i, output |-> 1, creationTotal |-> c,
                      ephemeral1h |-> h, ephemeral5m |-> 2]
messages == {noted("m", 4, Absent, Absent), noted("n", Absent, 5, 1), noted("m", 0, 0, 3)}
messageBuckets == [day : {Absent, 1, 2}, results : upTo(messages, 2)]
Ledgers == [costs : upTo(costBuckets, 1), messages : upTo(messageBuckets, 2)]
           \cup [costs : upTo(costBuckets, 2), messages : upTo(messageBuckets, 1)]

limit(k, p, m, a) == [kind |-> k, percent |-> p, model |-> m, active |-> a]
limits == {limit("session", 10, "none", FALSE), limit("session", 90, "none", TRUE),
           limit("session", Absent, "none", TRUE), limit("weekly_all", 20, "none", FALSE),
           limit("weekly_scoped", 30, "Opus", TRUE), limit("weekly_scoped", 40, "Sonnet", FALSE),
           limit("weekly_scoped", Absent, "Sonnet", FALSE)}
grants == [left : {Absent, 0, 2}, ended : BOOLEAN]
Quotas == [limits : upTo(limits, 3), fiveHour : {Absent, 5}, sevenDay : {Absent}, opus : {Absent, 7},
           showModels : BOOLEAN, grants : {<<>>}, eligible : {FALSE}]
          \cup [limits : {<<>>}, fiveHour : {5}, sevenDay : {Absent, 6}, opus : {Absent},
                showModels : {FALSE}, grants : upTo(grants, 2), eligible : BOOLEAN]

days == [day : {Absent, 1, 2, 3, 4}, tokens : {Absent, 7}, cost : {Absent}]
        \cup [day : {3}, tokens : {5}, cost : {1}]
Histories == [daily : upTo(days, 4), today : {3}, kept : {2}]

-----------------------------------------------------------------------------
Claude == INSTANCE ClaudeProvider WITH
  now <- late, file <- stored, valid <- accepted, result <- told, deadline <- r1,
  polled <- r2, asked <- r3, dropped <- r4,
  Procs <- Daemon, Modes <- ByNet, Key <- Session, Ages <- {}, MaxTime <- ClaudeTime

Cursor == INSTANCE CursorProvider WITH
  profile <- r1, stores <- stored, phase <- probe, source <- r2, access <- accepted,
  saved <- issued, usage <- cache, status <- stale, plan <- late, rest <- r3,
  result <- told, asked <- r4, activity <- r5,
  Profiles <- CursorProfiles, Logins <- CursorLogins, RestUsages <- CursorRest

Owner == INSTANCE OAuthProviders WITH
  name <- r1, file <- stored, valid <- accepted, revoked <- r2, aging <- stale,
  expired <- late, raced <- r3, lost <- r4,
  Names <- {"kiro"}, Accounts <- People, MaxTokens <- OwnerTokens

Shared == INSTANCE OAuthProviders WITH
  name <- r1, file <- stored, valid <- accepted, revoked <- r2, aging <- stale,
  expired <- late, raced <- r3, lost <- r4,
  Names <- {"grok"}, Accounts <- {"a"}, MaxTokens <- OwnerTokens

Renewals == INSTANCE AntigravityProvider WITH
  selected <- r1, login <- stored, cooling <- stale, good <- accepted,
  expired <- late, withdrawn <- r2, logins <- r3, kept <- r4, refused <- r5,
  Profiles <- {"antigravity"}

Claims == INSTANCE ClaudeReading WITH
  case <- stored, answer <- told,
  Texts <- Texts, Words <- Words, Homes <- Homes, Ledgers <- Ledgers,
  Quotas <- Quotas, Histories <- Histories

Devin == INSTANCE DevinProvider WITH
  case <- stored, answer <- told,
  Ides <- {"devin", "windsurf"}, Accounts <- {1, 2}, Percents <- {0, 1, 40, 99, 100}

Plans == INSTANCE TokenPlans WITH
  case <- stored, answer <- told,
  Counts <- {-1, 0, 4}, Fractions <- {-20, 35, 100, 140}, MaxInstances <- MaxList

OpenCode == INSTANCE OpenCodeGo WITH
  case <- stored, answer <- told,
  Months <- <<31, 29, 31, 30>>, MaxRows <- MaxList, FiveHours <- 5, Now <- 9,
  Costs <- {0, 2, 20}, Limit <- 12

Billing == INSTANCE BillingReports WITH
  case <- stored, answer <- told,
  MaxPages <- 3, Latest <- 1, Costs <- {-1, 1, 2}, MaxRows <- MaxList

Limits == INSTANCE PlanReadings WITH
  case <- stored, answer <- told,
  Totals <- {0, 7, 30}, Remains <- Remainders, MaxItems <- MaxList, MaxPage <- 5

Accounts == INSTANCE AccountReadings WITH
  case <- stored, answer <- told,
  Amounts <- {-1, 0, 6}, Fractions <- {-2, 0, 3, 10, 12}, MaxItems <- MaxList

Bundled == INSTANCE BundledProviders WITH
  case <- stored, answer <- told

ASSUME ReadingAssumption ==
  /\ Claude!ClaudeAssumption /\ Cursor!CursorAssumption /\ Owner!OAuthAssumption
  /\ Shared!OAuthAssumption /\ Renewals!AntigravityAssumption
  /\ Interval <= MaxAge  \* five minutes and a day

-----------------------------------------------------------------------------
Free(register) == register = "free"

\* What is given a case and answers it needs no other register.
others == <<accepted, stale, late, issued, probe, cache, r1, r2, r3, r4, r5>>
OneCase ==
  /\ Free(accepted) /\ Free(stale) /\ Free(late) /\ Free(issued) /\ Free(probe) /\ Free(cache)
  /\ Free(r1) /\ Free(r2) /\ Free(r3) /\ Free(r4) /\ Free(r5)

Started ==
  \/ which = "claude" /\ Claude!Init /\ Free(stale) /\ Free(r5)
  \/ which = "cursor" /\ Cursor!Init
  \/ which = "oauth owner" /\ Owner!Init /\ Free(cache) /\ Free(told) /\ Free(r5)
  \/ which = "oauth shared" /\ Shared!Init /\ Free(cache) /\ Free(told) /\ Free(r5)
  \/ which = "antigravity renewals" /\ Renewals!Init /\ Free(told)
  \/ which = "claude readings" /\ Claims!Init /\ OneCase
  \/ which = "devin" /\ Devin!Init /\ OneCase
  \/ which = "token plans" /\ Plans!Init /\ OneCase
  \/ which = "opencode" /\ OpenCode!Init /\ OneCase
  \/ which = "billing" /\ Billing!Init /\ OneCase
  \/ which = "plans" /\ Limits!Init /\ OneCase
  \/ which = "accounts" /\ Accounts!Init /\ OneCase
  \/ which = "bundled" /\ Bundled!Init /\ OneCase

Init == which \in Machines /\ Started

ClaudeNext == which = "claude" /\ Claude!Next /\ UNCHANGED <<which, stale, r5>>
CursorNext == which = "cursor" /\ Cursor!Next /\ UNCHANGED <<which>>
OwnerNext == which = "oauth owner" /\ Owner!Next /\ UNCHANGED <<which, cache, told, r5>>
SharedNext == which = "oauth shared" /\ Shared!Next /\ UNCHANGED <<which, cache, told, r5>>
RenewalsNext == which = "antigravity renewals" /\ Renewals!Next /\ UNCHANGED <<which, told>>
ClaimsNext == which = "claude readings" /\ Claims!Next /\ UNCHANGED <<which, others>>
DevinNext == which = "devin" /\ Devin!Next /\ UNCHANGED <<which, others>>
PlansNext == which = "token plans" /\ Plans!Next /\ UNCHANGED <<which, others>>
OpenCodeNext == which = "opencode" /\ OpenCode!Next /\ UNCHANGED <<which, others>>
BillingNext == which = "billing" /\ Billing!Next /\ UNCHANGED <<which, others>>
LimitsNext == which = "plans" /\ Limits!Next /\ UNCHANGED <<which, others>>
AccountsNext == which = "accounts" /\ Accounts!Next /\ UNCHANGED <<which, others>>
BundledNext == which = "bundled" /\ Bundled!Next /\ UNCHANGED <<which, others>>

Next ==
  \/ ClaudeNext \/ CursorNext \/ OwnerNext \/ SharedNext \/ RenewalsNext \/ ClaimsNext
  \/ DevinNext \/ PlansNext \/ OpenCodeNext \/ BillingNext \/ LimitsNext \/ AccountsNext \/ BundledNext

Spec == Init /\ [][Next]_vars

-----------------------------------------------------------------------------
(* What may be relied on *)

\* What is shown is of the account, project, source and time that it is shown for.  A login
\* that was named, selected or emptied is not replaced by another: not by the environment's,
\* a program's own, an organization's, or one that was searched and may be someone else's.
\* Claude's answer is of the source it names and not older than a day; a login that is
\* written back leaves the others of its file and whose they are (grok).
Shown ==
  CASE which = "cursor" -> Cursor!ProfilesApart
    [] which = "oauth owner" -> Owner!OneAccount
    [] which = "claude" -> Claude!SourceTruthful /\ Claude!ShownWithinMaxAge
    [] which = "claude readings" -> Claims!ProfilePreferred
    [] which = "devin" ->
         Devin!OneAccountAsked /\ Devin!SelectionKept /\ Devin!EmptyOverrideStops
    [] which = "token plans" ->
         /\ Plans!NamedKeepsOut /\ Plans!LoginPageIsNoToken /\ Plans!TeamNeverFallsBack
         /\ Plans!SubscriptionInForce
    [] which = "opencode" -> OpenCode!LogoutHolds /\ OpenCode!SourceKept
    [] which = "billing" -> Billing!ProjectNotMixed /\ Billing!StandingPreferred
    [] which = "plans" ->
         /\ Limits!RegionKept /\ Limits!CliKept /\ Limits!NamedUsesSaved
         /\ Limits!DefaultAsked /\ Limits!OwnBlock
    [] which = "accounts" ->
         /\ Accounts!StaleIsAsked /\ Accounts!ProjectOwn
         /\ Accounts!ChosenSourceOnly /\ Accounts!FilesBeforeKeychain
    [] which = "bundled" ->
         /\ Bundled!InstanceOwnSecret /\ Bundled!BlankIsNoOther
         /\ Bundled!WebOnlyBesideLogin /\ Bundled!QuotaOfLogin /\ Bundled!WalletOfOwner
    [] OTHER -> TRUE
StepWrites == which = "oauth shared" => Shared!OthersKept
ShownIsItsOwn == []Shown /\ [][StepWrites]_vars

\* Claude is not asked while a 429 holds, nor twice in an interval after an answer, through
\* every probe and write of the cache; Cursor's usage and refresh at most twice in a probe;
\* and a token that was renewed and kept is not renewed again while it is good (antigravity).
Spared ==
  CASE which = "cursor" -> Cursor!AskedTwice
    [] which = "claude" ->
         Claude!CooldownHonoured /\ Claude!ThrottledAfterSuccess /\ Claude!ProfileOncePerToken
    [] OTHER -> TRUE
StepSpares ==
  /\ which = "claude" => Claude!WebOncePerInterval
  /\ which = "antigravity renewals" => Renewals!RenewedOncePerLifetime
ServicesAreSpared == []Spared /\ [][StepSpares]_vars

\* A failure is told for what it is: an outage is no missing login and no refusal, a refusal
\* is not covered by an estimate, another address or another account's balance, and what
\* failed is not read; but what was read outlives the failure of what only adds to it.
FailuresAreTold ==
  CASE which = "cursor" -> Cursor!DisabledIsTold
    [] which = "claude readings" -> Claims!DeniedIsTold
    [] which = "devin" -> Devin!RejectionEnds
    [] which = "token plans" ->
         /\ Plans!OutageIsNotLogin /\ Plans!UsageOutlivesOptional
         /\ Plans!FailureIsNotRead /\ Plans!EmptyTeamIsEmpty
    [] which = "opencode" ->
         OpenCode!UnreadableIsNotLogout /\ OpenCode!RefusalTold /\ OpenCode!NoPartialQuota
    [] which = "billing" ->
         /\ Billing!OutageTold /\ Billing!ReportComplete /\ Billing!CreditsStay
         /\ Billing!OutageNotPassed /\ Billing!BalanceStays
    [] which = "plans" ->
         /\ Limits!RefusalTold /\ Limits!EnrichmentAdds /\ Limits!BalanceNotPassed
         /\ Limits!KeyStandsIn /\ Limits!BalanceWhole
    [] which = "accounts" -> Accounts!KeptOutlivesLive /\ Accounts!TrialOverHidesNothing
    [] which = "bundled" -> Bundled!ChallengeIsNotExpiry /\ Bundled!DenialKeepsSession
    [] OTHER -> TRUE

\* The numbers are those that were told: nothing is lost, shown twice or made up between
\* pages, buckets, pools and days; windows hold the moment they are shown at, percentages
\* stay within theirs, and what is not known is not shown as nothing or as unused.
AmountsAreTold ==
  CASE which = "cursor" ->
         /\ Cursor!ToldUsageShown /\ Cursor!TeamTotalReported
         /\ Cursor!NoPlaceholderPools /\ Cursor!WeeklyAlone
    [] which = "claude readings" ->
         /\ Claims!DecodesUtf8 /\ Claims!AsciiSurvives /\ Claims!LedgerConserved
         /\ Claims!ModelRowsOptIn /\ Claims!WindowsOnce /\ Claims!ResetsAreUsable
         /\ Claims!RecentDays
    [] which = "devin" -> Devin!ExhaustedWeekShown /\ Devin!FormsAgree
    [] which = "token plans" -> Plans!RemainderAgrees /\ Plans!WindowsKept
    [] which = "opencode" ->
         /\ OpenCode!EstimateSound /\ OpenCode!SpentOnce /\ OpenCode!ResetFreesOldest
         /\ OpenCode!MonthHoldsNow
    [] which = "billing" ->
         /\ Billing!NothingLost /\ Billing!ActivityOnce /\ Billing!ConflictShowsNothing
         /\ Billing!CapHolds /\ Billing!TokensNotInvented
         /\ Billing!GrantsShownOnce /\ Billing!LostFirstShown
    [] which = "plans" ->
         /\ Limits!SessionWithin /\ Limits!GeneralPreferred /\ Limits!RemainsFits
         /\ Limits!ExhaustedFirst /\ Limits!WindowsDistinct /\ Limits!UseNotLowered
         /\ Limits!UseNotInvented
    [] which = "accounts" ->
         /\ Accounts!OverageOfLatest /\ Accounts!CreditsShownOnce /\ Accounts!CreditsPreferred
         /\ Accounts!OverageHonest /\ Accounts!TightestShown /\ Accounts!PaidTierTold
         /\ Accounts!NoEmptyPremium /\ Accounts!UnusedOnlyNow
    [] which = "bundled" ->
         /\ Bundled!UnknownIsNotMetered /\ Bundled!BalanceToldOnce
         /\ Bundled!OverIsUnused /\ Bundled!BilledBeyondIncluded
    [] OTHER -> TRUE
\* Every answer is told for what it is, failures and amounts alike.
AnswersAreTold == FailuresAreTold /\ AmountsAreTold
=============================================================================
