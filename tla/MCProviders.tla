----------------------------- MODULE MCProviders -----------------------------
(***************************************************************************)
(* The providers that keep a state of their own, side by side: whose login  *)
(* it is, how it is renewed, what is asked how often, and what is told of   *)
(* the answers.  Each is a module; a behaviour is one of them, `which`      *)
(* says of which, and the variables here are its registers.  The first nine *)
(* hold what most of them have,                                             *)
(*   stored    what is kept of the logins, by the provider or its owner     *)
(*   accepted  what the server takes, or what was made of its answers       *)
(*   stale, late  tokens about to expire and expired, or a clock            *)
(*   issued    how many tokens there were                                   *)
(*   probe     the probe under way                                          *)
(*   cache     what outlives a probe, or what was read by it                *)
(*   told      what the last probe showed                                   *)
(* and r1 to r5 what only one has; the instances below say which is which.  *)
(* A register the provider has no use for is free.                          *)
(***************************************************************************)
EXTENDS Naturals, FiniteSets, Sequences, TLC

CONSTANTS
  Machines,     \* the providers checked, of which `which` is one
  People,       \* the accounts there are to sign in with
  Ides,         \* Antigravity: the IDEs whose database may hold a login
  Orgs, Cursors,  \* Claude: organizations a session may list, cursors a report may name
  NoAction,     \* Muse: no action id is known
  \* Claude: its intervals, in ticks, and what it may meet
  Interval, MaxAge, GrantsInterval, Buffer, TokenLife, Ages, RetryAfters,
  AdminPages, BudgetPages,  \* ADMIN_MAX_PAGES of Claude, the pages of Copilot's budgets
  \* bounds of the model
  CodexTokens, OtherTokens, AntigravityTokens, CopilotTokens, CopilotTold, ClaudeTokens,
  ClaudeTime, MaxLogins, MaxOrgs, MaxDeploys, MaxSignOuts

VARIABLES which, stored, accepted, stale, late, issued, probe, cache, told, r1, r2, r3, r4, r5

vars == <<which, stored, accepted, stale, late, issued, probe, cache, told, r1, r2, r3, r4, r5>>

OAuthNames == {"gemini", "factory", "grok", "kiro", "antigravity-cli"}

\* Claude in the daemon, asked over the network or through Claude Code.
Daemon == {"daemon"}
ByCli == [p \in Daemon |-> {"auto", "cli", "oauth"}]
NoSession == [p \in Daemon |-> "none"]

-----------------------------------------------------------------------------
Codex == INSTANCE CodexProvider WITH
  store <- stored, valid <- accepted, aging <- stale, signedIn <- r1,
  dropped <- r2, twice <- r3, crossed <- r4,
  Places <- 1, Native <- TRUE, ReadOnly <- FALSE, Accounts <- People,
  MaxTokens <- CodexTokens

Sealed == INSTANCE CodexProvider WITH
  store <- stored, valid <- accepted, aging <- stale, signedIn <- r1,
  dropped <- r2, twice <- r3, crossed <- r4,
  Places <- 1, Native <- TRUE, ReadOnly <- TRUE, Accounts <- People,
  MaxTokens <- OtherTokens

Files == INSTANCE CodexProvider WITH
  store <- stored, valid <- accepted, aging <- stale, signedIn <- r1,
  dropped <- r2, twice <- r3, crossed <- r4,
  Places <- 2, Native <- FALSE, ReadOnly <- FALSE, Accounts <- People,
  MaxTokens <- OtherTokens

OAuth == INSTANCE OAuthProviders WITH
  name <- r1, file <- stored, valid <- accepted, revoked <- r2, aging <- stale,
  expired <- late, raced <- r3, lost <- r4,
  Names <- OAuthNames, Accounts <- People, MaxTokens <- OtherTokens

Antigravity == INSTANCE AntigravityProvider WITH
  selected <- r1, login <- stored, cooling <- stale, good <- accepted,
  expired <- late, withdrawn <- r2, logins <- r3, kept <- r4, refused <- r5,
  Profiles <- Ides, MaxTokens <- AntigravityTokens

Copilot == INSTANCE CopilotProvider WITH
  store <- stored, good <- accepted, settled <- r1,
  MaxTokens <- CopilotTokens, MaxTold <- CopilotTold, MaxPages <- BudgetPages

Requests == INSTANCE ClaudeRequests WITH
  mode <- r1, phase <- probe, orgs <- stored, refused <- accepted, usage <- told,
  report <- stale, pages <- cache, seen <- r2, cursor <- r3, history <- r4,
  MaxPages <- AdminPages

Muse == INSTANCE MuseActions WITH
  deployed <- issued, signedIn <- accepted, cookie <- r1, pc <- probe,
  actionID <- cache, posts <- r2, signOuts <- r3, proven <- r4, refused <- r5,
  None <- NoAction

ClaudeCli == INSTANCE ClaudeProvider WITH
  now <- late, file <- stored, valid <- accepted, result <- told, deadline <- r1,
  polled <- r2, asked <- r3, dropped <- r4,
  Procs <- Daemon, Modes <- ByCli, Key <- NoSession, MaxTime <- ClaudeTime,
  MaxTokens <- ClaudeTokens

ASSUME ProviderAssumption ==
  /\ Codex!CodexAssumption /\ Sealed!CodexAssumption /\ Files!CodexAssumption
  /\ OAuth!OAuthAssumption /\ Antigravity!AntigravityAssumption
  /\ Copilot!CopilotAssumption /\ Requests!RequestsAssumption
  /\ Muse!MuseAssumption /\ ClaudeCli!ClaudeAssumption

-----------------------------------------------------------------------------
Free(register) == register = "free"

Started ==
  \/ which = "codex" /\ Codex!Init /\ Free(late) /\ Free(cache) /\ Free(told) /\ Free(r5)
  \/ which = "sealed codex" /\ Sealed!Init /\ Free(late) /\ Free(cache) /\ Free(told) /\ Free(r5)
  \/ which = "codex files" /\ Files!Init /\ Free(late) /\ Free(cache) /\ Free(told) /\ Free(r5)
  \/ which = "oauth" /\ OAuth!Init /\ Free(cache) /\ Free(told) /\ Free(r5)
  \/ which = "antigravity" /\ Antigravity!Init /\ Free(told)
  \/ which = "copilot" /\ Copilot!Init /\ Free(stale) /\ Free(late) /\ Free(cache) /\ Free(told) /\ Free(r2) /\ Free(r3) /\ Free(r4) /\ Free(r5)
  \/ which = "claude requests" /\ Requests!Init /\ Free(late) /\ Free(issued) /\ Free(r5)
  \/ which = "muse" /\ Muse!Init /\ Free(stale) /\ Free(late)
  \/ which = "claude cli" /\ ClaudeCli!Init /\ Free(stale) /\ Free(r5)

Init == which \in Machines /\ Started

CodexNext == which = "codex" /\ Codex!Next /\ UNCHANGED <<which, late, cache, told, r5>>
SealedNext == which = "sealed codex" /\ Sealed!Next /\ UNCHANGED <<which, late, cache, told, r5>>
FilesNext == which = "codex files" /\ Files!Next /\ UNCHANGED <<which, late, cache, told, r5>>
OAuthNext == which = "oauth" /\ OAuth!Next /\ UNCHANGED <<which, cache, told, r5>>
AntigravityNext == which = "antigravity" /\ Antigravity!Next /\ UNCHANGED <<which, told>>
CopilotNext == which = "copilot" /\ Copilot!Next /\ UNCHANGED <<which, stale, late, cache, told, r2, r3, r4, r5>>
RequestsNext == which = "claude requests" /\ Requests!Next /\ UNCHANGED <<which, late, issued, r5>>
MuseNext == which = "muse" /\ Muse!Next /\ UNCHANGED <<which, stale, late>>
ClaudeCliNext == which = "claude cli" /\ ClaudeCli!Next /\ UNCHANGED <<which, stale, r5>>

Next ==
  \/ CodexNext \/ SealedNext \/ FilesNext \/ OAuthNext
  \/ AntigravityNext \/ CopilotNext \/ RequestsNext \/ MuseNext \/ ClaudeCliNext

\* Every request of a probe has a timeout, and the steps between them end; Copilot's and
\* Muse's poller begins again.
Goes ==
  \/ which = "codex" /\ Codex!Step /\ UNCHANGED <<which, late, cache, told, r5>>
  \/ which = "sealed codex" /\ Sealed!Step /\ UNCHANGED <<which, late, cache, told, r5>>
  \/ which = "codex files" /\ Files!Step /\ UNCHANGED <<which, late, cache, told, r5>>
  \/ which = "oauth" /\ OAuth!ProbeStep /\ UNCHANGED <<which, cache, told, r5>>
  \/ which = "antigravity" /\ Antigravity!ProbeStep /\ UNCHANGED <<which, told>>
  \/ which = "copilot" /\ (Copilot!Begin \/ Copilot!ProbeStep) /\ UNCHANGED <<which, stale, late, cache, told, r2, r3, r4, r5>>
  \/ which = "claude requests" /\ Requests!Next /\ UNCHANGED <<which, late, issued, r5>>
  \/ which = "muse" /\ (Muse!Begin \/ Muse!Post \/ Muse!Discover \/ Muse!Repost) /\ UNCHANGED <<which, stale, late>>

\* A site that is asked for ever answers each kind of request in the end (muse).
MuseStep(step) == which = "muse" /\ step /\ UNCHANGED <<which, stale, late>>
Spec ==
  /\ Init /\ [][Next]_vars /\ WF_vars(Goes)
  /\ SF_vars(MuseStep(Muse!Post /\ told' # "failed"))
  /\ SF_vars(MuseStep(Muse!Discover /\ probe' = "repost"))
  /\ SF_vars(MuseStep(Muse!Repost /\ told' # "failed"))

-----------------------------------------------------------------------------
(* What may be relied on *)

\* A login that works stays one that works: rotated tokens reach the store, whoever else
\* rotates or signs in meanwhile (codex, claude, the OAuth providers); a kept token is dropped when it was rejected, not when
\* nobody answered (copilot); the encrypted store of Codex is never rotated.
LoginHolds ==
  CASE which = "codex" -> Codex!StoreUsableAfterOne /\ Codex!SignInKept
    [] which = "codex files" -> Files!StoreUsable
    [] which = "oauth" -> OAuth!LoginKept
    [] which = "claude cli" -> ClaudeCli!SignedInKept
    [] OTHER -> TRUE
LoginStepHolds ==
  CASE which = "sealed codex" -> Sealed!EncryptedNotRotated
    [] which = "copilot" -> Copilot!OnlyRejectedDropped
    [] OTHER -> TRUE
LoginsAreKept == []LoginHolds /\ [][LoginStepHolds]_vars

\* What is shown is what it is said to be: of the account or profile the probe
\* began with, through every reload and refresh; taken at the time it is given with;
\* and of whole reports, each page once.
ShownIsItsOwn ==
  CASE which = "codex" -> Codex!SameAccount
    [] which = "codex files" -> Files!SameAccount
    [] which = "antigravity" -> Antigravity!SelectedAlone
    [] which = "claude requests" ->
         Requests!NoPageTwice /\ Requests!WholeReportsOnly /\ Requests!OneHistory
    [] which = "claude cli" -> ClaudeCli!FetchedAtIsObservation
    [] OTHER -> TRUE

\* A service is not asked what it has refused or put off: no rejected token is sent again
\* (codex), refreshes are bounded (oauth) and made on evidence of a rejection only, a
\* refused login is left alone for its hour (antigravity), a 429 for as long as it says
\* (claude), and a site under deployment is not chased (muse).
Spared ==
  CASE which = "codex" -> Codex!NoRejectedTokenAgain
    [] which = "codex files" -> Files!NoRejectedTokenAgain
    [] which = "oauth" -> OAuth!RefreshesBounded
    [] which = "muse" -> Muse!AttemptsBounded
    [] which = "claude cli" -> ClaudeCli!CooldownHonoured
    [] OTHER -> TRUE
StepSpares ==
  which = "antigravity" => Antigravity!NoRefreshOnOutage /\ Antigravity!CooldownKept
ServicesAreSpared == []Spared /\ [][StepSpares]_vars

\* An answer is told for what it is and does not cost another: a denial apart from a
\* rejection, an expired session when the site refused it; a login that is still good, a
\* fresh one and the next organization are tried, and a failed extra loses no line.
AnswerTold ==
  CASE which = "oauth" -> OAuth!GoodTokenTried
    [] which = "antigravity" -> Antigravity!DenialToldApart
    [] which = "copilot" -> Copilot!QuotasTold /\ Copilot!ExtrasLoseNothing
    [] which = "muse" -> Muse!ExpiredWasRefused /\ Muse!KeptWasProven
    [] OTHER -> TRUE
AnswerStepTold ==
  CASE which = "antigravity" -> Antigravity!FreshLoginTried
    [] which = "claude requests" -> Requests!RefusalIsNotFinal
    [] OTHER -> TRUE
AnswersAreTold == []AnswerTold /\ [][AnswerStepTold]_vars

\* Every probe ends, whatever is answered: refreshes, reloads, fallbacks, organizations and
\* pages do not go round.  After `gh auth login` Copilot is read again, whatever token was
\* kept before; and Muse, for whoever stays signed in, again and again, whatever was
\* deployed.
Due ==
  CASE which = "codex" -> Codex!Probing
    [] which = "sealed codex" -> Sealed!Probing
    [] which = "codex files" -> Files!Probing
    [] which = "oauth" -> OAuth!Probing
    [] which = "antigravity" -> Antigravity!Probing
    [] which = "copilot" -> Copilot!SignedIn
    [] which = "claude requests" -> Requests!Probing
    [] which = "muse" -> TRUE
    [] OTHER -> FALSE
Served ==
  CASE which = "copilot" -> Copilot!Shown
    [] which = "muse" -> Muse!StaysIn => Muse!Read
    [] OTHER -> ~Due
ProbesEnd == Due ~> Served
=============================================================================
