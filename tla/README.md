# UsageStat: a verification project

UsageStat collects quota and usage figures of AI coding tools. Each tool has an
adapter in JavaScript (plugins/) that signs in with whatever login the tool left on
the machine and shapes its answers into lines. `usagestatd`
(crates/ai-usage-daemon) polls these providers, reads the transcripts of local tools,
ingests finished agent runs and serves everything over a loopback HTTP API;
`usagestat` (crates/ai-usage-cli) is its command line and manages the daemon's
installation; crates/ai-usage-core holds the stores both of them write. This
directory models the parts of it that keep state and share it, checks the models
with TLC and proves their safety properties with TLAPS.

PROJECT.json lists for every definition the lines it models, for every property
a mutant (a plausible bug) that breaks it, and the hazards the properties are for.

## 1. Inventory

| Component | Source | State | Operations | What is hard about it |
|---|---|---|---|---|
| Run-usage store | core `run_usage.rs` | SQLite tables `run_usage`, `run_usage_config` | accept, purge, get, next_pending, delivery_result, retry_failed, bind_forward_target | expiry at a boundary, duplicates and conflicts, capacity without eviction |
| Run-usage API, forwarding worker | daemon `run_usage.rs` | the store under a mutex, the worker's current run | start, POST, GET, retry, forward_once, deliver | the mutex is released while a request is out; lost, late and repeated requests; restarts with another destination |
| Daemon settings, relocation | cli `daemon.rs`, `daemon/relocation.rs`; core `daemon_settings.rs` | daemon.json, daemon-relocation.json, the registered service and its process | enable, disable, t3, unregister, start, stop, autostart, relocate, recover | every step may fail, done or not; a kill between any two; recovery that fails too |
| Service managers | cli `daemon/{systemd,launchd,task_scheduler,service}.rs` (systemd modelled) | unit, enabled, active | install, enable, restart, stop, ... | partial effects |
| Poller | daemon `main.rs` | configuration, providers, cache, refresh flag, history | cycle, sleep, refresh, shutdown | stale configuration published over a newer one, lost wake-ups, a probe in flight |
| Dashboard settings | daemon `settings.rs` | config.toml | GET, PATCH | check-then-write against other writers |
| Dashboard page | daemon `dashboard.html`, `dashboard-backend.js` | the page's forms and drafts, the client's token and last view | type, save, reload, unlock, switch, background refresh | answers that come late, out of order, or from a restarted daemon, to a page that was edited meanwhile |
| Snapshot cache, history | core `cache.rs`, daemon `history.rs` | cache.json, history.jsonl | store, append | interrupted results |
| Saved daily usage | core `usage_daily.rs` | usage_daily.json | ingest, prune, (aggregate) | several processes, a full store |
| Local transcript cache | daemon `local_usage_cache.rs`, `local_usage.rs` | fingerprints and events per file, serialized reports | refresh, persist, ingest, serve | files that change while read, failed refreshes, restarts |
| Codex reconciliation, pricing | daemon `codex_usage.rs`, `pricing.rs` | none (pure) | reconcile, price | mirrored ledgers |
| Helper processes, cancellation | core `process.rs`, `signals.rs` | tokens, pipes, process group | run, run_with_input, cancel | pipe deadlock, descendants that keep the pipes, timeouts |
| Probe deadline | cli `batch_probe.rs` | the probe's thread, channel and token | ask, cancel, wait, exit | a late answer against deadline, interrupt and exit |
| Durable files | core `storage.rs` | files | write_atomic, create_once, exclusive_lock | the operating system's |
| Credentials, cookies | plugins `codex_auth.rs`, `claude_quota.rs`, `cookie_sessions.rs`; core `credentials.rs` | credential files shared with other tools | read, refresh, replace | optimistic replacement |
| Plugin host | plugins `host_api.rs`, `runtime.rs`, `loader.rs` | JavaScript engine | host functions | input and output |
| Read-only API | daemon `cliproxy.rs`, `prometheus.rs`, `control.rs`, ... | none | routes, formats | - |
| Adapters that keep logins alive | plugins `claude`, `codex`, `gemini`, `factory`, `kiro`, `grok`, `antigravity`, `antigravity-cli`, `copilot`, `cursor` | credential files shared with the tools themselves, caches, cooldowns | load, refresh, save, ask, retry, cool down | rotation of single-use tokens against the tool's own, lost answers and writes, several processes |
| Adapters that walk requests | plugins `claude`, `devin`, `opencode-go`, `openai-api`, `openrouter`, `fireworks-ai`, `claudeplatform`, `museai` | pages, organizations, action ids | ask the next, fall back, add up | partial failures, pages that repeat, a site deployed in between |
| Adapters that shape answers | plugins `alibaba*`, `qwencloud`, `minimax`, `kimi`, `perplexity`, `ollama`, `muse`, `huggingface`, `bundled_provider.js` | none | choose, read, merge, tell | several counters for one thing, missing parts, other people's accounts |
| Other adapters, packaging, tools | plugins/, npm/, packaging/, tools/ | none | - | - |

How they interact. The worker, the HTTP handlers and startup share one store
behind one mutex; the worker talks to another `usagestatd` (the same store code).
The CLI's daemon commands exclude each other by a file lock and act on the daemon
only through files and the service manager. The poller, the dashboards' handlers
and the refresh request share `refresh_flag`, `AppState` and config.toml.
Adapters run one at a time in a JavaScript context of their own, in the poller or in a
thread of `usagestat usage`; what one run leaves to the next, in whichever process,
is a file or a keychain item. They start helpers through `process::run`. The
dashboard's page holds the token of the daemon's launch and the last view.
The transcript cache is asked by the summarizer thread and by HTTP handlers under
one mutex and writes usage_daily.json, which plugins and `usagestat` commands
write as well.

What makes each one correct, in a sentence: a receipt is kept until the expiry
it names and *delivered* is never said of what was not acknowledged; a relocation
happens at one instant or not at all, wherever it is cut; what was saved in a
form is what is collected; saved usage is lost only to newer usage; a login that
belongs to another program is never lost nor mixed with another account's; what is
shown was told by the provider, for the account shown, at the time shown; a
helper or a probe that hangs costs its deadline and nothing else.

## 2. Modules

| Module | Models |
|---|---|
| `RunUsageStore` | the store as pure operators over a function from keys to rows; used for the daemon and for its destinations |
| `RunForwarding` | daemon, worker, network, destinations, clock, crashes over `RunUsageStore` |
| `RunOutbox` | the abstract outbox; `RunForwarding` implements it (`ImplementsOutbox`) |
| `DaemonLifecycle` | daemon commands as sequences of fallible effects over settings, service, process, journal |
| `AtomicMove` | the abstract relocation; `DaemonLifecycle` implements it (`RelocationIsAtomic`) |
| `Collection` | poller, dashboards, refresh, shutdown, other writers of config.toml |
| `UsageHistory` | transcripts, transcript cache, usage_daily.json and its writers |
| `SettingsEditor` | the dashboard's settings page, its client and the daemon behind it |
| `HelperRun` | one run of a helper: runner, pipes, process group, clock |
| `BatchProbe` | `usagestat usage`: the command, its probes' threads, the interrupt |
| `ClaudeProvider`, `ClaudeRequests`, `ClaudeReading` | the Claude adapter: probes of several processes; its sequences of requests; what it reads |
| `CodexProvider` | the Codex adapter over the credential store it shares with the CLI |
| `OAuthProviders`, `AccountReadings` | Gemini, Factory, Kiro, Grok, Antigravity CLI: their logins; what they tell |
| `AntigravityProvider`, `CopilotProvider`, `CursorProvider`, `DevinProvider` | one adapter each |
| `TokenPlans`, `OpenCodeGo`, `BillingReports`, `PlanReadings` | the consoles, reports and quotas of families of adapters |
| `MuseActions`, `BundledProviders` | muse.ai across deploys; the shared runner, Muse, Hugging Face |
| `MCProviders` | the nine machines of adapters side by side (`which`), their properties as four sentences |
| `MCReadings` | the tables, and the polling of Claude and Cursor and three renewals, in the same form |
| `MCProbeRuntime` | `BatchProbe` and `HelperRun` as the two sides of a probe (`side`) |
| `MCRunForwarding`, `MCDaemonLifecycle`, `MCCollection`, `MCUsageHistory` | constants of the instances TLC checks |
| `*_proofs` | the theorems (section 5) |

### RunUsageStore, RunForwarding

`rows` is the table: per (host, event) the record, its effective expiry, the
delivery state, attempts, `retry_at` and the error. A record is a model value with
a key, a finishing time, an optional expiry and a size: equal payload digests are
equal records. Every handler holds the store's mutex from beginning to end, so it
is one action (`Post`, `Lookup`, `Retry`, `Housekeep`); `forward_once` is two
(`Fetch` up to the release of the mutex, `RecordResult` after it is taken again)
with `deliver` in between: the request may arrive (`Arrive`), be answered by a
proxy (`Refuse`), time out (`GiveUp`), and an abandoned request may arrive any
number of times later (`StrayArrives`). The answer is judged at the clock of that
moment (`JudgeReceipt`, `JudgeRefusal`). The table holds whole milliseconds while the
receipt of an accept and the clock are finer: an expiry has two accounts, `Stored(t)` in
the row and what the first receipt said, and the receipt's promise holds until the
millisecond of the expiry it names (`Millisecond` is the ticks in one). `Start` is `RunUsageApi::load`: purge,
then bind the destination, which fails while undelivered rows belong to another.
A destination is another store with its own policy and a skewed clock.

Abstracted: `validate()` (records are valid), authentication and body limits
(they only reject), storage errors that change nothing, the two readings of the
clock within one handler (one value), a clock that never goes back. `issued` and
`acceptedFor` are history variables.

### DaemonLifecycle

A command takes the settings lock (`cmd`), passes its conditions in one step
(`Relocate`, `Enable`, ...) and then executes one effect per action: `Pause`,
`StopUnit`, `Save`, `Install`, ... `Attempt(effect)` lets the effect succeed, fail
without trace, or fail although done. A failing relocate turns into `rollback`,
which is `recover` run at once; `CommandKilled` and `Reboot` end a command
between any two effects. `Following` is the order of effects in `relocate`,
`recover`, `enable`, `apply_t3` and the rest. The package manager replaces or
removes executables (`PackageChanges`), the daemon may die and be restarted by
the manager, settings may be edited while a relocation is pending.

Abstracted: settings are the T3 mode and the executable; keys, plugin
directories, environment and bind address follow the same path. `Systemd::install`
writes the unit and reloads systemd in one step; a failing start shows in the
wait that follows. Of the adapters only systemd's contract is modelled.
Refusals because the endpoint is occupied by somebody else are left out.

### Collection

`pc` is where the poller thread is (`begin`, `stat`, `load`, `publish`, then
`visit`/`probe`/`judge`/`store` per instance, `rest`, `sleep`); `handler[c]` is
where the PATCH of dashboard `c` is between its checks, the replacement of the
file, the publication and the refresh request. The configuration maps a provider
to an account or `Off`; its revision is its content. `touched` says that the
file's modification time is not the one the cycle began with: a write may fail to
change it within one tick of the file system's clock. The polling deadline may
pass at any time (`WakeDue`).

Abstracted: plugin discovery (the visiting order is constant), history.jsonl as
its last record, requests that are turned away, connections and their leases.
`agreed`, `late` and `asked` are history variables.

### UsageHistory

A transcript is the set of requests it records, `disk[f]`; a row of
usage_daily.json is the set of requests it counts, or a value for reports of other
sources. `Ask`, `Visit`, `Read`, `Refreshed`, `Persist`, `Serve` are the steps of
`report_limited` and `Cache::refresh` under the cache's mutex, with a failure of
any of them; `ReadStore` and `WriteStore` are the two halves of `ingest_json`
under `WRITE_LOCK`, which excludes only writers of the same process. `Crash` kills
one process: the cache comes back as it was last persisted.

A reading that fails in the middle of a file is no failure to the code: the lines
end there (`map_while(Result::ok)`, local_usage.rs:117), and what came before is kept
under the size and modification time of the whole file. `Read` gives any part of the
file, and `whole` in the entry, which only properties read, says whether it was all. A
directory that cannot be listed is passed over in the same way (`Lists`): its files are
forgotten. `Missed` names the transcripts either happened to.

Abstracted: the fingerprint of a file is its content (a size and a modification
time that stay the same under a change are not modelled; session files do not come
back once deleted); a session's requests are appended in the order of their days
(`InTime`); files are visited in any order; the cache's time to live ends between two
requests (`Expire`), where alone it is looked at; what a request costs; compaction of
streamed lines; `ingested_at` and the selection among sources; one local provider.
Stores that cannot be parsed are left out.

### SettingsEditor

The variables of the page (`page`, the forms as shown; `typed`; `drafts`; `dirty`;
`edited`), of the client (`data`, its token) and of the daemon (`config`, `launch`), and
the one save and the one load that may be on their way. `Submit` is
`saveCollectionPatch` up to the request, `ServeSave` the daemon's PATCH, `Saved`,
`SaveFailed` and `SaveRefreshed` what follows the await; `Reload`, `Entered`, `Loaded`
and `LoadFailed` are the same for the view. Everything else (typing, scopes, tabs,
the background refresh, the other window, a restart, a lost answer) may fall in
between. A form has two fields, one this user types in and one that only the other
window changes, since a patch carries both. Abstracted: layout, the fields' kinds,
the setup key's entry by hand (`Unlock` is its outcome).

### HelperRun, BatchProbe

`HelperRun` is `process::run` with input: the runner's phases in the order of its loop
(`head`, `out`, `err`, `feed`, `wait`, `nap`), the killing of the group, the reaping and
the wait for the pipes (`late`). The helper and two descendants, of which one has left
the group, write, read, fork, block and exit as they like. Chunks stand for bytes; the
clock is the runner's and moves while it sleeps. `MCProbeRuntime`'s
side "good" restricts the environment to a helper that does its work.

`BatchProbe` composes the command's loop with its probes' threads: a turn is `Ask`,
then `Take`, `Miss`, `SeeDeadline` or `SeeInterrupt`, then `GraceOver`. A thread is one of
computing, in a helper (which `HelperRun` justifies modelling as *ends within `Cleanup`
of being cancelled*), or in a request that nothing interrupts; it outlives its turn.
Time passes (`Tick`) only when nobody who polls has a step due.

### The adapters

Three kinds of module. *Machines* (`ClaudeProvider`, `CodexProvider`,
`OAuthProviders`, `AntigravityProvider`, `CopilotProvider`, `CursorProvider`,
`ClaudeRequests`, `MuseActions`) have one action per request or file access of a
probe, between which the owner of the login signs in or rotates its token, GitHub or
Google withdraws it, the network loses an answer or the process dies. A token is the
number under which it was issued, so that *the store still works* is a statement about
a set of numbers. A 401, a 403 and an outage are told apart where the code does.
*Tables* (`DevinProvider`, `TokenPlans`, `OpenCodeGo`, `BillingReports`,
`PlanReadings`, `AccountReadings`, `BundledProviders`, `ClaudeReading`) are the pure
part: the program takes one input (a `case`, from a set of all the combinations the
code distinguishes) and computes its `answer`; the properties compare it with
what the provider told, stated without the code's order of tests. Reference definitions are
written apart from the operators they check (`SpentOnce`, `LedgerConserved`,
`DecodesUtf8`, `MonthHoldsNow`).

How state and actions correspond to the code: `probe` (or `pc` with registers) is the
local state of `probe(ctx)`; a `store`, `file`, `cache`, `login` variable is what the host
functions `fs`, `keychain`, `codex.readAuth` or `sqlite` read and write; `phase` names the
function the probe is in. The map gives the lines of each. Abstracted in all of
them: labels, number formats, URLs and headers, JSON shapes that only fail to parse,
dates as days or ticks.

`MCProviders` and `MCReadings` put these modules side by side. A behaviour is that of one
adapter, `which` says of which; the variables are registers that each instance maps to its
own (`stored` is Codex's store, Gemini's file, Copilot's places), and an adapter's unused
registers are free. Nothing is lost, since adapters share nothing but the files they
share with other programs, and those are in each module; what is won is that one sentence says
of all of them what may be relied on: `LoginsAreKept`, `ShownIsItsOwn`, `ServicesAreSpared`,
`AnswersAreTold`, `ProbesEnd`. Each is a conjunction by `which` of the adapters' own
properties, stated and commented in their modules.

- `ClaudeProvider`: a probe loads Claude Code's credentials, reads
  live-usage-cache.json, takes the quota from an observation, the OAuth endpoint or the
  claude.ai session, and merges what it learned into the file as it is then. Writing the
  rotated credentials back may fail, which is only logged (`SaveFails`). A
  reading is where and when it was taken; `Interval` ticks are the five minutes. The
  runs have one process probing: two processes lose each other's Retry-After (section 4).
- `CodexProvider`: reload before each rotation, comparison and replacement as two steps
  of the host, the CLI signing in, out or rotating at any point between. A revision is the
  credentials. Credentials need not say whose they are (`named`): the accounts are compared
  only if those of the probe do, so a probe that began with unnamed ones goes on with
  whatever a reload finds. A reload that fails counts as unchanged, except of a native host, and a
  write that fails is only logged (`ReplaceFails`); `dropped` are the refresh tokens spent on a
  rotation that never reached the store. Credentials with an API key only are left out.
- `OAuthProviders`: one machine whose rules say what a failed refresh, a rejected
  token and a lost write mean to each of the five.
- `AntigravityProvider`: never writes the IDEs' logins; its own token files and
  cooldowns are keyed by login. The reasons for which the IDE's own process is passed over
  (plugin.js:389, 786) are one outcome of `AskIde`.
- `CopilotProvider`: the token is the environment's, a kept one or gh's. An answer tells
  quotas (credits, chat, completions), the free tier's limits, or that the account is billed by token;
  of such an account without meters the credits used are a line of text, and an answer that is no
  JSON fails after the token was kept.
- `BillingReports!Console` is one browser session; the code tries one after the other
  while they are rejected (claudeplatform plugin.js:65, 227).
- `CursorProvider`: the current period, the grants, REST and the legacy requests, any of
  which may tell the usage. `MuseActions`: an action id found, kept and given up.

## 3. Runs

Twelve, each within five minutes with two workers. Every action and every disjunct of the
next-state relations fires in the passing ones.

| Run | Result | Question | Properties |
|---|---|---|---|
| `RunForwarding_outbox` | pass, 300k states | Are receipts kept by daemon and destination, does only expiry erase, do refusals wait for an operator? | `ReceiptIsDurable`, `PeerReceiptIsDurable`, `OnlyExpiryErases`, `FailureIsSticky` |
| `RunForwarding_delivery` | pass, 62k states | Is nothing redirected across reconfigurations, was what is called delivered acknowledged, is the outbox implemented, do expired rows go, are pending ones settled? | `NoRedirection`, `DeliveredRecordIsAcknowledged`, `ImplementsOutbox`, `ExpiredIsErased`, `PendingIsSettled` |
| `RunForwarding_reuse` | violation | the disagreement of section 4 | `DeliveredRecordIsAcknowledged` |
| `DaemonLifecycle_move` | pass, 468k states | Is a relocation atomic, does nothing start half-configured, do login startup and foreign settings survive, does what is configured run? | `RelocationIsAtomic`, `NoMixedStart`, `AutostartSurvives`, `ForeignSettingsKept`, `ConfiguredIsRunning` |
| `DaemonLifecycle_settle` | pass, 12k states | Does a pending relocation end when the operator keeps running `recover`? | `RelocationSettles` |
| `Collection_save` | pass, 2.5M states | Do two dashboards' forms serialize, does what they saved stay published, are refreshes served, do interrupted probes leave nothing? | `WritesSerialize`, `SavedIsPublishedOrDue`, `OneProbeMayFinish`, `RefreshIsServed`, `InterruptedIsDropped` |
| `Collection_settle` | pass, 727k states | With another program editing the file, does the daemon come to show what the file says? | `Converges` |
| `UsageHistory_daemon` | pass, 719k states | Is no row lost but for newer ones, does a saved day lose requests only to a reading that was cut short, are served reports current, is every request saved in the end? | `RowsRetained`, `HistoryGrows`, `ReportsAreCurrent`, `SettledIsSaved` |
| `ProbeRuntime` | pass, 1.2M states | Is what the command shows whole, does no helper outlive it, is each turn bounded; does every run of a helper return in its time with its whole output and nothing left running? | `AnswersAreWhole`, `NoOrphans`, `TurnBounded`, `RunsAreSettled`, `RunsEnd` |
| `SettingsEditor` | pass, 141k states | Is what was typed guarded from refreshes, does no panel stay blank, in every order of requests and answers? | `TextIsGuarded`, `PanelGoesOn` |
| `Providers` | pass, 395k states | Nine machines: do logins survive, are answers of their account and told for what they are, are services spared, do probes end? | `LoginsAreKept`, `ShownIsItsOwn`, `ServicesAreSpared`, `AnswersAreTold`, `ProbesEnd` |
| `Readings` | pass, 3.1M states | Every combination of places, answers and failures, and the polling of Claude and Cursor: outages are not logins, nothing is counted twice or lost, unknown is not zero, another account's numbers are not shown | `AnswersAreTold`, `ShownIsItsOwn`, `ServicesAreSpared` |

### Bounds

Each is a constant that a guard names.

- RunForwarding. `MaxTime` 2 (4 in `reuse`): the clock stops there; records finish
  at 0 and 1 and expire at 1, 2 or 3, so rows expire before, during and after
  delivery. `Horizon` caps `retry_at` (a later retry is as good as none before the
  clock stops), `AttemptLimit` the attempts, which only feed the back-off.
  `MaxCrashes` 1 or 2: enough for forwarding to be off in between. `outbox` has two
  events with three records (two records share an identity), a local store of one
  policy before and another after the restart, a destination with room for one
  record and a clock that is one unit ahead, and a `Millisecond` of two ticks, so that an
  expiry may fall inside one (elsewhere a tick is a millisecond). `delivery` has two destinations, the
  second with a shorter retention. Requests on their way are a set, so copies need
  no bound. `FutureSlack` 0 makes the test of the finishing time bite.
- DaemonLifecycle. Two retained builds of one package, each of which may vanish and
  come back; `MaxInterrupts` 2 (a kill during the recovery of a killed relocation),
  1 in `settle`, which starts from an installed daemon, running or paused.
  One owner: switching owners is a guard of `Enable` only.
- Collection. Two providers in visiting order, one account each or off.
  `save`: two dashboards (symmetric: they differ by nothing but their name), two
  forms, one death of the daemon, no other writer. `settle`: one form, one edit by
  another program. The sleep may end at any time, so no cycle bound is needed.
- UsageHistory. Two transcripts with three requests on two days: a day with both
  transcripts, a day with one. Three possible rows, room for two. One report of
  another source; `MaxFaults` 1 death, reading cut short or directory missed. One process, the
  daemon, with two writers. `ReportLimit` 1 with two kinds of report.
- SettingsEditor. Two forms (one saved, one beside it), `MaxTexts` 1, `MaxOutside` 1 save of the
  other window, two launches: the answer of a launch may reach a page that talks to the next.
- ProbeRuntime. Two providers (one given up beside the next), a deadline of 5 seconds, a
  grace of 2 and a cleanup of 1 as in the code, requests of 4, which outlast the grace.
  For a helper, pipes of one chunk, so that each write may block; two chunks of input; a
  limit of one, so that the second is drained; a timeout of two sleeps and a cleanup of one,
  so that each wait may end early or late; one chunk written to a stream, three by a good helper.
- Providers. `CodexTokens` 3, `ClaudeTokens`, `CopilotTokens`, `OtherTokens` 2
  each: enough for a login, its rotation by either side and, for Codex, a second account (`People` a, b).
  Copilot: an answer tells up to `CopilotTold` 2 things (one in the way of another), and up to `BudgetPages` 2
  pages of budgets follow. Antigravity: two IDEs, `MaxLogins` 2 and one access token got by a refresh (`AntigravityTokens`). Claude: `ClaudeTime` 4 with an `Interval` of 2, a
  `MaxAge` and `GrantsInterval` of 3 and a `RetryAfters` of 3, so that a reading is fresh, throttled and
  over age within a run; `TokenLife` 3, a `Buffer` of 1 and answers of `Ages` 1 and 3. Two organizations of up to `MaxOrgs` 3, `AdminPages` 3 with three cursors:
  pages that repeat and pages that go on past the limit. Muse: `MaxDeploys` 3, `MaxSignOuts` 2: one deploy
  between each two requests of a refresh.
- Readings. Lists of up to `MaxList` 2 elements (two of each kind is where first-wins,
  last-wins and sums differ), texts of up to `MaxText` 4 bytes, as long as a code point; values on both
  sides of each comparison, `None` or `Absent` for a missing one. The polling machines have the Providers'
  constants with a `MaxAge` of 2 and `RetryAfters` of 1; a shared OAuth login has `MaxTokens` 2, one with its owner `OwnerTokens` 3. OpenCode Go: five-tick sessions at
  both edges, months of 31, 28 to 31 days with a leap day. Bounds of the code that are pages or
  lists are scaled down and reached.

`CHECK_DEADLOCK FALSE` is set where the system stops: Collection (the poller has ended and
the bounds are used up), ProbeRuntime (the command has exited, the run is over), a settings
page whose bounds are used up, Providers and Readings (an answer is computed, or the bounds are used up
while idle).

### Fairness

- RunForwarding: weak fairness of the clock, of a restart, of the worker's loop
  (`Housekeep`, `Fetch`) and of the HTTP client's timeout (`GiveUp`), strong
  fairness of `RecordResult` (the result may fail to be written, not for ever).
  `ExpiredIsErased` needs no more: no answer ever has to arrive. `PendingIsSettled`
  states as premises what the code cannot give: a network and a destination that
  let a request, a final answer and its recording through now and then
  (`NetworkFairness`), a daemon that stays up and forwards, and an operator who does
  not requeue refused rows for ever, since a requeued row is due before every row
  that backs off (run_usage.rs:533).
- DaemonLifecycle: the operator runs `recover` again and again, and no effect of a
  recovery fails every time. Premise `Retained`: settings untouched, the recorded
  executable unchanged ("Keep the previous package until this command succeeds").
- Collection: the poller and the handlers are threads, every probe has a timeout.
  Premise `Rests`: refreshes do not keep coming (each starts the visiting order
  over, main.rs:293), the daemon is up, the file is readable.
- UsageHistory: the summarizer asks once a minute, the time to live is 30 seconds
  (`SF(Ask(Daily))`, `SF(Expire)`: it ends between two requests of the summarizer), the mutexes are
  fair. Premise `Works`: transcripts no longer change, refreshes no longer fail or miss a directory,
  and no entry is left that was cut short, since such an entry is not read again before its file changes.
- SettingsEditor: the daemon answers or its sockets time out, and the page runs what it
  awaits (weak fairness of each of these steps, none of the user's).
- ProbeRuntime: the runner's thread is scheduled, and one that keeps sleeping does not do so
  within one instant (`SF(Runner /\ Advances)`); nothing is asked of the helper but on the
  side "good", where it goes on.
- Providers: a probe's thread runs and every host call returns, since it has a timeout
  (`WF(Goes)`); the poller of Copilot and of muse begins again. Copilot's conclusion also needs
  `settled`: nobody signs in and nothing fails any more. Of muse's site it is assumed that, asked for
  ever, it answers each kind of request in the end (the three strong fairness conditions).

## 4. Findings

`RunForwarding_reuse` shows one: `delivery_result` is keyed by identity and `pending`
only. When the row being sent expires and the identity is accepted again with
other content before the answer arrives, the new row is marked delivered and
never sent (daemon run_usage.rs:396).

### Disagreements

What a document or a comment says and the code does not keep. They were met while modelling; no
run is spent on them, since what they violate is known and each can be looked up or checked by
naming the definition as an invariant or property of the module.

1. `Collection!OutsideEditsKept`: an edit of config.toml between the last revision check
   and the replacement is overwritten by text made before it (settings.rs:214, 216).
2. `DaemonLifecycle!FailedIsRestored`: when only the removal of the committed record fails,
   `relocate` reports a failure whose state was recovered, and leaves the new
   installation in place (relocation.rs:94).
3. `DaemonLifecycle!RelocatedIsRegistered`: `relocate` compares with the saved settings only.
   After an `enable` that failed between saving and registering, a relocate to the executable
   saved succeeds and leaves the old one registered (relocation.rs:63).
4. `SettingsEditor!OutdatedRefused`: a form filled from an older view is sent with the revision
   of a newer one, and overwrites what another window saved (dashboard.html:2068).
5. `UsageHistory!RowsRetained` with two processes: `WRITE_LOCK` is per process; of two processes
   that ingest, the later write drops the row the other saved (usage_daily.rs:269).
6. `UsageHistory!SavedUsageRemains`: deleting one of several transcripts of a day takes its
   requests out of the saved day; the documentation says saved days remain
   (usage_daily.rs:763).
7. `SettingsEditor!UnsavedSurvive`: drafts are taken before a save is awaited; what is typed into
   another form meanwhile is rebuilt away when the answer comes (dashboard.html:2272).

8. `UsageHistory!SavedUsageRemains`, in one more way: an I/O error in the middle of a transcript ends its lines
   (local_usage.rs:117), the part before it is cached under the fingerprint of the whole file and ingested, and replaces
   the day's larger row until the file changes. `HistoryGrows` is what remains true: a request leaves a saved day only
   while its transcript is missed or cut.

The adapters differ from what they set out to do in a few places that the models keep and their
properties step around, as the comments say: with two processes probing at once, Claude's reading is
shown with the time of the other's (claude plugin.js:1939) and an answered probe erases a Retry-After the other
saved (1827); its throttle needs a kept reading (1756). A second rotation in one Codex probe is compared with
the revision of before the first and not saved (codex plugin.js:316), hence `StoreUsableAfterOne`; and a rotation whose answer, probe or write is lost leaves a spent
refresh token in the store of Codex and of Claude (codex plugin.js:318, claude plugin.js:489), hence `dropped`. Claude's
plan may then be looked up once more for that token (657), since the probe that could not save the one it
renewed wrote the cache under that one. An owner
that writes its login while a probe of the OAuth adapters runs may find it overwritten by the one the probe had read
(`raced`), which `LoginKept` and `OthersKept` leave out. agy's rejected
token replaces the verdict that Google denied the IDE's account (antigravity plugin.js:848). A 403 never
reaches the fallback written for it in Cursor (cursor plugin.js:1239), and an account with two pools and no total is
shown a total of 0 % (728).

## 5. Proofs

Checked by TLAPS for all values of the constants, from the assumptions stated in
the modules (`RecordAssumption`, `ForwardingAssumption`, `LifecycleAssumption`,
`CollectionAssumption`, `UsageHistoryAssumption`, `EditorAssumption`, `ProbeAssumption`,
`HelperAssumption`, `ProviderAssumption` and the ones that keep null values apart), which TLC evaluates on
the runs; what a theorem assumes besides is in its statement. Each proof module
begins with its inductive invariant.

- **RunForwarding_proofs.** `TypeCorrect`. `DeliveryInv` says what the worker's registers
  imply (`WorkerIsHonest`: a verdict *delivered* rests on a receipt issued by the
  running target for that key), what the destination in the database implies for
  undelivered rows, and that delivered rows were acknowledged; it is inductive
  because only a binding that finds nothing undelivered changes the destination.
  It gives `NeverRedirected`, `DeliveredMeansAcknowledged`, and, assuming that an
  identity names one record (`KeyOf` injective), `DeliveredContent`; the finding is the
  failure of that assumption. `ReceiptsInv` (a receipt has its row until the millisecond
  of the expiry it names) gives `ReceiptsAreDurable` and `PeerReceiptsAreDurable` through lemmas on the
  store's operators. `RefusalsWaitForAnOperator` follows step by
  step. `DaemonImplementsOutbox` maps every step to a step of `RunOutbox` or a
  stutter. `NothingIsEvicted` gives `OnlyExpiryErases`. The bytes of a table are a fold over a
  set whose order the definition leaves open, so part V first proves that the fold does not
  depend on it (`SumsIgnoreOrder`) and that a new row adds its own bytes (`BytesOfOneMore`), by
  induction over the size of the set. The induction is stated with the numbers that have the
  property as a set (`AllNumbers`), because the library's own takes an operator. It needs that
  the table is finite, which `RowsAreFinite` proves of every behaviour.
- **DaemonLifecycle_proofs.** `MoveInv`: a command is at a step of its own
  (`StepsOfTheirOwn`), a move runs only with a journal and other commands only without
  (`JournalIsTheMoves`), the effects before the current step hold (`SoFar`), a
  committed journal means all of them do (`CommittedIsDone`), and halfway the service
  is off at login (`HalfwayIsOff`). `NoMixedStart` and `RelocationIsAtomic` fail
  without the last two: the state of an abandoned move is only known through them.
  It gives `NeverMixed`, `NothingLeftToRecover`, `OnlyItsOwnSettings`,
  `NothingStartsUnasked`, `MovesAtOnce`. `StartupInv` (a pending journal records a wish
  for login startup, and a service that is not registered does not start at login) gives
  `AutostartIsWished`; `ConfigInv` (at each step of `enable` and `t3`, how what runs, what is
  registered and what is saved agree) gives `ConfiguredRuns`. Both need
  `MoveInv`'s order of steps: what a rollback restores is what the journal recorded.
- **Collection_proofs.** `CollectionInv`: what the poller's registers were read from
  (`Readings`), handlers exclude each other (`Exclusive`), how a saved form, the
  published providers and the poller's configuration agree (`Agreement`, `Reloads`),
  that at most the probe in flight is stale (`LastOne`), and which instances a
  refresh still has to reach (`Unvisited`). It gives the run's four invariants. `Checked`
  (a handler about to write made its text from the file as it is, while nobody else
  has written) gives `SavesSerialize`.
- **UsageHistory_proofs.** `ServedAgainIsCurrent`. `Held` (with one process, a writer that
  has read the store read what it still is) and a lemma on pruning give
  `OneProcessRetainsRows` for any capacity and any number of writers; it assumes
  `OneProcess`, and disagreement 5 is its failure. The pruning lemma needs the row of the
  smallest rank to keep, by the well-foundedness of the naturals. `GrowthInv`
  (what is saved of a day is in the cache or will be before anything is ingested, also
  through a crash that goes back to an older cache, unless its transcript is missed or cut) gives
  `SavedDaysGrow`, under `OneProcess` and `SourcesApart` (no other source writes the transcripts' rows).
- **SettingsEditor_proofs.** `EditorInv`: only forms in the document are marked, an answer that
  succeeded carries the view, and `Fetching`, the stronger form of *never blank*: it also speaks of a
  tab that is not shown, since a marked one is shown again as it is. It gives `TypedTextIsGuarded` and
  `PanelIsNeverBlank`, for any forms, texts and restarts.
- **ProbeRuntime_proofs.** Of a helper, `RunInv`: what was fed is taken, in the pipe or to be written (`Fed`); the
  group is told to end on every way back (`Told`); each stream's end is seen only when nobody holds it and it
  was read to the end (`Streams`); and each phase has its own bound on the clock, against the
  timeout and the cancellation (`Clock`). `Clock` is what makes the bound of the whole inductive: a
  wait inherits what its predecessor left. It gives `RunOutputIsWhole`, `RunIsBounded` and
  `RunsSettle`. `BatchInv` is the command's: a thread has no helper but while it waits for one, an answer
  is the thread's last step and is whole unless the thread was stopped (`Threads`); a
  thread that the command is done with has ended, or is cancelled and past the second
  in which it sees that (`Done`); and how the turn, the time of grace and the interrupt
  bound the clock (`Times`). `NoOrphans` is not inductive without `Done`: that no helper
  runs at the exit rests on what each thread was doing when its turn ended. It gives
  `ShownIsWhole`, `NoHelperIsLeft`, `TurnsAreBounded`, `InterruptsEnd` and
  `GivenUpIsQuiet` for any number of providers and any deadline, grace and transport
  timeout with `Cleanup < Grace`. `RuntimeRunsTheCommand` carries them to the instance that TLC
  checks: its steps are the command's or leave the command alone.
- **MCProviders_proofs.** `ProvidersInv` is one invariant per adapter; each is inductive by itself,
  since only one adapter moves. It gives `ReadingsAreOwn`, `LoginsStayGood`, `NoServiceIsPressed` and
  `EveryAnswerIsTold`: all safety properties of the run, for any accounts, tokens, pages and intervals.
  - `CodexInv`, stated once of `AnyCodex(places, native, sealed, tokens)` and used for all three
    stores. That the store stays usable is not inductive: between the rotation and the save what is
    stored is void and what the probe holds is good (`Usable`, `Rotated`), and tokens spent on a rotation that was
    lost (`dropped`) stay void. This in turn needs that tokens are
    issued in order and whole (`Issuing`), that no two places hold the same one (`Apart`; otherwise a
    rotation in one would void the other), and that what the probe holds is what it read until it rotates
    (`OfRevision`; with the account the probe began with, or took over while none was named), so that the comparison before the replacement means what it should. `Kept` and
    `Fresh` are the sign-ins and the rejected tokens.
  - `OAuthInv`: the five logins by their rule. A refresh token in the file is one the server takes or one it
    withdrew (`Logins`), also in the copy the probe read; `Counts` bounds refreshes by the logins gone through and
    the requests made, which `RefreshesBounded` needs to be inductive; `Passed` says that what was passed over had
    expired, for the two adapters that may pass over a login.
  - `AntigravityInv`: what the probe met so far decides its verdict (`Sound`), and a selected IDE is
    asked alone (`Alone`); the cooldown it honours is the refusal it saw.
  - `CopilotInv`: a phase that asks has a token, and meters and lines of text are only there with the quotas and
    the billing they came with. `RequestsInv`: each list of pages has no cursor twice, and the one being asked is in none;
    cost pages come before messages; a report in the history has all its pages. `MuseInv`: posts
    against the phase.
  - `ClaudeInv`: tokens are in order and what is held was issued (`InOrder`: an old token does not come back,
    so neither does its cooldown); what put the file's login off is over or is in the cache, and was
    over when a probe that asks began (`PutOff`: it links the three places that know of a 429, the server's
    deadline, the cache and the probe's copy); while rotated tokens wait to be saved they are the ones
    that work, and what the file holds works unless its token was spent on a rotation that was lost (`SignedIn`); a reading has its time with it or in the cache until it is shown (`Observed`).

Only model-checked:

- liveness, which needs fairness: `ExpiredIsErased`, `PendingIsSettled`, `RelocationSettles`,
  `Converges`, `SettledIsSaved`, `RunsEnd`, `PanelGoesOn` (its safety half is proved) and `ProbesEnd`;
- the run `Readings`: the tables' properties compare computed answers with reference definitions, which for
  lists and texts are inductions over data. `AllNumbers` shows how such an induction can be stated; none
  is written for the tables yet.

## 6. Not modelled

- The launchd and Task Scheduler adapters, status output, the doctor; connection leases
  and the accept loop; reading history back; the read-only API.
- Selection and aggregation among sources in daily usage, and `ingested_at`; Codex
  reconciliation and pricing of transcripts: pure algorithms.
- `control_dialogue` (the loop of `process::run` with an answer per line) and the Windows
  job objects; how a write is made durable (storage.rs): a write is one step, which may fail wherever the
  code goes on after a failure.
- Cookie sessions and their import, keychains and file modes; the readers of other
  programs' databases.
- Of the adapters: labels, formats, charts of token usage, the language server's
  messages; and the adapters of the remaining providers, most of which only configure the
  shared runner.
- The JavaScript engine, manifests and path resolution, packaging, tools and tests.

PROJECT.json gives the reason for each component.

## 7. Plan

Modules were written in this order: `RunUsageStore`, `RunForwarding`, `RunOutbox` (the store
with the strongest promises); `DaemonLifecycle`, `AtomicMove`; `Collection`;
`UsageHistory`; the proofs of each; then the adapters that share logins with other
programs (Claude, Codex, OAuth, Antigravity, Copilot, Cursor), those that read and add up;
the settings page; helpers and the probe deadline; the proofs of these and of the machines of
`MCProviders`.

Next, in this order:

1. Proofs of what is left in reach: the machines of `MCReadings`
   that no table shares a module with (Claude over the network, the renewals of Antigravity, the OAuth logins of two
   accounts), by the lemmas of `MCProviders_proofs`.
2. Daily usage: `prefer_row`, `aggregate_rows`, the week and month windows against
   reference definitions; then `ingested_at` and the selection in `UsageHistory`.
3. Codex reconciliation (`codex_usage.rs`) against a reference definition: mirrored
   ledgers count a request once.
4. Connection leases and shutdown of the accept loop; the launchd and Task Scheduler
   adapters as further implementations of the service contract.
5. Cookie sessions, `control_dialogue`, and the shapes of the providers that
   configure the shared runner.
