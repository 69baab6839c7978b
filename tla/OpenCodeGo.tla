----------------------------- MODULE OpenCodeGo -----------------------------
(***************************************************************************)
(* OpenCode Go (src/plugins/opencode-go/plugin.js): where the key lies     *)
(* after a migration from a file to a database, which of the API, the web  *)
(* and the local history answers, how the history's rows become the three  *)
(* windows of an estimate, and the month that is anchored at the first     *)
(* use, in months of different lengths.                                    *)
(***************************************************************************)
EXTENDS Integers, Sequences, FiniteSets, FiniteSetsExt

CONSTANTS
    Months,     \* the lengths of consecutive months, in days
    MaxRows,    \* rows of the history
    FiveHours,  \* the session, in ticks
    Now,        \* in ticks
    Costs,      \* the costs that are told
    Limit       \* of the session's costs

VARIABLES case, answer

vars == <<case, answer>>

KeyCases ==
    [kind : {"key"}, configured : BOOLEAN, inline : {"none", "malformed", "no entry", "key"},
     database : {"absent", "unreadable", "not imported", "imported"},
     credential : {"no table", "no row", "malformed", "blank", "key"},
     file : {"absent", "unreadable", "malformed", "no entry", "key"}]

ProbeCases ==
    [kind : {"probe"}, source : {"auto", "web", "api", "local"}, inline : BOOLEAN, key : BOOLEAN,
     cookie : BOOLEAN, api : {"ok", "rejected", "outage"}, present : {"fails", "no", "yes"},
     history : {"fails", "empty", "priced", "unpriced"}, web : {"windows", "balance", "fails"}]

Windows == {"none", "invalid", "percent"}
ApiCases == [kind : {"api"}, rolling : Windows, weekly : Windows, monthly : Windows]

Unknown == -1
Ids == {"", "a", "b"}
Row == [id : Ids, created : {0, Now - FiveHours - 1, Now - FiveHours, Now - 1, Now, Now + 1},
        cost : Costs \cup {Unknown}, tokens : BOOLEAN]
HistoryCases == [kind : {"history"}, rows : UNION {[1..n -> Row] : n \in 0..MaxRows}]

\* Half days since the first of the first month.
StartOf(m) == 2 * MapThenSumSet(LAMBDA i : Months[i], 1..(m - 1))
MonthCases == [kind : {"month"}, now : StartOf(2)..(StartOf(Len(Months)) - 1),
               anchor : 0..(StartOf(Len(Months)) - 1)]

Nothing == [from |-> "none", outcome |-> "none", lines |-> {}, asked |-> {}, rows |-> <<>>,
            reset |-> 0, used |-> 0, start |-> 0, end |-> 0]

TypeOK ==
    /\ answer.from \in {"none", "configured", "inline", "database", "file"}
    /\ answer.outcome \in {"none", "ok", "no login", "malformed", "unavailable", "failed", "api",
                           "web", "estimate", "empty"}
    /\ answer.asked \subseteq {"api", "web"}
    /\ DOMAIN answer.rows \subseteq 1..MaxRows
    /\ answer.used \in 0..100

Init ==
    /\ case \in KeyCases \cup ProbeCases \cup ApiCases \cup HistoryCases
                \cup {c \in MonthCases : c.anchor <= c.now}
    /\ answer = Nothing

----------------------------------------------------------------------------
(* The key.                                                                *)

\* "Only the completed v2 import makes database logout authoritative."
Imported(c) == c.database = "imported"

Key(from, outcome) == [Nothing EXCEPT !.from = from, !.outcome = outcome]

KeyInDatabase(c) ==
    CASE c.credential = "no table" -> Key("none", "unavailable")
      [] c.credential = "malformed" -> Key("none", "malformed")
      [] c.credential = "key" -> Key("database", "ok")
      [] OTHER -> Key("none", "no login")

KeyInFile(c) ==
    CASE c.file = "unreadable" -> Key("none", "unavailable")
      [] c.file = "malformed" -> Key("none", "malformed")
      [] c.file = "key" -> Key("file", "ok")
      [] OTHER -> Key("none", "no login")

StoredKey(c) ==
    IF c.database = "unreadable" THEN Key("none", "unavailable")
    ELSE IF Imported(c) THEN KeyInDatabase(c)
    ELSE KeyInFile(c)

AuthKey(c) ==
    CASE c.configured -> Key("configured", "ok")
      [] ~c.configured /\ c.inline = "malformed" -> Key("none", "malformed")
      [] ~c.configured /\ c.inline = "no entry" -> Key("none", "no login")
      [] ~c.configured /\ c.inline = "key" -> Key("inline", "ok")
      [] OTHER -> StoredKey(c)

LoadAuthKey ==
    /\ case.kind = "key" /\ answer = Nothing
    /\ answer' = AuthKey(case)
    /\ UNCHANGED case

----------------------------------------------------------------------------
(* What answers.                                                           *)

Shown(source, asked, lines) ==
    [Nothing EXCEPT !.outcome = source, !.asked = asked, !.lines = lines]

\* In local mode only OPENCODE_AUTH_CONTENT is looked at.
KeyRead(c) == c.key /\ (c.source # "local" \/ c.inline)

WebLines(c) == IF c.web = "windows" THEN {"Session", "Weekly", "Zen balance"} ELSE {"Zen balance"}

Web(c) == IF c.web = "fails" THEN Shown("failed", {"web"}, {}) ELSE Shown("web", {"web"}, WebLines(c))

CostLines == {"Local Cost", "Local Tokens"}

\* Without every price there is no estimate of the windows.
Estimated(c) == IF c.history = "priced" THEN {"Session", "Weekly", "Monthly"} ELSE {}

\* (mutant: a key that is refused gives way to the history)
ApiOrHistory(c) == c.key /\ c.source \notin {"local", "web"} /\ c.api = "ok"

AskedApi(c) == c.key /\ c.source \notin {"local", "web"}

AskedWeb(c) == c.cookie /\ c.source # "local"

Api(c) ==
    IF c.api # "ok" THEN Shown("failed", {"api"}, {})
    ELSE Shown("api", {"api"}, {"Session"} \cup IF c.history \in {"priced", "unpriced"} THEN CostLines ELSE {})

\* The web adds its balance to an estimate, and replaces a history without rows.
Local(c) ==
    IF ~KeyRead(c) /\ ~c.cookie /\ c.present # "yes" THEN Shown("no login", {}, {})
    ELSE IF c.present = "fails" /\ ~c.cookie THEN Shown("empty", {}, {"Status"})
    ELSE IF c.history \in {"priced", "unpriced"}
    THEN Shown("estimate", IF AskedWeb(c) THEN {"web"} ELSE {},
               Estimated(c) \cup CostLines
               \cup IF AskedWeb(c) /\ c.web # "fails" THEN {"Zen balance"} ELSE {})
    ELSE IF AskedWeb(c) /\ c.web # "fails" THEN Web(c)
    ELSE Shown("empty", IF AskedWeb(c) THEN {"web"} ELSE {}, {"Status"})

Probe ==
    /\ case.kind = "probe" /\ answer = Nothing
    /\ answer' = IF case.source = "web" THEN IF case.cookie THEN Web(case) ELSE Shown("no login", {}, {})
                 ELSE IF case.source = "api" /\ ~case.key THEN Shown("no login", {}, {})
                 ELSE IF AskedApi(case) THEN Api(case)
                 ELSE Local(case)
    /\ UNCHANGED case

\* The session is required; the others are, once they are there, to be readable.
WindowFits(c, w) == w = "percent" \/ (w = "none" /\ c.rolling # "none")

ReadApi ==
    /\ case.kind = "api" /\ answer = Nothing
    /\ answer' = IF \A w \in {case.rolling, case.weekly, case.monthly} : WindowFits(case, w)
                 THEN Shown("api", {"api"},
                            {"Session"} \cup {l \in {"Weekly", "Monthly"} :
                                (IF l = "Weekly" THEN case.weekly ELSE case.monthly) = "percent"})
                 ELSE Shown("failed", {"api"}, {})
    /\ UNCHANGED case

----------------------------------------------------------------------------
(* The history and the session.                                            *)

Repeated(rows, i) == rows[i].id # "" /\ \E j \in 1..(i - 1) : rows[j].id = rows[i].id

\* The first row of an id, not later than now, with a price or tokens.
Kept(rows, i) ==
    /\ ~Repeated(rows, i)
    /\ rows[i].created \in 1..Now
    /\ rows[i].cost # Unknown \/ rows[i].tokens

\* The rows that are kept, each in its place.
Loaded(rows) == [i \in {i \in DOMAIN rows : Kept(rows, i)} |-> rows[i]]

Session(rows, now) == {i \in DOMAIN rows : rows[i].created >= now - FiveHours /\ rows[i].created < now}

RollingReset(rows) ==
    LET in == {rows[i].created : i \in Session(rows, Now)}
    IN  FiveHours + IF in = {} THEN Now ELSE CHOOSE t \in in : \A u \in in : t <= u

Percent(spent, limit) == IF spent > limit THEN 100 ELSE (100 * spent) \div limit

\* A row without a price costs nothing.
Spent(rows, within) == MapThenSumSet(LAMBDA i : rows[i].cost, {i \in within : rows[i].cost # Unknown})

LoadHistory ==
    /\ case.kind = "history" /\ answer = Nothing
    /\ LET rows == Loaded(case.rows) IN
       answer' = [Nothing EXCEPT !.rows = rows, !.reset = RollingReset(rows),
                                 !.used = Percent(Spent(rows, Session(rows, Now)), Limit),
                                 !.outcome = IF rows = <<>> THEN "empty" ELSE "estimate"]
    /\ UNCHANGED case

----------------------------------------------------------------------------
(* The month, anchored at the first row.                                   *)

MonthOf(t) == CHOOSE m \in 1..Len(Months) : StartOf(m) <= t /\ t < StartOf(m) + 2 * Months[m]

Least(a, b) == IF a < b THEN a ELSE b

\* The day of the month and the time of the anchor, the last day where the month is shorter.
Anchored(m, anchor) ==
    LET since == anchor - StartOf(MonthOf(anchor))
    IN  StartOf(m) + 2 * Least(since \div 2, Months[m] - 1) + (since % 2)

MonthBounds ==
    /\ case.kind = "month" /\ answer = Nothing
    /\ LET this == MonthOf(case.now)
           begins == IF Anchored(this, case.anchor) > case.now THEN this - 1 ELSE this
       IN  answer' = [Nothing EXCEPT !.start = Anchored(begins, case.anchor),
                                     !.end = Anchored(begins + 1, case.anchor), !.outcome = "ok"]
    /\ UNCHANGED case

Next == LoadAuthKey \/ Probe \/ ReadApi \/ LoadHistory \/ MonthBounds

Spec == Init /\ [][Next]_vars

----------------------------------------------------------------------------
Done(kind) == case.kind = kind /\ answer # Nothing

\* After the import a logout in the database is a logout: the file, which still
\* holds the old key, is not read, nor when the database cannot be read.
LogoutHolds ==
    Done("key") /\ answer.from = "file"
    => case.database \notin {"imported", "unreadable"}

\* A database that cannot be read is not told as a missing login.
UnreadableIsNotLogout ==
    Done("key") /\ case.database = "unreadable" /\ ~case.configured /\ case.inline = "none"
    => answer.outcome = "unavailable"

\* A key that the API refuses is told: neither an estimate nor the web stands in.
RefusalTold ==
    Done("probe") /\ case.key /\ case.source \in {"auto", "api"} /\ case.api # "ok" => answer.outcome = "failed"

\* Local mode asks no one, and the others only who was selected.
SourceKept ==
    Done("probe") =>
        /\ case.source = "local" => answer.asked = {}
        /\ case.source = "web" => answer.asked \subseteq {"web"}
        /\ case.source = "api" => answer.asked \subseteq {"api"}

\* An estimate of the windows counts on every price; a web that fails leaves it.
EstimateSound ==
    Done("probe") /\ answer.outcome = "estimate" =>
        ("Session" \in answer.lines) <=> (case.history = "priced")

\* A quota of the API that cannot be read fails the answer, which never shows only
\* the windows that could.
NoPartialQuota ==
    Done("api") => ((answer.outcome = "failed") <=> "invalid" \in {case.rolling, case.weekly, case.monthly}
                                                    \/ case.rolling = "none")

\* A message that both tables hold is spent once.
SpentOnce ==
    Done("history") =>
        \A i, j \in DOMAIN answer.rows :
            i # j => answer.rows[i].id = "" \/ answer.rows[i].id # answer.rows[j].id

\* Until the reset that is told nothing leaves the session, and right after it
\* the oldest row has left.
ResetFreesOldest ==
    Done("history") /\ Session(answer.rows, Now) # {} =>
        /\ \A t \in Now..answer.reset : Session(answer.rows, Now) \subseteq Session(answer.rows, t)
        /\ ~(Session(answer.rows, Now) \subseteq Session(answer.rows, answer.reset + 1))

\* The anchored month holds the moment, whatever day and month it is anchored at.
MonthHoldsNow == Done("month") => answer.start <= case.now /\ case.now < answer.end
=============================================================================
