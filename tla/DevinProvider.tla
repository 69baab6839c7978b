---------------------------- MODULE DevinProvider ----------------------------
(***************************************************************************)
(* Devin (src/plugins/devin/plugin.js): which account a probe asks, and    *)
(* what it makes of the quotas that come back.  A login lies in the CLI's  *)
(* credential file or in the database of one of the IDEs, or is configured *)
(* for the web; settings select one of them, and an account that was not   *)
(* selected must never be asked.  The quotas are remaining percentages     *)
(* that a Proto3 answer leaves out when they are 0.                        *)
(***************************************************************************)
EXTENDS Integers, FiniteSets

CONSTANTS
    Ides,      \* the IDE installations
    Accounts,  \* positive numbers; 0 is no login
    Percents   \* the percentages that are told

VARIABLES case, answer

vars == <<case, answer>>

Logins == Accounts \cup {0}

\* Environment variables are a value, empty, or unset.
Overrides == {"set", "empty", "unset"}

SelectionCases ==
    [kind : {"select"}, mode : {"auto", "web", "local"},
     authSource : {"unset", "auto", "cli", "ide", "manual", "other"},
     credentialsPath : BOOLEAN, ideVariant : Ides \cup {"unset"}, userDataDir : BOOLEAN,
     cookie : BOOLEAN, cookieSource : {"unset", "off", "manual"}, bearer : Overrides,
     cli : Logins, ide : [Ides -> Logins]]

WebCases == [kind : {"web"}, internal : BOOLEAN, status : [1..2 -> {200, 401, 404, 500}]]

Told == Percents \cup {-1}  \* -1: left out

QuotaCases ==
    [kind : {"quota"}, hidden : BOOLEAN, daily : Told, weekly : Told,
     dailyReset : BOOLEAN, weeklyReset : BOOLEAN, balance : BOOLEAN]

\* A window of which so many percent are used, and the forms it may be told in.
WindowCases == [kind : {"window"}, value : Percents]
Forms == {"used percent", "used fraction", "remaining percent", "limit and used",
          "limit and remaining"}

Nothing == [asked |-> {}, tried |-> <<>>, outcome |-> "none", lines |-> {}, used |-> [f \in Forms |-> -1]]

TypeOK ==
    /\ answer.asked \subseteq {"web", "cli"} \cup Ides
    /\ answer.outcome \in {"none", "refused", "select", "log in", "ask", "shown", "denied",
                           "failed", "not found", "no quota"}
    /\ answer.used \in [Forms -> -1..100]

Init ==
    /\ case \in SelectionCases \cup WebCases \cup QuotaCases \cup WindowCases
    /\ answer = Nothing

----------------------------------------------------------------------------
(* Which account is asked.                                                 *)

Manual(c) ==
    \/ c.mode = "web" \/ c.authSource = "manual" \/ c.cookieSource = "manual"
    \/ c.mode = "auto" /\ c.authSource = "unset" /\ c.cookieSource = "unset" /\ c.cookie

Local(c) == c.credentialsPath \/ c.ideVariant # "unset" \/ c.userDataDir

\* The variable overrides the configured token, empty or not.
Bearer(c) == IF c.bearer = "unset" THEN c.cookie ELSE c.bearer = "set"

Web(c, local) ==
    IF c.mode = "local" \/ (c.cookieSource # "off"
                            /\ (Local(c) \/ c.authSource \notin {"unset", "auto", "manual"}))
    THEN [Nothing EXCEPT !.outcome = "refused"]
    ELSE IF c.cookieSource = "off" \/ ~Bearer(c) THEN [Nothing EXCEPT !.outcome = "log in"]
    ELSE [Nothing EXCEPT !.asked = {"web"}, !.outcome = "ask"]

Source(c) ==
    IF c.authSource # "unset" THEN c.authSource
    ELSE IF c.credentialsPath THEN "cli"
    ELSE IF c.ideVariant # "unset" \/ c.userDataDir THEN "ide"
    ELSE "auto"

\* A selected credential file is the CLI's, a selected variant or directory an IDE's.
Contradicts(c) ==
    \/ Source(c) \notin {"auto", "cli", "ide"}
    \/ c.credentialsPath /\ Source(c) # "cli"
    \/ (c.ideVariant # "unset" \/ c.userDataDir) /\ Source(c) # "ide"
    \/ c.userDataDir /\ c.ideVariant = "unset"

Searched(c) ==
    (IF Source(c) # "ide" THEN {"cli"} ELSE {})
    \cup (IF Source(c) = "cli" THEN {}
          ELSE IF c.ideVariant # "unset" THEN {c.ideVariant} ELSE Ides)

LoginIn(c, place) == IF place = "cli" THEN c.cli ELSE c.ide[place]

\* (mutant: of several accounts the first is asked)
AmbiguousNever(accounts) == FALSE

\* The same credentials in two installations are one account.
Ambiguous(accounts) == Cardinality(accounts) > 1

Stored(c) ==
    LET places == {p \in Searched(c) : LoginIn(c, p) # 0}
        accounts == {LoginIn(c, p) : p \in places}
    IN  IF Contradicts(c) THEN [Nothing EXCEPT !.outcome = "refused"]
        ELSE IF Ambiguous(accounts) THEN [Nothing EXCEPT !.outcome = "select"]
        ELSE IF places = {} THEN [Nothing EXCEPT !.outcome = "log in"]
        ELSE LET first == CHOOSE a \in accounts : TRUE
             IN  [Nothing EXCEPT !.asked = {p \in places : LoginIn(c, p) = first}, !.outcome = "ask"]

Select ==
    /\ case.kind = "select" /\ answer = Nothing
    /\ answer' = IF Manual(case) THEN Web(case, Stored(case)) ELSE Stored(case)
    /\ UNCHANGED case

----------------------------------------------------------------------------
(* The web's two routes to one organization.                               *)

OtherRoute(status) == status \in {404, 405}

Routed(status) ==
    CASE status = 200 -> "shown" [] status \in {401, 403} -> "denied"
      [] status \in {404, 405} -> "not found" [] OTHER -> "failed"

AskWeb ==
    /\ case.kind = "web" /\ answer = Nothing
    /\ LET last == IF OtherRoute(case.status[1]) THEN 2 ELSE 1 IN
       answer' = [Nothing EXCEPT
           !.tried = [i \in 1..last |-> IF (i = 1) = case.internal THEN "id" ELSE "path"],
           !.outcome = Routed(case.status[last])]
    /\ UNCHANGED case

----------------------------------------------------------------------------
(* The quotas.                                                             *)

Clamped(n) == IF n < 0 THEN 0 ELSE IF n > 100 THEN 100 ELSE n

\* "a reset identifies the exhausted window".
WeeklyRemaining(c) == IF c.weekly = -1 /\ c.weeklyReset THEN 0 ELSE c.weekly

DailyLine(c) ==
    IF c.hidden \/ c.daily = -1 THEN {} ELSE {<<"Daily", Clamped(100 - c.daily)>>}

\* With the daily quota hidden its percentage is the weekly one's, and is one used.
WeeklyLine(c) ==
    IF WeeklyRemaining(c) # -1 THEN {<<"Weekly", Clamped(100 - WeeklyRemaining(c))>>}
    ELSE IF c.hidden /\ c.daily # -1 THEN {<<"Weekly", Clamped(c.daily)>>}
    ELSE {}

ReadQuota ==
    /\ case.kind = "quota" /\ answer = Nothing
    /\ LET lines == DailyLine(case) \cup WeeklyLine(case)
                    \cup IF case.balance THEN {<<"Balance", 0>>} ELSE {}
       IN  answer' = [Nothing EXCEPT !.lines = lines,
                                     !.outcome = IF lines = {} THEN "no quota" ELSE "shown"]
    /\ UNCHANGED case

\* What a number means as a percentage, in hundredths: 1 and less is a fraction.
Percent(hundredths) == IF hundredths <= 100 THEN hundredths ELSE hundredths \div 100

\* The limit of the window is 100.
Used(form, value) ==
    CASE form = "used percent" -> Percent(100 * value)
      [] form = "used fraction" -> Percent(value)
      [] form = "remaining percent" -> 100 - Percent(100 * (100 - value))
      [] form = "limit and used" -> value
      [] form = "limit and remaining" -> 100 - (100 - value)

ReadWindow ==
    /\ case.kind = "window" /\ answer = Nothing
    /\ answer' = [Nothing EXCEPT !.used = [f \in Forms |-> Used(f, case.value)], !.outcome = "shown"]
    /\ UNCHANGED case

Next == Select \/ AskWeb \/ ReadQuota \/ ReadWindow

Spec == Init /\ [][Next]_vars

----------------------------------------------------------------------------
Done(kind) == case.kind = kind /\ answer # Nothing

\* "Different accounts found in CLI/IDE installations require selection": what is
\* asked is one account, and never beside another that was searched.
OneAccountAsked ==
    Done("select") /\ answer.asked \cap Ides # {} =>
        \A p \in Searched(case) : LoginIn(case, p) \in {0} \cup {LoginIn(case, q) : q \in answer.asked}

\* What was selected is what is asked: a web login never gives way to a local
\* one, a credential file never to an IDE, nor one IDE to another.
SelectionKept ==
    Done("select") =>
        /\ Manual(case) => answer.asked \subseteq {"web"}
        /\ case.credentialsPath => answer.asked \subseteq {"cli"}
        /\ case.ideVariant # "unset" => answer.asked \subseteq {case.ideVariant}
        /\ case.mode = "local" => "web" \notin answer.asked

\* "An explicitly empty override stops authentication instead of selecting the
\* configured value".
EmptyOverrideStops ==
    Done("select") /\ Manual(case) /\ case.bearer = "empty" => answer.asked = {}

\* "only missing routes permit retry".
RejectionEnds ==
    Done("web") /\ (\E i \in DOMAIN answer.tried : case.status[i] \in {401, 403, 500})
    => answer.outcome \in {"denied", "failed"}

\* "Proto3 omits a zero remaining percentage": an exhausted week is full, and a
\* quota about which nothing was told is not shown.
ExhaustedWeekShown ==
    Done("quota") =>
        /\ case.weekly = -1 /\ case.weeklyReset => <<"Weekly", 100>> \in answer.lines
        /\ case.weekly = -1 /\ case.daily = -1 /\ ~case.weeklyReset
           => answer.lines \subseteq {<<"Balance", 0>>}

\* One use of a window is read alike from every form it may be told in, but for 1 %
\* used or left, which cannot be told from a fraction.
FormsAgree ==
    Done("window") /\ case.value \notin {1, 99} => \A f \in Forms : answer.used[f] = case.value
=============================================================================
