--------------------------- MODULE ClaudeRequests ---------------------------
(***************************************************************************)
(* The requests of the Claude provider that come in sequences, and what    *)
(* becomes of them when one fails: the organizations of a claude.ai        *)
(* session, one after the other until one grants its usage (fetchWebUsage  *)
(* of src/plugins/claude/plugin.js), and the pages of the Admin API's two  *)
(* reports (fetchClaudeAdminReport), followed by the usage history of the  *)
(* local logs when no report could be had.  The servers answer anything.   *)
(***************************************************************************)
EXTENDS Naturals, Sequences, FiniteSets

CONSTANTS
    Orgs,      \* the organizations a session may list, or "unnamed" ones
    MaxOrgs,   \* bound on their number
    Cursors,   \* the cursors the server may give
    MaxPages   \* ADMIN_MAX_PAGES

\* The first page of a report is asked for without a cursor.
RequestsAssumption == MaxPages \in Nat \ {0} /\ MaxOrgs \in Nat /\ "first" \notin Cursors

VARIABLES
    mode,      \* "auto" or "api"
    phase,
    orgs,      \* organizations still to be asked
    refused,   \* statuses of those that refused, in order
    usage,     \* the organization whose usage is shown
    report,    \* the Admin report that is being read
    pages,     \* the pages got, of each report
    seen,      \* cursors given, of this report
    cursor,    \* the one to ask for
    history    \* what the usage history shown and saved comes from

vars == <<mode, phase, orgs, refused, usage, report, pages, seen, cursor, history>>
web == <<orgs, refused, usage>>
admin == <<report, pages, seen, cursor>>

Reports == {"cost_report", "messages"}
Ended == {"shown", "thrown"}

TypeOK ==
    /\ mode \in {"auto", "api", "web"}
    /\ phase \in {"organizations", "usage", "account", "page", "logs"} \cup Ended
    /\ refused \in Seq({401, 403}) /\ Len(refused) <= MaxOrgs
    /\ usage \in Orgs \cup {"none"}
    /\ pages \in [Reports -> Seq(Cursors \cup {"first"})]
    /\ seen \subseteq Cursors /\ cursor \in Cursors \cup {"first"}
    /\ history \in SUBSET {"admin", "logs"}

Init ==
    /\ mode \in {"auto", "api", "web"}
    /\ phase = IF mode = "api" THEN "page" ELSE "organizations"
    /\ orgs = <<>> /\ refused = <<>> /\ usage = "none"
    /\ report = "cost_report" /\ pages = [r \in Reports |-> <<>>]
    /\ seen = {} /\ cursor = "first"
    /\ history = {}

Go(p) == phase' = p /\ UNCHANGED mode

\* The auto mode goes on to the history, with an Admin key or without.
AfterQuota == IF mode = "auto" THEN {"page", "logs"} ELSE {"logs"}

----------------------------------------------------------------------------
(* fetchWebUsage.                                                          *)

\* A 403 with a Cloudflare challenge and a 429 throw as every other failure.
ListOrganizations ==
    /\ phase = "organizations"
    /\ \/ \E n \in 1..MaxOrgs, named \in [1..MaxOrgs -> Orgs \cup {"unnamed"}] :
              orgs' = SelectSeq(SubSeq(named, 1, n), LAMBDA o : o # "unnamed") /\ Go("usage")
       \/ Go("thrown") /\ UNCHANGED orgs
    /\ UNCHANGED <<refused, usage, admin, history>>

\* (mutant: the first organization decides)
AskFirstOrganization ==
    /\ phase = "usage" /\ orgs # <<>>
    /\ orgs' = Tail(orgs)
    /\ \/ usage' = Head(orgs) /\ Go("account") /\ UNCHANGED refused
       \/ \E s \in {401, 403} : refused' = Append(refused, s) /\ Go("thrown") /\ UNCHANGED usage
    /\ UNCHANGED <<admin, history>>

\* An organization that refuses is passed over; any other failure is final.
AskOrganization ==
    /\ phase = "usage" /\ orgs # <<>>
    /\ orgs' = Tail(orgs)
    /\ \/ usage' = Head(orgs) /\ Go("account") /\ UNCHANGED refused
       \/ \E s \in {401, 403} : /\ refused' = Append(refused, s)
                                /\ UNCHANGED <<mode, phase, usage>>
       \/ Go("thrown") /\ UNCHANGED <<refused, usage>>
    /\ UNCHANGED <<admin, history>>

\* None granted it: the last refusal is the reason given.
NoOrganization ==
    /\ phase = "usage" /\ orgs = <<>>
    /\ Go("thrown")
    /\ UNCHANGED <<web, admin, history>>

\* Of the account only the plan's name is taken: its failure is none.
AskAccount ==
    /\ phase = "account"
    /\ \E p \in AfterQuota : Go(p)
    /\ UNCHANGED <<web, admin, history>>

----------------------------------------------------------------------------
(* fetchClaudeAdminUsage: one report, then the other.                      *)

\* The report is refused, invalid, broken off, or its cursors go wrong: the
\* api mode fails; the auto mode goes on to the local logs.
ReportFails ==
    /\ phase = "page"
    /\ Go(IF mode = "api" THEN "thrown" ELSE "logs")
    /\ UNCHANGED <<web, admin, history>>

\* (mutant: what was got of the first report is shown)
LastPageOfAny ==
    /\ phase = "page"
    /\ pages' = [pages EXCEPT ![report] = Append(@, cursor)]
    /\ history' = {"admin"}
    /\ Go("shown")
    /\ UNCHANGED <<web, report, seen, cursor>>

\* has_more is false: the report is complete.  The costs without a message are
\* shown, a report without a day is not (appendUsageDailyLines).
LastPage ==
    /\ phase = "page"
    /\ pages' = [pages EXCEPT ![report] = Append(@, cursor)]
    /\ IF report = "cost_report"
       THEN /\ report' = "messages" /\ seen' = {} /\ cursor' = "first"
            /\ UNCHANGED <<mode, phase, history>>
       ELSE /\ \/ history' = {"admin"} /\ Go("shown")
               \/ UNCHANGED history /\ Go(IF mode = "api" THEN "shown" ELSE "logs")
            /\ UNCHANGED <<report, seen, cursor>>
    /\ UNCHANGED web

\* (mutant: as many pages as the server names, the same one too)
NextPageUnbounded(c) ==
    /\ phase = "page"
    /\ pages' = [pages EXCEPT ![report] = IF cursor \in {@[i] : i \in DOMAIN @} THEN @
                                          ELSE Append(@, cursor)]
    /\ cursor' = c /\ seen' = seen \cup {c}
    /\ UNCHANGED <<mode, phase, web, report, history>>

\* has_more is true: the next cursor, unless it has been given before or the
\* report is longer than MaxPages.  (A missing one makes ReportFails.)
NextPage(c) ==
    /\ phase = "page"
    /\ pages' = [pages EXCEPT ![report] = Append(@, cursor)]
    /\ IF c \in seen \/ Len(pages[report]) + 1 >= MaxPages
       THEN Go(IF mode = "api" THEN "thrown" ELSE "logs") /\ UNCHANGED <<seen, cursor>>
       ELSE cursor' = c /\ seen' = seen \cup {c} /\ UNCHANGED <<mode, phase>>
    /\ UNCHANGED <<web, report, history>>

\* queryTokenUsage: its failure is only logged.
ReadLogs ==
    /\ phase = "logs"
    /\ history' \in {{"logs"}, {}}
    /\ Go("shown")
    /\ UNCHANGED <<web, admin>>

Next ==
    \/ ListOrganizations \/ AskOrganization \/ NoOrganization \/ AskAccount
    \/ ReportFails \/ LastPage \/ (\E c \in Cursors : NextPage(c))
    \/ ReadLogs

Spec == Init /\ [][Next]_vars /\ WF_vars(Next)

----------------------------------------------------------------------------
(* Properties.                                                             *)

\* An answer of the server that names pages for ever does not hold the probe:
\* every sequence of requests ends.
Probing == phase \notin Ended

\* No page is counted twice: within a report every cursor is asked for once
\* ("pagination cursor repeated").
NoPageTwice ==
    \A r \in Reports : \A i, j \in DOMAIN pages[r] :
        pages[r][i] = pages[r][j] => i = j

\* What is shown of the Admin API is both reports: the amounts of a page are
\* not shown while another report failed.
WholeReportsOnly ==
    "admin" \in history => \A r \in Reports : pages[r] # <<>>

\* The usage history comes from the Admin API or from the logs, never from
\* both: the same tokens would be shown twice.
OneHistory == Cardinality(history) <= 1

\* A session with several organizations shows the first that grants its usage:
\* the refusal of one, 401 or 403, does not end the search.
RefusalIsNotFinal == refused' # refused => phase' = "usage"
=============================================================================
