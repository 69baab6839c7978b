--------------------------- MODULE OAuthProviders ---------------------------
(***************************************************************************)
(* The providers that keep the login of another program alive: gemini,     *)
(* factory, grok, kiro and antigravity-cli under src/plugins.  A probe     *)
(* reads the whole credential file (or keychain item), refreshes a token   *)
(* that is about to expire, asks for the quota, refreshes once more when   *)
(* it is rejected, and writes the whole file back, while its owner signs   *)
(* in at any step.  The five differ in what a failed refresh means, which  *)
(* is what their rules record; the rest is one machine.                    *)
(*                                                                         *)
(* A token is the number under which it was issued.                        *)
(***************************************************************************)
EXTENDS Naturals, FiniteSets

CONSTANTS
    Names,     \* the providers checked
    Accounts,
    MaxTokens  \* bound on the tokens issued

OAuthAssumption == MaxTokens \in Nat \ {0}

VARIABLES
    name,     \* the provider
    file,     \* file[e]: what its credential file holds
    valid,    \* refresh tokens the server accepts
    revoked,  \* those it withdrew
    aging,    \* access tokens within the refresh window
    expired,  \* and past their expiry
    issued,
    probe,
    \* history
    raced,    \* the owner wrote the file while the probe ran
    lost      \* a rotation whose answer, or whose probe, was lost

vars == <<name, file, valid, revoked, aging, expired, issued, probe, raced, lost>>
server == <<valid, revoked, issued>>
clock == <<aging, expired>>

\* entries: logins the file holds.  partial: a login without an access token is
\* used.  rejected: what a refused refresh may do.  thrown, nothing: what a
\* refresh that threw, or gave nothing, means ahead of time.  requests: quota
\* requests that are repeated after a refresh.  reread: the store is read again.
Gemini ==
    [entries |-> 1, partial |-> TRUE, rejected |-> {"thrown", "nothing"},
     thrown |-> "fail", nothing |-> "use", requests |-> 2, reread |-> FALSE]
Factory ==
    [entries |-> 1, partial |-> FALSE, rejected |-> {"thrown"},
     thrown |-> "if valid", nothing |-> "use", requests |-> 1, reread |-> FALSE]
Grok ==
    [entries |-> 2, partial |-> FALSE, rejected |-> {"nothing"},
     thrown |-> "fail", nothing |-> "if valid", requests |-> 1, reread |-> FALSE]
Kiro ==
    [entries |-> 1, partial |-> TRUE, rejected |-> {"thrown", "nothing"},
     thrown |-> "fail", nothing |-> "use", requests |-> 1, reread |-> FALSE]
AntigravityCli ==
    [entries |-> 1, partial |-> TRUE, rejected |-> {"nothing"},
     thrown |-> "fail", nothing |-> "fail", requests |-> 2, reread |-> TRUE]

Rule ==
    CASE name = "gemini" -> Gemini
      [] name = "factory" -> Factory
      [] name = "grok" -> Grok
      [] name = "kiro" -> Kiro
      [] name = "antigravity-cli" -> AntigravityCli

Entries == 1..Rule.entries
Absent == [access |-> 0, refresh |-> 0, account |-> "none"]
Login == [access : 0..MaxTokens, refresh : 0..MaxTokens, account : Accounts \cup {"none"}]

Idle == [phase |-> "idle", entry |-> 0, read |-> [e \in Entries |-> Absent], token |-> 0,
         request |-> 0, repeated |-> FALSE, refreshes |-> 0, told |-> {}, began |-> "none"]

TypeOK ==
    /\ file \in [Entries -> Login]
    /\ valid \cup revoked \cup aging \cup expired \subseteq 1..issued
    /\ issued <= MaxTokens
    /\ probe.phase \in {"idle", "choose", "ahead", "ask", "again", "shown", "failed"}
    /\ probe.read \in [Entries -> Login]
    /\ probe.told \subseteq Accounts

Init ==
    /\ name \in Names
    /\ file = [e \in Entries |-> Absent]
    /\ valid = {} /\ revoked = {} /\ aging = {} /\ expired = {} /\ issued = 0
    /\ probe = Idle
    /\ raced = FALSE /\ lost = FALSE

----------------------------------------------------------------------------
(* The owner of the login, the server, time, the end of a process.         *)

SignIn(e, account, partial) ==
    /\ issued < MaxTokens
    /\ issued' = issued + 1
    /\ valid' = valid \cup {issued + 1}
    /\ file' = [file EXCEPT ![e] = [access |-> IF partial THEN 0 ELSE issued + 1,
                                    refresh |-> issued + 1, account |-> account]]
    /\ raced' = (probe.phase # "idle")
    /\ UNCHANGED <<name, revoked, clock, probe, lost>>

\* Of a token nobody holds any more it makes no difference.
Held(field) == {file[e][field] : e \in Entries} \cup {probe.read[e][field] : e \in Entries}

Revoke(t) ==
    /\ t \in valid \cap Held("refresh")
    /\ valid' = valid \ {t} /\ revoked' = revoked \cup {t}
    /\ UNCHANGED <<name, file, issued, clock, probe, raced, lost>>

Pass(t) ==
    /\ t \in (1..issued \cap Held("access")) \ expired
    /\ IF t \in aging THEN expired' = expired \cup {t} /\ UNCHANGED aging
       ELSE aging' = aging \cup {t} /\ UNCHANGED expired
    /\ UNCHANGED <<name, file, server, probe, raced, lost>>

Die ==
    /\ probe.phase \notin {"idle", "shown", "failed"}
    /\ probe' = Idle
    /\ UNCHANGED <<name, file, server, clock, raced, lost>>

----------------------------------------------------------------------------
(* Reading the login.                                                      *)

Goes(local) ==
    /\ probe' = local
    /\ UNCHANGED <<name, file, server, clock, raced, lost>>

Begin ==
    /\ probe.phase = "idle"
    /\ probe' = [Idle EXCEPT !.phase = "choose", !.entry = 1, !.read = file]
    /\ raced' = FALSE
    /\ UNCHANGED <<name, file, server, clock, lost>>

Leave ==
    /\ probe.phase \in {"shown", "failed"}
    /\ Goes(Idle)

Failed == [probe EXCEPT !.phase = "failed"]
Mine == probe.read[probe.entry]

NextEntry == IF probe.entry < Rule.entries THEN [probe EXCEPT !.phase = "choose", !.entry = @ + 1]
             ELSE Failed

Asks(local, token) ==
    [local EXCEPT !.phase = "ask", !.token = token,
                  !.request = IF @ = 0 THEN 1 ELSE @,
                  !.began = IF @ = "none" THEN Mine.account ELSE @]

\* loadAuth: a login without an access token is refreshed, passed over or refused.
Choose ==
    /\ probe.phase = "choose"
    /\ Goes(IF Mine.access = 0 /\ (~Rule.partial \/ Mine.refresh = 0) THEN NextEntry
            ELSE IF Mine.access = 0 \/ Mine.access \in aging
            THEN [probe EXCEPT !.phase = "ahead"]
            ELSE Asks(probe, Mine.access))

----------------------------------------------------------------------------
(* refreshToken and what follows it.                                       *)

Refreshing == probe.phase \in {"ahead", "again"}

\* After a rejection there is no other token; ahead of time the one at hand may do.
Without(rule, outcome) ==
    LET means == IF outcome = "thrown" THEN rule.thrown ELSE rule.nothing IN
    IF probe.phase = "again" THEN Failed
    ELSE IF means = "use" /\ Mine.access # 0 THEN Asks(probe, Mine.access)
    ELSE IF means = "if valid" /\ Mine.access \notin expired THEN Asks(probe, Mine.access)
    ELSE IF means = "if valid" THEN NextEntry
    ELSE Failed

Counted(local) == [local EXCEPT !.refreshes = @ + 1]

RefreshRejected(outcome) ==
    /\ Refreshing
    /\ Mine.refresh \notin valid /\ outcome \in Rule.rejected
    /\ Goes(Counted(Without(Rule, outcome)))

RefreshFails ==
    /\ Refreshing
    /\ Goes(Counted(Without(Rule, "nothing")))

\* (mutant: the file is written with the refreshed login alone)
SavedAlone(read) == file' = [e \in Entries |-> IF e = probe.entry THEN read[e] ELSE Absent]

\* The whole file as it was read, with the new tokens: what its owner wrote in
\* between is overwritten.  A write that fails is only logged.
Saved(read) == file' = read

\* The answer may name a new refresh token, in place of the old one.
Renewed(login, new, rotates) ==
    [login EXCEPT !.access = new, !.refresh = IF rotates THEN new ELSE @]

\* antigravity-cli keeps the refresh token: Google's do not rotate.
Refresh(rotates, arrives, writes) ==
    /\ Refreshing
    /\ Mine.refresh \in valid /\ issued < MaxTokens
    /\ rotates => name # "antigravity-cli"
    /\ issued' = issued + 1
    /\ valid' = IF rotates THEN (valid \ {Mine.refresh}) \cup {issued + 1} ELSE valid
    /\ lost' = (lost \/ (rotates /\ ~(arrives /\ writes)))
    /\ IF arrives
       THEN LET read == [probe.read EXCEPT ![probe.entry] = Renewed(@, issued + 1, rotates)]
            IN  /\ probe' = Counted(Asks([probe EXCEPT !.read = read], issued + 1))
                /\ IF writes THEN Saved(read) ELSE UNCHANGED file
       ELSE probe' = Counted(Without(Rule, "nothing")) /\ UNCHANGED file
    /\ UNCHANGED <<name, revoked, clock, raced>>

----------------------------------------------------------------------------
(* The quota requests.                                                     *)

\* A token counts for the account it was issued to.
Account == Mine.account

\* (mutant: a repeated request may be repeated again)
RejectedAgain ==
    /\ probe.phase = "ask"
    /\ Goes([probe EXCEPT !.phase = "again"])

\* 401 (and 403 but for antigravity-cli): one refresh for each request, or, there,
\* for the probe, with the login the store holds by then.
Rejected ==
    /\ probe.phase = "ask"
    /\ Goes(IF probe.repeated THEN Failed
            ELSE [probe EXCEPT !.phase = "again", !.repeated = TRUE,
                               !.read = IF Rule.reread THEN file ELSE @])

Answered ==
    /\ probe.phase = "ask" /\ probe.token \notin expired
    /\ LET told == [probe EXCEPT !.told = @ \cup {Account}] IN
       Goes(IF probe.request < Rule.requests
            THEN [told EXCEPT !.request = @ + 1, !.repeated = Rule.reread /\ @]
            ELSE [told EXCEPT !.phase = "shown"])

AnswerFails == probe.phase = "ask" /\ Goes(Failed)

ProbeStep ==
    \/ Leave \/ Choose \/ RefreshFails \/ Rejected \/ Answered \/ AnswerFails
    \/ \E outcome \in {"thrown", "nothing"} : RefreshRejected(outcome)
    \/ \E rotates \in BOOLEAN, arrives \in BOOLEAN, writes \in BOOLEAN :
           Refresh(rotates, arrives, writes)

Next ==
    \/ Begin \/ ProbeStep \/ Die
    \/ \E e \in Entries, a \in Accounts, p \in BOOLEAN : SignIn(e, a, p)
    \/ \E t \in 1..MaxTokens : Revoke(t) \/ Pass(t)

\* Every request of a probe has a timeout.
Spec == Init /\ [][Next]_vars /\ WF_vars(ProbeStep)

----------------------------------------------------------------------------
\* What the file holds can still be used, unless the server withdrew it, or an
\* answer or a write was lost, or the owner wrote while the probe ran.
LoginKept ==
    probe.phase = "idle" /\ ~lost /\ ~raced
    => \A e \in Entries : file[e].refresh \in valid \cup revoked \cup {0}

\* A probe writes the login it refreshed: another in the same file, and whose
\* login it is, stay as they were, unless the owner wrote in between.
OthersKept ==
    probe # probe' /\ ~raced' =>
        \A e \in Entries :
            /\ file'[e].account = file[e].account
            /\ e # probe.entry => file'[e] = file[e]

\* What one probe shows is one account's, the one whose login it began with.
\* antigravity-cli is the exception: it reads the store again between requests.
OneAccount == ~Rule.reread => probe.told \subseteq {probe.began}

\* A login that is still good is not given up because it could not be renewed
\* early: factory ("access token is still valid, trying existing token") and
\* grok ("Grok refresh failed, trying existing access token").
GoodTokenTried ==
    name \in {"factory", "grok"} /\ probe.phase = "failed" /\ probe.request = 0
    => \A e \in Entries : probe.read[e].access # 0 => probe.read[e].access \in expired

\* One refresh of each login ahead of time and one for each request.
RefreshesBounded == probe.refreshes <= Rule.entries + Rule.requests

\* A probe that began comes to its end.
Probing == probe.phase # "idle"
=============================================================================
