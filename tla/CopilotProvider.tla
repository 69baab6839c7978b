--------------------------- MODULE CopilotProvider ---------------------------
(***************************************************************************)
(* GitHub Copilot (src/plugins/copilot/plugin.js).  The token is the       *)
(* environment's, one the provider kept, or gh's; a token of gh's that     *)
(* worked is kept in the keychain and in a file, and a kept token that is  *)
(* rejected is dropped.  What the account answers is paid quotas, the      *)
(* limits of the free tier or an organization's credits, and budgets may   *)
(* be added from the web.                                                  *)
(*                                                                         *)
(* A token is the number under which GitHub issued it.                     *)
(***************************************************************************)
EXTENDS Naturals, FiniteSets

CONSTANTS
    MaxTokens,  \* bound on the tokens issued
    MaxTold,    \* bound on what an account's answer tells
    MaxPages    \* the pages of budgets that are read, 20 in the code

CopilotAssumption == MaxTokens \in Nat \ {0} /\ MaxTold \in Nat \ {0} /\ MaxPages \in Nat \ {0}

VARIABLES
    store,    \* store[s]: the token found in a source, 0 for none
    good,     \* the tokens GitHub accepts
    issued,
    settled,  \* from now on nobody signs in and nothing fails
    probe

vars == <<store, good, issued, settled, probe>>

Sources == {"env", "keychain", "gh", "gh command", "file"}
Order == <<"env", "keychain", "gh", "gh command", "file">>

\* What an account may answer: each paid quota, whether the free tier's limits and the
\* billing by token are told, and whether credits, which are asked of such an account
\* only, were used.
Quotas == {"metered", "unlimited", "absent"}
AnyUsage == [credits : Quotas, chat : Quotas \ {"unlimited"}, completions : Quotas \ {"unlimited"},
             free : BOOLEAN, billed : BOOLEAN, used : BOOLEAN]
Told(usage) == {k \in {"credits", "chat", "completions"} : usage[k] # "absent"}
               \cup {k \in {"free", "billed"} : usage[k]}
Usages == {usage \in AnyUsage : (usage.used => usage.billed) /\ Cardinality(Told(usage)) <= MaxTold}
NoUsage == [credits |-> "absent", chat |-> "absent", completions |-> "absent",
            free |-> FALSE, billed |-> FALSE, used |-> FALSE]

Idle == [phase |-> "idle", source |-> "none", token |-> 0, lines |-> {}, usage |-> NoUsage,
         page |-> 0]

Phases == {"idle", "ask", "fallback", "keep", "read", "organization", "budgets", "shown", "failed"}
\* The meters of the paid quotas and of the free tier, and the lines of text.
Paid == {"Credits", "Chat", "Completions"}
Labels == Paid \cup {"Free Chat", "Credits as text", "Org Credits", "Budget", "No usage data"}

TypeOK ==
    /\ store \in [Sources -> 0..issued] /\ good \subseteq 1..issued /\ issued <= MaxTokens
    /\ probe.phase \in Phases /\ probe.token \in 0..issued
    /\ probe.lines \subseteq Labels /\ probe.page \in 0..MaxPages

Init ==
    /\ store = [s \in Sources |-> 0] /\ good = {} /\ issued = 0
    /\ settled = FALSE
    /\ probe = Idle

----------------------------------------------------------------------------
(* The user, gh and GitHub.                                                *)

\* gh keeps its token in the keychain or in a place that its command reads.
SignIn(s) ==
    /\ ~settled /\ issued < MaxTokens
    /\ issued' = issued + 1 /\ good' = good \cup {issued + 1}
    /\ store' = [store EXCEPT ![s] = issued + 1]
    /\ UNCHANGED <<settled, probe>>

SignOut(s) ==
    /\ ~settled
    /\ store' = [store EXCEPT ![s] = 0]
    /\ UNCHANGED <<good, issued, settled, probe>>

Revoke(t) ==
    /\ ~settled /\ t \in good
    /\ good' = good \ {t}
    /\ UNCHANGED <<store, issued, settled, probe>>

Settle == ~settled /\ settled' = TRUE /\ UNCHANGED <<store, good, issued, probe>>

Die ==
    /\ ~settled /\ probe.phase \notin {"idle", "shown", "failed"}
    /\ probe' = Idle
    /\ UNCHANGED <<store, good, issued, settled>>

Fallible(works) == settled => works

----------------------------------------------------------------------------
(* The token.                                                              *)

Goes(local) == probe' = local /\ UNCHANGED <<store, good, issued, settled>>
Failed == [Idle EXCEPT !.phase = "failed", !.lines = probe.lines]

First(sources) ==
    LET found == {i \in DOMAIN Order : Order[i] \in sources /\ store[Order[i]] # 0} IN
    IF found = {} THEN "none" ELSE Order[CHOOSE i \in found : \A j \in found : i <= j]

Begin ==
    /\ probe.phase = "idle"
    /\ LET s == First(Sources) IN
       Goes(IF s = "none" THEN [Idle EXCEPT !.phase = "failed"]
            ELSE [Idle EXCEPT !.phase = "ask", !.source = s, !.token = store[s]])

Leave == probe.phase \in {"shown", "failed"} /\ Goes(Idle)

\* The token goes from the keychain, if it can be deleted, and from the file.
Cleared(deletes, writes) ==
    [store EXCEPT !["keychain"] = IF deletes THEN 0 ELSE @, !["file"] = IF writes THEN 0 ELSE @]

\* (mutant: any failure drops the kept token)
ClearsOn(status) == status # "ok"

\* 401 and 403, not an outage.
Clears(status) == status = "rejected"

Statuses(token) == IF token \in good THEN {"ok"} \cup (IF settled THEN {} ELSE {"down"})
                   ELSE {"rejected"} \cup (IF settled THEN {} ELSE {"down"})

Reading == [Idle EXCEPT !.phase = "read"]
Answered == IF probe.source \in {"gh", "gh command"} THEN [probe EXCEPT !.phase = "keep"] ELSE Reading

\* A kept token that is rejected is dropped, and gh's keychain is asked for another.
Ask(status, deletes, writes) ==
    /\ probe.phase = "ask" /\ status \in Statuses(probe.token)
    /\ Fallible(deletes /\ writes)
    /\ IF status = "ok" THEN Goes(Answered)
       ELSE IF probe.source = "keychain" /\ Clears(status)
       THEN /\ store' = Cleared(deletes, writes)
            /\ probe' = IF store["gh"] # 0
                        THEN [probe EXCEPT !.phase = "fallback", !.token = store["gh"],
                                                             !.source = "gh"]
                        ELSE Failed
            /\ UNCHANGED <<good, issued, settled>>
       ELSE Goes(Failed)

AskFallback(status) ==
    /\ probe.phase = "fallback" /\ status \in Statuses(probe.token)
    /\ Goes(IF status = "ok" THEN Answered ELSE Failed)

\* A token of gh's that worked is kept; a write that fails is only logged.
Keep(keychain, file) ==
    /\ probe.phase = "keep" /\ Fallible(keychain /\ file)
    /\ store' = [store EXCEPT !["keychain"] = IF keychain THEN probe.token ELSE @,
                              !["file"] = IF file THEN probe.token ELSE @]
    /\ probe' = Reading
    /\ UNCHANGED <<good, issued, settled>>

----------------------------------------------------------------------------
(* What the account answers.                                               *)

\* (mutant: the limits of the free tier are added to the paid quotas)
FreeLinesToo(usage, paid) == IF usage.free THEN {"Free Chat"} ELSE {}

FreeLines(usage, paid) == IF usage.free /\ paid = {} THEN {"Free Chat"} ELSE {}

Metered(usage, kinds) ==
    (IF usage.credits \in kinds THEN {"Credits"} ELSE {})
    \cup (IF usage.chat \in kinds THEN {"Chat"} ELSE {})
    \cup (IF usage.completions \in kinds THEN {"Completions"} ELSE {})

PaidLines(usage) ==
    Metered(usage, {"metered"})

\* A 2xx that is no JSON: the probe fails, and the token stays kept.
Unreadable == probe.phase = "read" /\ Fallible(FALSE) /\ Goes(Failed)

\* An organization's credits stand in only for an account without lines.
Read(usage) ==
    /\ probe.phase = "read"
    /\ LET paid == PaidLines(usage)
           lines == paid \cup FreeLines(usage, paid)
       IN  Goes([probe EXCEPT !.usage = usage, !.lines = lines, !.page = 1,
                              !.phase = IF lines = {} /\ usage.billed THEN "organization" ELSE "budgets"])

\* The account's own credits, if it used any, and up to five organizations' in three
\* seconds, whose failure is only logged.
AskOrganizations(told) ==
    /\ probe.phase = "organization"
    /\ Goes([probe EXCEPT !.phase = "budgets",
                          !.lines = @ \cup (IF probe.usage.used THEN {"Credits as text"} ELSE {})
                                      \cup (IF told THEN {"Org Credits"} ELSE {})])

\* A page that is not JSON, not 2xx or not signed in fails.
Pages == {"ok", "fails"}

Complete(lines) == IF lines = {} THEN {"No usage data"} ELSE lines

\* The budgets are lost as a whole, the lines are not.
Show(lines) == Goes([probe EXCEPT !.phase = "shown", !.lines = Complete(lines), !.page = 0])
WithoutBudgets == Show(probe.lines \ {"Budget"})

\* copilot: the page has a budget of Copilot's.  more: another page is announced.
AskBudgets(page, copilot, more) ==
    /\ probe.phase = "budgets"
    /\ LET lines == probe.lines \cup IF copilot THEN {"Budget"} ELSE {} IN
       IF page = "fails" THEN WithoutBudgets
       ELSE IF more /\ probe.page < MaxPages
       THEN Goes([probe EXCEPT !.page = @ + 1, !.lines = lines])
       ELSE Show(lines)

\* Without a cookie for the web there is no request.
NoBudgets == probe.phase = "budgets" /\ probe.page = 1 /\ WithoutBudgets

ProbeStep ==
    \/ Leave \/ NoBudgets \/ Unreadable
    \/ \E status \in {"ok", "rejected", "down"} :
           \/ AskFallback(status)
           \/ \E deletes \in BOOLEAN, writes \in BOOLEAN : Ask(status, deletes, writes)
    \/ \E keychain \in BOOLEAN, file \in BOOLEAN : Keep(keychain, file)
    \/ \E usage \in Usages : Read(usage)
    \/ \E b \in BOOLEAN : AskOrganizations(b)
    \/ \E page \in Pages, copilot \in BOOLEAN, more \in BOOLEAN :
           AskBudgets(page, copilot, more)

Next ==
    \/ Begin \/ ProbeStep \/ Die \/ Settle
    \/ \E s \in {"env", "gh", "gh command"} : SignIn(s) \/ SignOut(s)
    \/ \E t \in 1..MaxTokens : Revoke(t)

\* Every request has a timeout, and the daemon polls.
Spec == Init /\ [][Next]_vars /\ WF_vars(Begin \/ ProbeStep)

----------------------------------------------------------------------------
\* A token the provider kept is dropped when GitHub rejected it, never because
\* GitHub could not be reached.
OnlyRejectedDropped ==
    \A s \in {"keychain", "file"} :
        store[s] # 0 /\ store'[s] = 0 => probe.token \notin good

\* After `gh auth login` the provider works again: the token it kept, once
\* rejected, does not stand before gh's for ever.
SignedIn ==
    /\ settled /\ store["env"] = 0 /\ {store["gh"], store["gh command"]} \ {0} \subseteq good
    /\ store["gh"] # 0 \/ store["gh command"] # 0
Shown == probe.phase = "shown"

\* A quota without a limit has no meter, one with a limit has; the free tier's meter and
\* an organization's lines are those of an account without paid ones; and the credits of
\* an account billed by token are told as text exactly where no meter tells them.
Meters == Paid \cup {"Free Chat"}
QuotasTold ==
    probe.phase = "shown" =>
        /\ "Credits" \in probe.lines <=> probe.usage.credits = "metered"
        /\ "Chat" \in probe.lines <=> probe.usage.chat = "metered"
        /\ "Completions" \in probe.lines <=> probe.usage.completions = "metered"
        /\ "Free Chat" \in probe.lines <=> probe.usage.free /\ probe.lines \cap Paid = {}
        /\ "Credits as text" \in probe.lines
           <=> probe.usage.billed /\ probe.usage.used /\ probe.lines \cap Meters = {}
        /\ "Org Credits" \in probe.lines
           => probe.usage.billed /\ probe.lines \cap Meters = {}

\* The optional requests lose no line: what failed is the token or the usage.
ExtrasLoseNothing ==
    probe.phase = "failed" => probe.lines = {}
=============================================================================
