----------------------------- MODULE MuseActions ----------------------------
(***************************************************************************)
(* Refreshes of muse.ai (src/plugins/museai/plugin.js on the adapter       *)
(* bundled_provider.js): the subscription is read through a server action  *)
(* whose identifier is new with every deploy of the site. It is found in   *)
(* the site's chunks, kept for the next refresh, and given up when the site *)
(* does not know it any more. Deploys and the end of the session fall      *)
(* between any two requests.                                               *)
(***************************************************************************)
EXTENDS Integers

CONSTANTS
  MaxDeploys,    \* bound of the model: deploys of the site
  MaxSignOuts,   \* bound of the model: times the session is ended
  None

MuseAssumption ==
  /\ MaxDeploys \in Nat /\ MaxSignOuts \in Nat
  /\ None \notin {"usage", "expired", "no session", "not found", "failed"}

Action  == 0..MaxDeploys + 1           \* the deploy it belongs to; the last: of no deploy
Step    == {"idle", "post", "discover", "repost"}
Outcome == {None, "usage", "expired", "no session", "not found", "failed"}

VARIABLES
  deployed,       \* the site: its deploy
  signedIn,       \* the site: whether it takes the session's cookie
  cookie,         \* the adapter has a session to offer
  stored,         \* storage: actionID
  pc, actionID, posts, told,   \* the refresh under way, what the last one told
  signOuts,
  proven,         \* history: the actions with which a subscription was read
  refused         \* history: the site refused the session in this refresh

siteVars == <<deployed, signedIn, cookie, signOuts>>
vars == <<deployed, signedIn, cookie, stored, pc, actionID, posts, told, signOuts, proven, refused>>

TypeOK ==
  /\ deployed \in 0..MaxDeploys /\ signedIn \in BOOLEAN /\ cookie \in BOOLEAN
  /\ stored \in Action \cup {None} /\ actionID \in Action \cup {None}
  /\ pc \in Step /\ posts \in 0..2 /\ told \in Outcome
  /\ signOuts \in 0..MaxSignOuts /\ proven \subseteq Action /\ refused \in BOOLEAN

Init ==
  /\ deployed = 0 /\ signedIn \in BOOLEAN /\ cookie \in BOOLEAN
  /\ stored = None /\ actionID = None /\ pc = "idle" /\ posts = 0 /\ told = None
  /\ signOuts = 0 /\ proven = {} /\ refused = FALSE

Tells(outcome) == told' = outcome /\ pc' = "idle"

-----------------------------------------------------------------------------
(* The site *)

Deploy ==
  /\ deployed < MaxDeploys /\ deployed' = deployed + 1
  /\ UNCHANGED <<signedIn, cookie, stored, pc, actionID, posts, told, signOuts, proven, refused>>

SignOut ==
  /\ signedIn /\ signOuts < MaxSignOuts
  /\ signedIn' = FALSE /\ signOuts' = signOuts + 1
  /\ UNCHANGED <<deployed, cookie, stored, pc, actionID, posts, told, proven, refused>>

(* The user signs in, and gives the adapter the cookie of the new session.   *)
SignIn ==
  /\ ~signedIn /\ pc = "idle"
  /\ signedIn' = TRUE /\ cookie' = TRUE
  /\ UNCHANGED <<deployed, stored, pc, actionID, posts, told, signOuts, proven, refused>>

-----------------------------------------------------------------------------
(* A refresh *)

(* Without a cookie there is no session to try.                              *)
Begin ==
  /\ pc = "idle"
  /\ actionID' = stored /\ posts' = 0 /\ refused' = FALSE
  /\ IF cookie
     THEN pc' = (IF stored = None THEN "discover" ELSE "post") /\ told' = None
     ELSE Tells("no session")
  /\ UNCHANGED <<siteVars, stored, proven>>

(* Where both are so, either may show in the answer.                         *)
SignedOut == ~signedIn
Stale(action) == action # deployed

(* The session that was configured is the only one.                          *)
Reject == Tells("expired") /\ refused' = TRUE

(* (mutant: an action the site does not know ends the session, and stays)    *)
PostStaleRejects ==
  /\ pc = "post" /\ posts' = posts + 1
  /\ \/ SignedOut /\ Reject /\ UNCHANGED <<stored, proven>>
     \/ /\ ~SignedOut /\ Stale(actionID)
        /\ Tells("expired") /\ UNCHANGED <<stored, proven, refused>>
     \/ /\ ~SignedOut /\ ~Stale(actionID)
        /\ Tells("usage") /\ stored' = actionID /\ proven' = proven \cup {actionID}
        /\ UNCHANGED refused
     \/ Tells("failed") /\ UNCHANGED <<stored, proven, refused>>
  /\ UNCHANGED <<siteVars, actionID>>

(* The stored action, with any other answer of the site told as a failure.   *)
Post ==
  /\ pc = "post" /\ posts' = posts + 1
  /\ \/ SignedOut /\ Reject /\ UNCHANGED <<stored, proven>>
     \/ /\ Stale(actionID)
        /\ stored' = None /\ pc' = "discover" /\ UNCHANGED <<told, proven, refused>>
     \/ /\ ~SignedOut /\ ~Stale(actionID)
        /\ Tells("usage") /\ stored' = actionID /\ proven' = proven \cup {actionID}
        /\ UNCHANGED refused
     \/ Tells("failed") /\ UNCHANGED <<stored, proven, refused>>
  /\ UNCHANGED <<siteVars, actionID>>

(* The page, then its chunks: the action of the deploy that serves them, or   *)
(* none.                                                                     *)
Discover ==
  /\ pc = "discover"
  /\ \/ SignedOut /\ Reject /\ UNCHANGED actionID
     \/ /\ ~SignedOut /\ actionID' = deployed /\ pc' = "repost"
        /\ UNCHANGED <<told, refused>>
     \/ /\ \E outcome \in {"not found", "failed"} : Tells(outcome)
        /\ UNCHANGED <<actionID, refused>>
  /\ UNCHANGED <<siteVars, stored, posts, proven>>

(* (mutant: a new action the site does not know is looked for once more)     *)
RepostAgain ==
  /\ pc = "repost" /\ posts' = posts + 1
  /\ \/ SignedOut /\ Reject /\ UNCHANGED <<stored, proven>>
     \/ Stale(actionID) /\ pc' = "discover" /\ UNCHANGED <<told, stored, proven, refused>>
     \/ /\ ~SignedOut /\ ~Stale(actionID)
        /\ Tells("usage") /\ stored' = actionID /\ proven' = proven \cup {actionID}
        /\ UNCHANGED refused
     \/ Tells("failed") /\ UNCHANGED <<stored, proven, refused>>
  /\ UNCHANGED <<siteVars, actionID>>

(* The action found: a deploy in between is told, not chased.                *)
Repost ==
  /\ pc = "repost" /\ posts' = posts + 1
  /\ \/ SignedOut /\ Reject /\ UNCHANGED <<stored, proven>>
     \/ Stale(actionID) /\ Tells("not found") /\ UNCHANGED <<stored, proven, refused>>
     \/ /\ ~SignedOut /\ ~Stale(actionID)
        /\ Tells("usage") /\ stored' = actionID /\ proven' = proven \cup {actionID}
        /\ UNCHANGED refused
     \/ Tells("failed") /\ UNCHANGED <<stored, proven, refused>>
  /\ UNCHANGED <<siteVars, actionID>>

-----------------------------------------------------------------------------

Next == Deploy \/ SignOut \/ SignIn \/ Begin \/ Post \/ Discover \/ Repost

(* The poller refreshes again and again, a refresh ends within its budget of *)
(* requests, and a site that is asked forever answers each kind of request   *)
(* in the end.                                                               *)
Fairness ==
  /\ WF_vars(Begin \/ Post \/ Discover \/ Repost)
  /\ SF_vars(Post /\ told' # "failed")
  /\ SF_vars(Discover /\ pc' = "repost")
  /\ SF_vars(Repost /\ told' # "failed")

Spec == Init /\ [][Next]_vars /\ Fairness

-----------------------------------------------------------------------------
(* What the refreshes promise *)

(* Only an action with which a subscription was read is kept for the next    *)
(* refresh: none that was merely found.                                      *)
KeptWasProven == stored # None => stored \in proven

(* At most two attempts: a site that is being deployed is not chased with    *)
(* requests.                                                                 *)
AttemptsBounded == posts = 2 => pc = "idle"

(* The user is sent to sign in again only when the site refused the session; *)
(* an action the site does not know any more says nothing of it.             *)
ExpiredWasRefused == told = "expired" => refused

(* Whoever stays signed in comes to read the subscription, again and again:  *)
(* no action of an older deploy stays in the way for ever.                   *)
StaysIn == signedIn /\ cookie
Read == told = "usage"
=============================================================================
