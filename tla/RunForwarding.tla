---------------------------- MODULE RunForwarding ----------------------------
(***************************************************************************)
(* Run-usage ingestion and forwarding                                       *)
(* (crates/ai-usage-daemon/src/run_usage.rs over RunUsageStore): the HTTP   *)
(* handlers of one daemon, its forwarding worker, the network between the   *)
(* worker and the backends it may be configured for, those backends (each   *)
(* another usagestatd, so another RunUsageStore), the clock, and crashes,   *)
(* restarts and reconfigurations of the daemon.                             *)
(*                                                                         *)
(* The store mutex makes every handler and each half of forward_once one    *)
(* step; deliver() runs between the two halves with the mutex released.     *)
(***************************************************************************)
EXTENDS RunUsageStore

CONSTANTS
  Client,        \* ingestion credentials
  Permits,       \* Client -> SUBSET Record, the records its bindings cover
  Target,        \* forwarding destinations
  Config,        \* the configurations the daemon may be started with
  PeerPolicy,    \* Target -> Policy, the destinations' own store policies
  Skew,          \* Target -> Int, a destination's clock minus this one
  MaxTime,       \* bound of the model: the clock stops here
  MaxCrashes,    \* bound of the model: how often the daemon stops
  NoTarget, Down, NoJob, NoAnswer

ASSUME ForwardingAssumption ==
  /\ Permits \in [Client -> SUBSET Record]
  /\ Config \subseteq [forward: Target \cup {NoTarget}, policy: Policy]
  /\ PeerPolicy \in [Target -> Policy]
  /\ Skew \in [Target -> Int]
  /\ MaxTime \in Nat /\ MaxCrashes \in Nat
  /\ NoTarget \notin Target /\ Down \notin Config

VARIABLES
  now,           \* Utc::now() of the daemon
  rows,          \* its run_usage table
  bound,         \* run_usage_config.forward_target
  config,        \* the running daemon's configuration, or Down
  pc,            \* where the forwarding worker is
  job,           \* the StoredRun forward_once fetched
  answer,        \* what deliver() has learnt so far
  strays,        \* requests whose sender gave up, still on their way
  peer,          \* Target -> the destination's run_usage table
  crashes,
  \* history
  issued,        \* receipts computed: [at, record, expires]
  acceptedFor    \* Key -> the target in force when its row was inserted

daemonVars == <<rows, bound, config>>
workerVars == <<pc, job, answer>>
peerVars   == <<peer, strays>>
vars == <<now, rows, bound, config, pc, job, answer, strays, peer, crashes,
          issued, acceptedFor>>

Here == NoTarget     \* where the daemon's own receipts are issued

RefusalStatus == {"conflict", "expired", "capacity", "invalid", "forbidden",
                  "unavailable", "requestTimeout", "garbled"}
ReceiptStatus == {"accepted", "duplicate"}

Job     == [record: Record, attempts: Nat]
Reply   == [status: RefusalStatus \cup ReceiptStatus, expires: Int]
Verdict == [delivery: {"pending", "delivered", "failed"},
            error: ErrorCode \cup {NoError}]
Receipt == [at: Target \cup {Here}, record: Record, expires: Int]
Request == [to: Target, record: Record]

TypeOK ==
  /\ now \in Nat
  /\ rows \in Store
  /\ bound \in Target \cup {NoTarget}
  /\ config \in Config \cup {Down}
  /\ pc \in {"idle", "sending", "replied", "judged"}
  /\ pc = "idle" => job = NoJob
  /\ pc # "idle" => job \in Job /\ config # Down /\ config.forward # NoTarget
  /\ pc \in {"idle", "sending"} => answer = NoAnswer
  /\ pc = "replied" => answer \in Reply
  /\ pc = "judged" => answer \in Verdict
  /\ strays \subseteq Request
  /\ peer \in [Target -> Store]
  /\ crashes \in Nat
  /\ issued \subseteq Receipt
  /\ acceptedFor \in [Key -> Target \cup {NoTarget}]

Init ==
  /\ now = 0
  /\ rows = EmptyStore /\ bound = NoTarget /\ config = Down
  /\ pc = "idle" /\ job = NoJob /\ answer = NoAnswer
  /\ strays = {} /\ peer = [t \in Target |-> EmptyStore]
  /\ crashes = 0
  /\ issued = {} /\ acceptedFor = [k \in Key |-> NoTarget]

Up == config # Down
Forwarding == Up /\ config.forward # NoTarget
PeerNow(t) == now + Skew[t]

-----------------------------------------------------------------------------
(* Starting and stopping *)

(* RunUsageApi::load: purge, then bind the destination when one is          *)
(* configured.  A TargetConflict leaves the purge and fails the start.      *)
Start(c) ==
  /\ ~Up
  /\ rows' = Purged(rows, now)
  /\ IF c.forward = NoTarget
     THEN bound' = bound /\ config' = c
     ELSE IF /\ bound # NoTarget /\ bound # c.forward
             /\ Undelivered(Purged(rows, now)) # {}
     THEN bound' = bound /\ config' = Down
     ELSE bound' = c.forward /\ config' = c
  /\ UNCHANGED <<now, workerVars, peerVars, crashes, issued, acceptedFor>>

(* The process stops anywhere, a request it was sending goes on or is lost. *)
Crash ==
  /\ Up /\ crashes < MaxCrashes
  /\ crashes' = crashes + 1
  /\ config' = Down
  /\ pc' = "idle" /\ job' = NoJob /\ answer' = NoAnswer
  /\ \/ strays' = strays
     \/ pc = "sending" /\ strays' = strays \cup {[to |-> config.forward, record |-> job.record]}
  /\ UNCHANGED <<now, rows, bound, peer, issued, acceptedFor>>

Tick ==
  /\ now < MaxTime
  /\ now' = now + 1
  /\ UNCHANGED <<daemonVars, workerVars, peerVars, crashes, issued, acceptedFor>>

-----------------------------------------------------------------------------
(* HTTP handlers *)

(* POST /v1/run-usage: permits, then accept under the store mutex. *)
Post(c, r) ==
  LET status == AcceptStatus(rows, config.policy, r, now)
  IN  /\ Up /\ r \in Permits[c]
      /\ rows' = AfterAccept(rows, config.policy, r, now, Forwarding)
      /\ issued' = IF status \in ReceiptStatus
                   THEN issued \cup {[at |-> Here, record |-> r,
                                      expires |-> ReceiptExpiry(rows, config.policy, r, now)]}
                   ELSE issued
      /\ acceptedFor' = IF status = "accepted"
                        THEN [acceptedFor EXCEPT ![KeyOf[r]] = config.forward]
                        ELSE acceptedFor
      /\ UNCHANGED <<now, bound, config, workerVars, peerVars, crashes>>

(* GET /v1/run-usage/{host}/{event}: get purges before it reads. *)
Lookup ==
  /\ Up
  /\ rows' = Purged(rows, now)
  /\ UNCHANGED <<now, bound, config, workerVars, peerVars, crashes, issued, acceptedFor>>

(* POST .../retry: get, permits on the stored record, then retry_failed. *)
Retry(c, k) ==
  LET kept == Purged(rows, now)
  IN  /\ Forwarding
      /\ rows' = IF CanRetry(kept, k) /\ kept[k].record \in Permits[c]
                 THEN AfterRetry(kept, k) ELSE kept
      /\ UNCHANGED <<now, bound, config, workerVars, peerVars, crashes, issued, acceptedFor>>

-----------------------------------------------------------------------------
(* The worker of RunUsageApi::start *)

(* mutant: nothing is purged without a destination *)
HousekeepNothing == Up /\ ~Forwarding /\ UNCHANGED vars

(* Without a destination the loop body only purges. *)
Housekeep ==
  /\ Up /\ ~Forwarding
  /\ rows' = Purged(rows, now)
  /\ UNCHANGED <<now, bound, config, workerVars, peerVars, crashes, issued, acceptedFor>>

(* forward_once up to the release of the mutex. *)
Fetch ==
  LET kept == Purged(rows, now)
      next == NextPending(kept, now)
  IN  /\ Forwarding /\ pc = "idle"
      /\ rows' = kept
      /\ \/ next = {} /\ UNCHANGED workerVars
         \/ \E k \in next :
              /\ pc' = "sending"
              /\ job' = [record |-> kept[k].record, attempts |-> kept[k].attempts]
              /\ answer' = answer
      /\ UNCHANGED <<now, bound, config, peerVars, crashes, issued, acceptedFor>>

(* deliver(): no answer within timeout_ms, or a connection error: NETWORK.  *)
GiveUp ==
  /\ pc \in {"sending", "replied"}
  /\ pc' = "judged"
  /\ answer' = [delivery |-> "pending", error |-> "NETWORK"]
  /\ \/ strays' = strays
     \/ pc = "sending" /\ strays' = strays \cup {[to |-> config.forward, record |-> job.record]}
  /\ UNCHANGED <<now, daemonVars, job, peer, crashes, issued, acceptedFor>>

(* deliver(): 200 or 201 with a receipt for this host and event; it must    *)
(* not have expired by the daemon's clock.                                  *)
JudgeReceipt ==
  /\ pc = "replied" /\ answer.status \in ReceiptStatus
  /\ pc' = "judged"
  /\ answer' = IF answer.expires > now
               THEN [delivery |-> "delivered", error |-> NoError]
               ELSE [delivery |-> "failed", error |-> "PROTOCOL"]
  /\ UNCHANGED <<now, daemonVars, job, peerVars, crashes, issued, acceptedFor>>

Retryable == {"capacity", "unavailable", "requestTimeout"}     \* 429, 5xx, 408
CodeOf(status) ==
  CASE status = "forbidden"   -> "AUTHORIZATION"
    [] status = "conflict"    -> "EVENT_CONFLICT"
    [] status = "expired"     -> "EVENT_EXPIRED"
    [] status = "capacity"    -> "STORE_CAPACITY"
    [] status = "unavailable" -> "BACKEND_UNAVAILABLE"
    [] OTHER                  -> "PROTOCOL"

(* mutant: a 409 or 410 counts as delivered, there is nothing left to send *)
JudgeRefusalAsDone ==
  /\ pc = "replied" /\ answer.status \in RefusalStatus
  /\ pc' = "judged"
  /\ answer' = [delivery |-> IF answer.status \in {"conflict", "expired"}
                             THEN "delivered" ELSE "pending",
                error |-> NoError]
  /\ UNCHANGED <<now, daemonVars, job, peerVars, crashes, issued, acceptedFor>>

(* deliver(): any other status, or a 200 whose body is no receipt. *)
JudgeRefusal ==
  /\ pc = "replied" /\ answer.status \in RefusalStatus
  /\ pc' = "judged"
  /\ answer' = [delivery |-> IF answer.status \in Retryable THEN "pending" ELSE "failed",
                error |-> CodeOf(answer.status)]
  /\ UNCHANGED <<now, daemonVars, job, peerVars, crashes, issued, acceptedFor>>

(* 1 << attempts.min(6), at most 60 seconds. *)
Backoff(attempts) ==
  <<1, 2, 4, 8, 16, 32, 60>>[IF attempts < 6 THEN attempts + 1 ELSE 7]

(* forward_once once it holds the mutex again: delivery_result. *)
RecordResult ==
  /\ pc = "judged"
  /\ rows' = AfterDelivery(rows, KeyOf[job.record], answer.delivery, answer.error,
                           now + Backoff(job.attempts))
  /\ pc' = "idle" /\ job' = NoJob /\ answer' = NoAnswer
  /\ UNCHANGED <<now, bound, config, peerVars, crashes, issued, acceptedFor>>

(* delivery_result fails (disk full, busy): only a warning is logged, the   *)
(* row stays pending and due.                                               *)
ResultLost ==
  /\ pc = "judged"
  /\ pc' = "idle" /\ job' = NoJob /\ answer' = NoAnswer
  /\ UNCHANGED <<now, daemonVars, peerVars, crashes, issued, acceptedFor>>

-----------------------------------------------------------------------------
(* The destinations and the network *)

PeerStatus(t, r) == AcceptStatus(peer[t], PeerPolicy[t], r, PeerNow(t))
PeerExpiry(t, r) == ReceiptExpiry(peer[t], PeerPolicy[t], r, PeerNow(t))

(* A destination's accept of r, whoever sent it. *)
PeerAccepts(t, r) ==
  /\ peer' = [peer EXCEPT ![t] = AfterAccept(peer[t], PeerPolicy[t], r, PeerNow(t), FALSE)]
  /\ issued' = IF PeerStatus(t, r) \in ReceiptStatus
               THEN issued \cup {[at |-> t, record |-> r, expires |-> PeerExpiry(t, r)]}
               ELSE issued

(* The worker's request arrives and is answered. *)
Arrive ==
  /\ pc = "sending"
  /\ PeerAccepts(config.forward, job.record)
  /\ pc' = "replied"
  /\ answer' = [status |-> PeerStatus(config.forward, job.record),
                expires |-> IF PeerStatus(config.forward, job.record) \in ReceiptStatus
                            THEN PeerExpiry(config.forward, job.record) ELSE 0]
  /\ UNCHANGED <<now, daemonVars, job, strays, crashes, acceptedFor>>

(* The destination or its reverse proxy answers without reaching the store, *)
(* or after it: a gateway error may replace the receipt of a commit.        *)
Refuse ==
  /\ pc \in {"sending", "replied"}
  /\ \E status \in {"forbidden", "unavailable", "requestTimeout", "garbled"} :
       answer' = [status |-> status, expires |-> 0]
  /\ pc' = "replied"
  /\ UNCHANGED <<now, daemonVars, job, peerVars, crashes, issued, acceptedFor>>

(* An abandoned request arrives; others like it may still be on their way.  *)
StrayArrives(m) ==
  /\ m \in strays
  /\ PeerAccepts(m.to, m.record)
  /\ strays' \in {strays, strays \ {m}}
  /\ UNCHANGED <<now, daemonVars, workerVars, crashes, acceptedFor>>

(* A client posts straight to a destination. *)
PeerPost(t, r) ==
  /\ PeerAccepts(t, r)
  /\ UNCHANGED <<now, daemonVars, workerVars, strays, crashes, acceptedFor>>

(* The destination's own worker purges. *)
PeerHousekeep(t) ==
  /\ peer' = [peer EXCEPT ![t] = Purged(peer[t], PeerNow(t))]
  /\ UNCHANGED <<now, daemonVars, workerVars, strays, crashes, issued, acceptedFor>>

-----------------------------------------------------------------------------
Handlers ==
  \/ \E c \in Client, r \in Record : Post(c, r)
  \/ \E c \in Client, k \in Key : Retry(c, k)
  \/ Lookup

Worker ==
  Housekeep \/ Fetch \/ GiveUp \/ JudgeReceipt \/ JudgeRefusal \/ RecordResult \/ ResultLost

Network ==
  \/ Arrive
  \/ Refuse
  \/ \E m \in strays : StrayArrives(m)
  \/ \E t \in Target, r \in Record : PeerPost(t, r)
  \/ \E t \in Target : PeerHousekeep(t)

Next == (\E c \in Config : Start(c)) \/ Crash \/ Tick \/ Handlers \/ Worker \/ Network

Spec == Init /\ [][Next]_vars

(* The worker thread keeps looping, its HTTP client times out, the clock    *)
(* advances, and the service manager restarts the daemon.                   *)
WorkerFairness ==
  /\ WF_vars(Tick)
  /\ WF_vars(\E c \in Config : Start(c))
  /\ WF_vars(Housekeep) /\ WF_vars(Fetch) /\ WF_vars(GiveUp)
  /\ SF_vars(RecordResult)

(* A network that lets a request, and an answer other than a temporary      *)
(* refusal, through now and then, and a disk that does not fail every time  *)
(* there is a final result to record.                                       *)
Conclude == (JudgeReceipt \/ JudgeRefusal) /\ answer'.delivery # "pending"
Settle == pc = "judged" /\ answer.delivery # "pending" /\ RecordResult
NetworkFairness == SF_vars(Arrive) /\ SF_vars(Conclude) /\ SF_vars(Settle)

FairSpec == Spec /\ WorkerFairness

-----------------------------------------------------------------------------
(* Properties *)

(* "A receipt is sent only after the local SQLite commit completes": until  *)
(* the millisecond of the expiry a receipt names, the daemon's table holds  *)
(* that very record, to expire within that millisecond, whatever is posted, *)
(* retried, delivered or restarted meanwhile.                               *)
ReceiptIsDurable ==
  \A i \in issued : i.at = Here /\ now < Stored(i.expires) =>
    Holds(rows, i.record) /\ rows[KeyOf[i.record]].expires \in Stored(i.expires)..i.expires

(* The same promise of the backends the receipts of which deliver trusts.   *)
PeerReceiptIsDurable ==
  \A i \in issued : i.at # Here /\ PeerNow(i.at) < Stored(i.expires) =>
    /\ Holds(peer[i.at], i.record)
    /\ peer[i.at][KeyOf[i.record]].expires \in Stored(i.expires)..i.expires

(* docs/run-ingestion.md: "Delivery is marked delivered only after a valid  *)
(* peer receipt acknowledges that exact host and event", by the target the  *)
(* row was accepted for, however answers, timeouts, stray copies, purges    *)
(* and restarts interleave.                                                 *)
DeliveredIsAcknowledged ==
  \A k \in Key : rows[k] # NoRow /\ rows[k].delivery = "delivered" =>
    \E i \in issued : i.at = acceptedFor[k] /\ i.at # Here /\ KeyOf[i.record] = k

(* The same for the content: a delivered row's record, not another one under*)
(* its identity, is what the destination acknowledged.                      *)
DeliveredRecordIsAcknowledged ==
  \A k \in Key : rows[k] # NoRow /\ rows[k].delivery = "delivered" =>
    \E i \in issued : i.at = acceptedFor[k] /\ i.at # Here /\ i.record = rows[k].record

(* bind_forward_target: "A changed destination cannot silently redirect     *)
(* records accepted for another backend."  What waits, has failed or is     *)
(* being sent belongs to the bound destination, and that is the one the     *)
(* running worker sends to.                                                 *)
NoRedirection ==
  /\ \A k \in Undelivered(rows) : acceptedFor[k] = bound
  /\ Forwarding => config.forward = bound
  /\ pc # "idle" => acceptedFor[KeyOf[job.record]] = config.forward

(* "A full store rejects new events without evicting retained events":      *)
(* a row leaves the table only once it has expired, and only an accept      *)
(* within the policy's limits adds one.                                     *)
OnlyExpiryErases ==
  [][/\ \A k \in Held(rows) \ Held(rows') : rows[k].expires <= now
     /\ Held(rows') \ Held(rows) # {} =>
          /\ Cardinality(Held(rows')) <= config.policy.maxRecords
          /\ Bytes(rows') <= config.policy.maxBytes]_vars

(* "Ordinary duplicate ingestion does not restart permanent failures": a    *)
(* failed row that is still retained changes only by the retry of a client  *)
(* whose bindings cover it.                                                 *)
FailureIsSticky ==
  [][\A k \in Held(rows) :
       rows[k].delivery = "failed" /\ rows[k].expires > now /\ rows'[k] # rows[k] =>
         \E c \in Client : rows[k].record \in Permits[c] /\ Retry(c, k)]_vars

(* The daemon implements the outbox it documents: its rows are the entries, *)
(* the receipts destinations have issued are the acknowledgements.          *)
OutboxEntry(row) ==
  IF row = NoRow THEN NoRow
  ELSE [record |-> row.record, until |-> row.expires, state |-> row.delivery]

ASSUME OutboxAssumption == NoRow \notin [record: Record, until: Int, state: Delivery]

Entries(store) == [k \in Key |-> OutboxEntry(store[k])]

PeerAcks == {<<i.at, KeyOf[i.record]>> : i \in {j \in issued : j.at # Here}}

Promise == INSTANCE RunOutbox WITH
  Nothing <- NoRow, clock <- now, entry <- Entries(rows), acks <- PeerAcks

ImplementsOutbox == Promise!Outbox

(* "Pending events expire too": an expired row is erased, forwarding or not,*)
(* destination reachable or not.                                            *)
ExpiredIsErased ==
  \A k \in Key : (rows[k] # NoRow /\ rows[k].expires <= now)
                   ~> ~(rows[k] # NoRow /\ rows[k].expires <= now)

(* With a network and a disk that work now and then, a pending record of a  *)
(* daemon that keeps forwarding is settled: acknowledged, refused for good  *)
(* or expired, whatever answers were lost and however rows overtake each    *)
(* other.  Requires that the operator does not requeue refused rows for     *)
(* ever: a requeued row is due at time 0, before every row that backs off.  *)
OperatorRests ==
  <>[][~(\E c \in Client, k \in Key : Retry(c, k) /\ CanRetry(rows, k))]_vars
PendingIsSettled ==
  NetworkFairness /\ OperatorRests /\ <>[]Forwarding =>
    \A k \in Key : (rows[k] # NoRow /\ rows[k].delivery = "pending")
                     ~> ~(rows[k] # NoRow /\ rows[k].delivery = "pending")
=============================================================================
