---------------------------- MODULE RunUsageStore ----------------------------
(***************************************************************************)
(* The SQLite table of crates/ai-usage-core/src/run_usage.rs: what each     *)
(* method of RunUsageStore returns and what it leaves in the table.         *)
(*                                                                         *)
(* A store is a function from primary keys to rows.  Every method runs in   *)
(* one SQLite transaction, or under the daemon's Mutex<RunUsageStore> when  *)
(* it issues several statements, so it is one function of the table here.   *)
(* A daemon and the backend it forwards to run the same code: the modules   *)
(* that compose daemons apply these operators to several tables.            *)
(***************************************************************************)
EXTENDS Integers, FiniteSets, FiniteSetsExt

CONSTANTS
  Record,        \* the payloads that pass RunUsageRecord::validate; a payload
                 \* stands for its SHA-256 digest
  Key,           \* the (host_id, event_id) pairs
  KeyOf,         \* Record -> Key
  EventRank,     \* Key -> Nat, the order of event_id in ORDER BY
  FinishedAt,    \* Record -> Nat
  ExpiresAt,     \* Record -> Nat, or NoExpiry when the record carries none
  Size,          \* Record -> Nat, payload bytes
  FutureSlack,   \* how far in the future finished_at may lie (five minutes)
  AttemptLimit,  \* where the attempts column saturates (u32::MAX)
  Millisecond,   \* ticks of the clock in a millisecond
  Horizon,       \* bound of the model: a retry is never scheduled later
  NoExpiry, NoRow, NoError

ASSUME RecordAssumption ==
  /\ KeyOf \in [Record -> Key]
  /\ EventRank \in [Key -> Nat]
  /\ FinishedAt \in [Record -> Nat]
  /\ ExpiresAt \in [Record -> Nat \cup {NoExpiry}]
  /\ Size \in [Record -> Nat]
  /\ FutureSlack \in Nat
  /\ AttemptLimit \in Nat
  /\ Millisecond \in Nat \ {0}
  /\ Horizon \in Nat
  /\ NoExpiry \notin Nat

Delivery == {"pending", "delivered", "failed", "local"}

ErrorCode == {"NETWORK", "BACKEND_UNAVAILABLE", "STORE_CAPACITY", "AUTHORIZATION",
              "EVENT_CONFLICT", "EVENT_EXPIRED", "PROTOCOL"}

Row == [record: Record, expires: Int, delivery: Delivery, attempts: Nat,
        retryAt: Nat, error: ErrorCode \cup {NoError}]

ASSUME NullAssumption == NoRow \notin Row /\ NoError \notin ErrorCode

Store == [Key -> Row \cup {NoRow}]

Policy == [retention: Nat, maxRecords: Nat, maxBytes: Nat]

EmptyStore == [k \in Key |-> NoRow]

Held(store) == {k \in Key : store[k] # NoRow}

Holds(store, r) == store[KeyOf[r]] # NoRow /\ store[KeyOf[r]].record = r

Bytes(store) == MapThenSumSet(LAMBDA k : Size[store[k].record], Held(store))

-----------------------------------------------------------------------------
(* timestamp_millis: what the table keeps of a time.                        *)
Stored(t) == Millisecond * (t \div Millisecond)

(* purge: DELETE FROM run_usage WHERE expires_at <= now, in milliseconds.   *)
(* Rows hold whole milliseconds, so the clock need not be rounded.          *)
Purged(store, now) ==
  [k \in Key |-> IF store[k] # NoRow /\ store[k].expires <= now
                 THEN NoRow ELSE store[k]]

(* The earlier of the record's own expiry and finished_at + retention. *)
EffectiveExpiry(policy, r) ==
  LET policyExpiry == FinishedAt[r] + policy.retention
  IN  IF ExpiresAt[r] # NoExpiry /\ ExpiresAt[r] < policyExpiry
      THEN ExpiresAt[r] ELSE policyExpiry

(* mutant: the incoming payload is not counted *)
FullTooLate(store, policy, r) ==
  Cardinality(Held(store)) >= policy.maxRecords \/ Bytes(store) > policy.maxBytes

Full(store, policy, r) ==
  \/ Cardinality(Held(store)) >= policy.maxRecords
  \/ Bytes(store) + Size[r] > policy.maxBytes

NewRow(policy, r, forward) ==
  [record |-> r, expires |-> Stored(EffectiveExpiry(policy, r)),
   delivery |-> IF forward THEN "pending" ELSE "local",
   attempts |-> 0, retryAt |-> 0, error |-> NoError]

(* mutant: the digest is not compared, what holds the identity is a copy *)
AcceptStatusUncompared(store, policy, r, now) ==
  IF FinishedAt[r] > now + FutureSlack THEN "invalid"
  ELSE IF EffectiveExpiry(policy, r) <= now THEN "expired"
  ELSE IF Purged(store, now)[KeyOf[r]] # NoRow THEN "duplicate"
  ELSE IF Full(Purged(store, now), policy, r) THEN "capacity" ELSE "accepted"

(* What accept answers, in the order of its early returns. *)
AcceptStatus(store, policy, r, now) ==
  LET kept == Purged(store, now)
      old  == kept[KeyOf[r]]
  IN  IF FinishedAt[r] > now + FutureSlack THEN "invalid"
      ELSE IF EffectiveExpiry(policy, r) <= now THEN "expired"
      ELSE IF old # NoRow
           THEN IF old.record = r THEN "duplicate" ELSE "conflict"
      ELSE IF Full(kept, policy, r) THEN "capacity"
      ELSE "accepted"

(* mutant: a duplicate re-inserts the row, under today's policy *)
AfterAcceptRefreshing(store, policy, r, now, forward) ==
  IF AcceptStatus(store, policy, r, now) \in {"accepted", "duplicate"}
  THEN [Purged(store, now) EXCEPT ![KeyOf[r]] = NewRow(policy, r, forward)] ELSE store

(* mutant: a full store evicts what it holds *)
AfterAcceptEvicting(store, policy, r, now, forward) ==
  CASE AcceptStatus(store, policy, r, now) = "accepted" ->
         [Purged(store, now) EXCEPT ![KeyOf[r]] = NewRow(policy, r, forward)]
    [] AcceptStatus(store, policy, r, now) = "capacity" ->
         [EmptyStore EXCEPT ![KeyOf[r]] = NewRow(policy, r, forward)]
    [] OTHER -> store

(* The table after accept: an error drops the transaction, and with it the  *)
(* purge the transaction began with.                                        *)
AfterAccept(store, policy, r, now, forward) ==
  LET kept   == Purged(store, now)
      status == AcceptStatus(store, policy, r, now)
  IN  CASE status = "accepted"  -> [kept EXCEPT ![KeyOf[r]] = NewRow(policy, r, forward)]
        [] status = "duplicate" -> kept
        [] OTHER                -> store

(* Receipt.expires_at: the first receipt of a record names its expiry, a    *)
(* later one what the table has kept of it.                                 *)
ReceiptExpiry(store, policy, r, now) ==
  IF AcceptStatus(store, policy, r, now) = "accepted"
  THEN EffectiveExpiry(policy, r) ELSE store[KeyOf[r]].expires

(* mutant: strict comparison of retry_at *)
NextPendingStrict(store, now) ==
  {k \in Held(store) : store[k].delivery = "pending" /\ store[k].retryAt < now}

(* next_pending after its purge: the keys its ORDER BY retry_at, event_id   *)
(* LIMIT 1 may return (hosts that share an event_id are not ordered).       *)
NextPending(store, now) ==
  LET due == {k \in Held(store) : store[k].delivery = "pending" /\ store[k].retryAt <= now}
      Precedes(a, b) ==
        \/ store[a].retryAt < store[b].retryAt
        \/ store[a].retryAt = store[b].retryAt /\ EventRank[a] < EventRank[b]
  IN  {k \in due : \A other \in due : ~Precedes(other, k)}

(* delivery_result: the WHERE clause names the key and delivery='pending'. *)
AfterDelivery(store, k, delivery, error, retryAt) ==
  IF store[k] # NoRow /\ store[k].delivery = "pending"
  THEN [store EXCEPT ![k].delivery = delivery, ![k].error = error,
          ![k].retryAt = Stored(IF retryAt < Horizon THEN retryAt ELSE Horizon),
          ![k].attempts = IF @ < AttemptLimit THEN @ + 1 ELSE @]
  ELSE store

(* mutant: delivered rows can be requeued *)
CanRetryAny(store, k) == store[k] # NoRow /\ store[k].delivery \in {"failed", "delivered"}

CanRetry(store, k) == store[k] # NoRow /\ store[k].delivery = "failed"

(* retry_failed, after its purge, on a failed row. *)
AfterRetry(store, k) ==
  [store EXCEPT ![k].delivery = "pending", ![k].error = NoError, ![k].retryAt = 0]

(* mutant: failed rows are forgotten *)
UndeliveredPending(store) == {k \in Held(store) : store[k].delivery = "pending"}

(* bind_forward_target refuses another target while rows wait for the old. *)
Undelivered(store) == {k \in Held(store) : store[k].delivery \in {"pending", "failed"}}
=============================================================================
