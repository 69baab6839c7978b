------------------------ MODULE RunForwarding_proofs ------------------------
(***************************************************************************)
(* Proofs about RunForwarding for every set of records, keys, clients,     *)
(* destinations and configurations, every clock skew and every bound, in   *)
(* five parts: what the methods of the store keep of a table; the safety of *)
(* the forwarding; what a client can rely on (durable receipts, refusals   *)
(* that stay); that the daemon implements the outbox of                    *)
(* docs/run-ingestion.md; and what a table may hold, and that only expiry  *)
(* takes a row out of it.                                                  *)
(***************************************************************************)
EXTENDS RunForwarding, FiniteSetTheorems, WellFoundedInduction, TLAPS

-----------------------------------------------------------------------------
(* I. The store: what the methods of RunUsageStore keep of a table.          *)

AcceptAnswer == {"invalid", "expired", "conflict", "duplicate", "capacity", "accepted"}

LEMMA StoredBounds ==
  ASSUME NEW e \in Int
  PROVE  /\ Stored(e) \in Int /\ Stored(e) <= e
         /\ e \in Nat => Stored(e) \in Nat
BY RecordAssumption DEF Stored

(* Every row of a table is filed under its own record's key. *)
Keyed(store) == \A k \in Key : store[k] # NoRow => KeyOf[store[k].record] = k

(* purge leaves a table, and of each key its row or nothing. *)
LEMMA PurgedKeeps ==
  ASSUME NEW store \in Store, NEW n \in Int
  PROVE  /\ Purged(store, n) \in Store
         /\ \A k \in Key : Purged(store, n)[k] = store[k] \/ Purged(store, n)[k] = NoRow
         /\ \A k \in Key : store[k] # NoRow /\ store[k].expires > n => Purged(store, n)[k] = store[k]
         /\ \A k \in Key : Purged(store, n)[k] # NoRow => store[k].expires > n
BY NullAssumption DEF Purged, Store, Row

LEMMA EffectiveExpiryIsTime ==
  ASSUME NEW policy \in Policy, NEW r \in Record
  PROVE  EffectiveExpiry(policy, r) \in Int
BY RecordAssumption DEF EffectiveExpiry, Policy

LEMMA NewRowIsRow ==
  ASSUME NEW policy \in Policy, NEW r \in Record, NEW forward \in BOOLEAN
  PROVE  NewRow(policy, r, forward) \in Row
BY EffectiveExpiryIsTime, StoredBounds DEF NewRow, Row, Delivery

LEMMA AcceptStatusIsAnswer ==
  ASSUME NEW store \in Store, NEW policy \in Policy, NEW r \in Record, NEW n \in Int
  PROVE  AcceptStatus(store, policy, r, n) \in AcceptAnswer
BY DEF AcceptStatus, AcceptAnswer

(* accept inserts one fresh row, or only purges, or does nothing. *)
LEMMA AcceptOutcome ==
  ASSUME NEW store \in Store, NEW policy \in Policy, NEW r \in Record, NEW n \in Int,
         NEW forward \in BOOLEAN
  PROVE  LET kept  == Purged(store, n)
             after == AfterAccept(store, policy, r, n, forward)
         IN  /\ after \in Store
             /\ \/ /\ AcceptStatus(store, policy, r, n) = "accepted"
                   /\ kept[KeyOf[r]] = NoRow
                   /\ EffectiveExpiry(policy, r) > n
                   /\ ~Full(kept, policy, r)
                   /\ after = [kept EXCEPT ![KeyOf[r]] = NewRow(policy, r, forward)]
                \/ /\ AcceptStatus(store, policy, r, n) = "duplicate"
                   /\ kept[KeyOf[r]] # NoRow /\ kept[KeyOf[r]].record = r
                   /\ after = kept
                \/ /\ AcceptStatus(store, policy, r, n) \notin {"accepted", "duplicate"}
                   /\ after = store
<1> DEFINE kept  == Purged(store, n)
           after == AfterAccept(store, policy, r, n, forward)
           status == AcceptStatus(store, policy, r, n)
<1>1. kept \in Store
  BY PurgedKeeps
<1>2. KeyOf[r] \in Key
  BY RecordAssumption
<1>3. CASE status = "accepted"
  <2>1. after = [kept EXCEPT ![KeyOf[r]] = NewRow(policy, r, forward)]
    BY <1>3 DEF AfterAccept
  <2>2. after \in Store
    BY <2>1, <1>1, <1>2, NewRowIsRow DEF Store
  <2>3. kept[KeyOf[r]] = NoRow /\ ~Full(kept, policy, r) /\ ~(EffectiveExpiry(policy, r) <= n)
    BY <1>3 DEF AcceptStatus
  <2>4. EffectiveExpiry(policy, r) > n
    BY <2>3, EffectiveExpiryIsTime
  <2>5. QED
    BY <1>3, <2>1, <2>2, <2>3, <2>4
<1>4. CASE status = "duplicate"
  <2>1. after = kept
    BY <1>4 DEF AfterAccept
  <2>2. kept[KeyOf[r]] # NoRow /\ kept[KeyOf[r]].record = r
    BY <1>4 DEF AcceptStatus
  <2>3. QED
    BY <1>4, <2>1, <2>2, <1>1
<1>5. CASE status \notin {"accepted", "duplicate"}
  BY <1>5 DEF AfterAccept
<1>6. QED
  BY <1>3, <1>4, <1>5

(* An accept that answers with a receipt leaves the record in the table.    *)
LEMMA ReceiptMeansRow ==
  ASSUME NEW store \in Store, NEW policy \in Policy, NEW r \in Record, NEW n \in Int,
         NEW forward \in BOOLEAN,
         AcceptStatus(store, policy, r, n) \in {"accepted", "duplicate"}
  PROVE  LET row == AfterAccept(store, policy, r, n, forward)[KeyOf[r]]
         IN  row \in Row /\ row # NoRow /\ row.record = r
<1> DEFINE kept  == Purged(store, n)
           after == AfterAccept(store, policy, r, n, forward)
           status == AcceptStatus(store, policy, r, n)
<1>1. KeyOf[r] \in Key /\ kept \in Store /\ after \in Store
  BY RecordAssumption, PurgedKeeps, AcceptOutcome
<1>2. CASE status = "accepted"
  <2>1. after[KeyOf[r]] = NewRow(policy, r, forward)
    BY <1>1, <1>2, AcceptOutcome DEF Store
  <2>2. NewRow(policy, r, forward).record = r
    BY DEF NewRow
  <2>3. QED
    BY <2>1, <2>2, NewRowIsRow, NullAssumption
<1>3. CASE status = "duplicate"
  <2>1. after = kept /\ kept[KeyOf[r]] # NoRow /\ kept[KeyOf[r]].record = r
    BY <1>3, AcceptOutcome
  <2>2. QED
    BY <1>1, <2>1 DEF Store
<1>4. QED
  BY <1>2, <1>3

(* Its receipt names a time. *)
LEMMA ReceiptExpiryIsTime ==
  ASSUME NEW store \in Store, NEW policy \in Policy, NEW r \in Record, NEW n \in Int,
         AcceptStatus(store, policy, r, n) \in {"accepted", "duplicate"}
  PROVE  /\ ReceiptExpiry(store, policy, r, n) \in Int
         /\ AcceptStatus(store, policy, r, n) = "duplicate" =>
              /\ Purged(store, n)[KeyOf[r]] = store[KeyOf[r]]
              /\ ReceiptExpiry(store, policy, r, n) = store[KeyOf[r]].expires
<1>1. KeyOf[r] \in Key
  BY RecordAssumption
<1>2. CASE AcceptStatus(store, policy, r, n) = "accepted"
  BY <1>2, EffectiveExpiryIsTime DEF ReceiptExpiry
<1>3. CASE AcceptStatus(store, policy, r, n) = "duplicate"
  <2>1. Purged(store, n)[KeyOf[r]] # NoRow
    BY <1>3 DEF AcceptStatus
  <2>2. Purged(store, n)[KeyOf[r]] = store[KeyOf[r]] /\ store[KeyOf[r]] \in Row
    BY <1>1, <2>1, PurgedKeeps DEF Store
  <2>3. QED
    BY <1>3, <2>2 DEF ReceiptExpiry, Row
<1>4. QED
  BY <1>2, <1>3

LEMMA AcceptKeepsKeyed ==
  ASSUME NEW store \in Store, NEW policy \in Policy, NEW r \in Record, NEW n \in Int,
         NEW forward \in BOOLEAN, Keyed(store)
  PROVE  Keyed(AfterAccept(store, policy, r, n, forward))
<1>1. Keyed(Purged(store, n)) /\ Purged(store, n) \in Store
  BY PurgedKeeps DEF Keyed
<1>2. KeyOf[r] \in Key /\ NewRow(policy, r, forward).record = r
  BY RecordAssumption DEF NewRow
<1>3. QED
  BY <1>1, <1>2, AcceptOutcome DEF Keyed, Store

(* The store holds record r, to be kept until the millisecond of e. *)
Promised(store, r, e) == Holds(store, r) /\ store[KeyOf[r]].expires \in Stored(e)..e

(* What is promised beyond now survives a purge, *)
LEMMA PurgeKeepsPromise ==
  ASSUME NEW store \in Store, NEW r \in Record, NEW n \in Int, NEW e \in Int, n < Stored(e),
         Promised(store, r, e)
  PROVE  Promised(Purged(store, n), r, e)
<1>1. KeyOf[r] \in Key /\ store[KeyOf[r]] # NoRow /\ store[KeyOf[r]].expires > n
  BY RecordAssumption, StoredBounds DEF Promised, Holds
<1>2. QED
  BY <1>1, PurgedKeeps DEF Promised, Holds

(* and the accept of any record, its own or another one under its identity. *)
LEMMA AcceptKeepsPromise ==
  ASSUME NEW store \in Store, NEW policy \in Policy, NEW new \in Record, NEW n \in Int,
         NEW forward \in BOOLEAN, NEW r \in Record, NEW e \in Int, n < Stored(e),
         Promised(store, r, e)
  PROVE  Promised(AfterAccept(store, policy, new, n, forward), r, e)
<1> DEFINE kept  == Purged(store, n)
           after == AfterAccept(store, policy, new, n, forward)
<1>1. KeyOf[r] \in Key /\ KeyOf[new] \in Key /\ kept \in Store
  BY RecordAssumption, PurgedKeeps
<1>2. Promised(kept, r, e)
  BY PurgeKeepsPromise
<1>3. CASE AcceptStatus(store, policy, new, n) = "accepted"
  <2>1. kept[KeyOf[new]] = NoRow /\ after = [kept EXCEPT ![KeyOf[new]] = NewRow(policy, new, forward)]
    BY <1>3, AcceptOutcome
  <2>2. KeyOf[r] # KeyOf[new]
    BY <1>2, <2>1 DEF Promised, Holds
  <2>3. after[KeyOf[r]] = kept[KeyOf[r]]
    BY <1>1, <2>1, <2>2 DEF Store
  <2>4. QED
    BY <1>2, <2>3 DEF Promised, Holds
<1>4. CASE AcceptStatus(store, policy, new, n) # "accepted"
  BY <1>2, <1>4, AcceptOutcome
<1>5. QED
  BY <1>3, <1>4

(* Rewriting the delivery columns of a row leaves a row. *)
LEMMA RowUpdate ==
  ASSUME NEW row \in Row, NEW d \in Delivery, NEW e \in ErrorCode \cup {NoError},
         NEW at \in Nat, NEW n \in Nat
  PROVE  /\ [row EXCEPT !.delivery = d, !.error = e, !.retryAt = at, !.attempts = n] \in Row
         /\ [row EXCEPT !.delivery = d, !.error = e, !.retryAt = at] \in Row
BY DEF Row

(* delivery_result touches one pending row and not its record or expiry. *)
LEMMA DeliveryOutcome ==
  ASSUME NEW store \in Store, NEW k \in Key, NEW d \in Delivery,
         NEW e \in ErrorCode \cup {NoError}, NEW at \in Nat
  PROVE  LET after == AfterDelivery(store, k, d, e, at)
         IN  /\ after \in Store
             /\ \A o \in Key : o # k => after[o] = store[o]
             /\ \/ after = store /\ (store[k] # NoRow => store[k].delivery # "pending")
                \/ /\ store[k] # NoRow /\ store[k].delivery = "pending"
                   /\ after[k] # NoRow /\ after[k].delivery = d /\ after[k].error = e
                   /\ after[k].record = store[k].record
                   /\ after[k].expires = store[k].expires
<1> DEFINE row == [store[k] EXCEPT !.delivery = d, !.error = e,
                     !.retryAt = Stored(IF at < Horizon THEN at ELSE Horizon),
                     !.attempts = IF @ < AttemptLimit THEN @ + 1 ELSE @]
<1>1. CASE store[k] # NoRow /\ store[k].delivery = "pending"
  <2>1. store[k] \in Row
    BY <1>1 DEF Store
  <2>2. row \in Row
    <3>1. store[k].attempts \in Nat
      BY <2>1 DEF Row
    <3>2. /\ Stored(IF at < Horizon THEN at ELSE Horizon) \in Nat
          /\ (IF store[k].attempts < AttemptLimit
              THEN store[k].attempts + 1 ELSE store[k].attempts) \in Nat
      <4>1. (IF at < Horizon THEN at ELSE Horizon) \in Nat
        BY RecordAssumption
      <4>2. QED
        BY <3>1, <4>1, RecordAssumption, StoredBounds
    <3>3. QED
      BY <2>1, <3>2, RowUpdate
  <2>3. AfterDelivery(store, k, d, e, at) = [store EXCEPT ![k] = row]
    BY <1>1, <2>1 DEF AfterDelivery, Store, Row
  <2>4. row.delivery = d /\ row.error = e /\ row.record = store[k].record
        /\ row.expires = store[k].expires /\ row # NoRow
    BY <2>1, <2>2, NullAssumption DEF Row
  <2>5. QED
    BY <1>1, <2>2, <2>3, <2>4 DEF Store
<1>2. CASE ~(store[k] # NoRow /\ store[k].delivery = "pending")
  BY <1>2 DEF AfterDelivery
<1>3. QED
  BY <1>1, <1>2

(* retry_failed touches one failed row and not its record or expiry. *)
LEMMA RetryOutcome ==
  ASSUME NEW store \in Store, NEW k \in Key, CanRetry(store, k)
  PROVE  LET after == AfterRetry(store, k)
         IN  /\ after \in Store
             /\ \A o \in Key : o # k => after[o] = store[o]
             /\ after[k] # NoRow /\ after[k].delivery = "pending"
             /\ after[k].record = store[k].record
             /\ after[k].expires = store[k].expires
<1>1. store[k] \in Row
  BY DEF CanRetry, Store
<1> DEFINE row == [store[k] EXCEPT !.delivery = "pending", !.error = NoError, !.retryAt = 0]
<1>2. row \in Row /\ row # NoRow
  <2>1. "pending" \in Delivery /\ NoError \in ErrorCode \cup {NoError} /\ 0 \in Nat
    BY DEF Delivery
  <2>2. row \in Row
    BY <1>1, <2>1, RowUpdate
  <2>3. QED
    BY <2>2, NullAssumption
<1>3. AfterRetry(store, k) = [store EXCEPT ![k] = row]
  BY <1>1 DEF AfterRetry, Store, Row
<1>4. row.delivery = "pending" /\ row.record = store[k].record /\ row.expires = store[k].expires
  BY <1>1 DEF Row
<1>5. QED
  BY <1>2, <1>3, <1>4 DEF Store

(* Nor does recording a delivery result break it.                             *)
LEMMA DeliveryKeepsPromise ==
  ASSUME NEW store \in Store, NEW k \in Key, NEW d \in Delivery,
         NEW c \in ErrorCode \cup {NoError}, NEW at \in Nat,
         NEW r \in Record, NEW e \in Int, Promised(store, r, e)
  PROVE  Promised(AfterDelivery(store, k, d, c, at), r, e)
<1> DEFINE after == AfterDelivery(store, k, d, c, at)
<1>1. /\ \A o \in Key : o # k => after[o] = store[o]
      /\ \/ after = store
         \/ /\ after[k] # NoRow
            /\ after[k].record = store[k].record
            /\ after[k].expires = store[k].expires
  BY DeliveryOutcome
<1>2. KeyOf[r] \in Key
  BY RecordAssumption
<1> HIDE DEF after
<1>3. Promised(after, r, e)
  BY <1>1, <1>2 DEF Promised, Holds
<1>4. QED
  BY <1>3 DEF after

-----------------------------------------------------------------------------
(* II. The forwarding.                                                       *)

USE DEF daemonVars, workerVars, peerVars

LEMMA ConfigFacts ==
  ASSUME NEW c \in Config
  PROVE  c.policy \in Policy /\ c.forward \in Target \cup {NoTarget} /\ c # Down
BY ForwardingAssumption

LEMMA PeerFacts ==
  ASSUME NEW t \in Target, now \in Nat
  PROVE  PeerPolicy[t] \in Policy /\ Skew[t] \in Int /\ PeerNow(t) \in Int
BY ForwardingAssumption DEF PeerNow

LEMMA BackoffIsTime == ASSUME NEW a \in Nat PROVE Backoff(a) \in Nat
BY DEF Backoff

-----------------------------------------------------------------------------
(* What a destination's accept does to its table and to the receipts. *)
LEMMA PeerAcceptsOutcome ==
  ASSUME TypeOK, NEW t \in Target, NEW r \in Record, PeerAccepts(t, r)
  PROVE  /\ peer' \in [Target -> Store]
         /\ PeerStatus(t, r) \in AcceptAnswer
         /\ issued' \subseteq Receipt /\ issued \subseteq issued'
         /\ \A i \in issued' \ issued : i.at = t /\ i.record = r
         /\ PeerStatus(t, r) \in ReceiptStatus =>
              /\ PeerExpiry(t, r) \in Int
              /\ [at |-> t, record |-> r, expires |-> PeerExpiry(t, r)] \in issued'
<1>1. /\ peer[t] \in Store /\ PeerPolicy[t] \in Policy /\ PeerNow(t) \in Int
      /\ FALSE \in BOOLEAN /\ KeyOf[r] \in Key
  BY PeerFacts, RecordAssumption DEF TypeOK
<1> DEFINE after == AfterAccept(peer[t], PeerPolicy[t], r, PeerNow(t), FALSE)
<1>2. after \in Store
  BY <1>1, AcceptOutcome
<1>3. peer' = [peer EXCEPT ![t] = after] /\ peer'[t] = after
  BY DEF PeerAccepts, TypeOK
<1>4. PeerStatus(t, r) \in AcceptAnswer
  BY <1>1, AcceptStatusIsAnswer DEF PeerStatus
<1>5. ASSUME PeerStatus(t, r) \in ReceiptStatus
      PROVE  PeerExpiry(t, r) \in Int
  BY <1>1, <1>5, ReceiptExpiryIsTime DEF PeerStatus, PeerExpiry, ReceiptStatus
<1>6. CASE PeerStatus(t, r) \in ReceiptStatus
  <2>1. issued' = issued \cup {[at |-> t, record |-> r, expires |-> PeerExpiry(t, r)]}
    BY <1>6 DEF PeerAccepts
  <2>2. PeerExpiry(t, r) \in Int
    BY <1>5, <1>6
  <2>3. /\ issued' \subseteq Receipt /\ issued \subseteq issued'
        /\ \A i \in issued' \ issued : i.at = t /\ i.record = r
    <3> DEFINE receipt == [at |-> t, record |-> r, expires |-> PeerExpiry(t, r)]
    <3>1. receipt \in Receipt
      BY <2>2 DEF Receipt
    <3>2. receipt.at = t /\ receipt.record = r
      OBVIOUS
    <3>3. issued \subseteq Receipt
      BY DEF TypeOK
    <3> HIDE DEF receipt
    <3>4. issued' = issued \cup {receipt}
      BY <2>1 DEF receipt
    <3>5. QED
      BY <3>1, <3>2, <3>3, <3>4
  <2>4. peer' \in [Target -> Store]
    BY <1>2, <1>3 DEF TypeOK
  <2>5. QED
    BY <1>3, <1>4, <1>5, <1>6, <2>1, <2>3, <2>4
<1>7. CASE PeerStatus(t, r) \notin ReceiptStatus
  BY <1>2, <1>3, <1>4, <1>7 DEF TypeOK, PeerAccepts
<1>8. QED
  BY <1>6, <1>7

-----------------------------------------------------------------------------
(* Every variable keeps its type: in particular the worker holds a job and   *)
(* a configured destination whenever it is not idle.                         *)
THEOREM TypeCorrect == Spec => []TypeOK
<1>1. Init => TypeOK
  BY DEF Init, TypeOK, Store, EmptyStore
<1>2. TypeOK /\ [Next]_vars => TypeOK'
  <2> SUFFICES ASSUME TypeOK, [Next]_vars PROVE TypeOK'
    OBVIOUS
  <2>p. Purged(rows, now) \in Store
    BY PurgedKeeps DEF TypeOK
  <2>1. ASSUME NEW c \in Config, Start(c) PROVE TypeOK'
    BY <2>1, <2>p, ConfigFacts DEF TypeOK, Start, Up
  <2>2. CASE Crash
    <3>1. strays' \subseteq Request
      BY <2>2, ConfigFacts DEF TypeOK, Crash, Request, Job
    <3>2. QED
      BY <2>2, <3>1 DEF TypeOK, Crash
  <2>3. CASE Tick
    BY <2>3 DEF TypeOK, Tick
  <2>4. ASSUME NEW c \in Client, NEW r \in Record, Post(c, r) PROVE TypeOK'
    <3>1. /\ config \in Config /\ config.policy \in Policy
          /\ config.forward \in Target \cup {NoTarget} /\ Forwarding \in BOOLEAN
          /\ KeyOf[r] \in Key
      BY <2>4, ConfigFacts, RecordAssumption DEF TypeOK, Post, Up, Forwarding
    <3>2. rows' \in Store
      BY <2>4, <3>1, AcceptOutcome DEF TypeOK, Post
    <3>3. AcceptStatus(rows, config.policy, r, now) \in ReceiptStatus =>
            ReceiptExpiry(rows, config.policy, r, now) \in Int
      BY <3>1, ReceiptExpiryIsTime DEF TypeOK, ReceiptStatus
    <3>4. issued' \subseteq Receipt
      BY <2>4, <3>1, <3>3 DEF TypeOK, Post, Receipt, Here
    <3>5. acceptedFor' \in [Key -> Target \cup {NoTarget}]
      BY <2>4, <3>1 DEF TypeOK, Post
    <3>6. QED
      BY <2>4, <3>2, <3>4, <3>5 DEF TypeOK, Post
  <2>5. ASSUME NEW c \in Client, NEW k \in Key, Retry(c, k) PROVE TypeOK'
    BY <2>5, <2>p, RetryOutcome DEF TypeOK, Retry
  <2>6. CASE Lookup
    BY <2>6, <2>p DEF TypeOK, Lookup
  <2>7. CASE Housekeep
    BY <2>7, <2>p DEF TypeOK, Housekeep
  <2>8. CASE Fetch
    <3>1. CASE UNCHANGED workerVars
      BY <2>8, <3>1, <2>p DEF TypeOK, Fetch
    <3>2. ASSUME NEW k \in NextPending(Purged(rows, now), now),
                 pc' = "sending", answer' = answer,
                 job' = [record |-> Purged(rows, now)[k].record,
                         attempts |-> Purged(rows, now)[k].attempts]
          PROVE  TypeOK'
      <4>1. Purged(rows, now)[k] \in Row
        BY <2>p DEF NextPending, Held, Store
      <4>2. job' \in Job
        BY <3>2, <4>1 DEF Job, Row
      <4>3. QED
        BY <2>8, <3>2, <4>2, <2>p DEF TypeOK, Fetch, Forwarding, Up
    <3>3. QED
      BY <2>8, <3>1, <3>2 DEF Fetch
  <2>9. CASE GiveUp
    BY <2>9, ConfigFacts DEF TypeOK, GiveUp, Verdict, ErrorCode, Request, Job
  <2>10. CASE JudgeReceipt
    BY <2>10 DEF TypeOK, JudgeReceipt, Verdict, ErrorCode
  <2>11. CASE JudgeRefusal
    BY <2>11 DEF TypeOK, JudgeRefusal, Verdict, ErrorCode, CodeOf
  <2>12. CASE RecordResult
    <3>1. KeyOf[job.record] \in Key /\ job.attempts \in Nat
      BY <2>12, RecordAssumption DEF TypeOK, RecordResult, Job
    <3>2. now + Backoff(job.attempts) \in Nat
      BY <3>1, BackoffIsTime DEF TypeOK
    <3>3. answer.delivery \in Delivery /\ answer.error \in ErrorCode \cup {NoError}
      BY <2>12 DEF TypeOK, RecordResult, Verdict, Delivery
    <3>4. rows' \in Store
      BY <2>12, <3>1, <3>2, <3>3, DeliveryOutcome DEF TypeOK, RecordResult
    <3>5. QED
      BY <2>12, <3>4 DEF TypeOK, RecordResult
  <2>13. CASE ResultLost
    BY <2>13 DEF TypeOK, ResultLost
  <2>14. CASE Arrive
    <3>1. config.forward \in Target /\ job.record \in Record
      BY <2>14, ConfigFacts DEF TypeOK, Arrive, Job
    <3>2. answer' \in Reply
      <4>1. /\ PeerStatus(config.forward, job.record) \in RefusalStatus \cup ReceiptStatus
            /\ PeerStatus(config.forward, job.record) \in ReceiptStatus =>
                 PeerExpiry(config.forward, job.record) \in Int
        BY <2>14, <3>1, PeerAcceptsOutcome
           DEF Arrive, AcceptAnswer, RefusalStatus, ReceiptStatus
      <4>2. QED
        BY <2>14, <4>1 DEF Arrive, Reply
    <3>3. QED
      BY <2>14, <3>1, <3>2, PeerAcceptsOutcome DEF TypeOK, Arrive
  <2>15. CASE Refuse
    BY <2>15 DEF TypeOK, Refuse, Reply, RefusalStatus
  <2>16. ASSUME NEW q \in strays, StrayArrives(q) PROVE TypeOK'
    <3>1. q.to \in Target /\ q.record \in Record
      BY DEF TypeOK, Request
    <3>2. strays' \subseteq Request
      BY <2>16 DEF TypeOK, StrayArrives
    <3>3. QED
      BY <2>16, <3>1, <3>2, PeerAcceptsOutcome DEF TypeOK, StrayArrives
  <2>17. ASSUME NEW t \in Target, NEW r \in Record, PeerPost(t, r) PROVE TypeOK'
    BY <2>17, PeerAcceptsOutcome DEF TypeOK, PeerPost
  <2>18. ASSUME NEW t \in Target, PeerHousekeep(t) PROVE TypeOK'
    <3>1. Purged(peer[t], PeerNow(t)) \in Store
      BY PeerFacts, PurgedKeeps DEF TypeOK
    <3>2. QED
      BY <2>18, <3>1 DEF TypeOK, PeerHousekeep
  <2>19. CASE UNCHANGED vars
    BY <2>19 DEF TypeOK, vars
  <2>20. QED
    BY <2>1, <2>2, <2>3, <2>4, <2>5, <2>6, <2>7, <2>8, <2>9, <2>10, <2>11, <2>12,
       <2>13, <2>14, <2>15, <2>16, <2>17, <2>18, <2>19
       DEF Next, Handlers, Worker, Network
<1>3. QED
  BY <1>1, <1>2, PTL DEF Spec

-----------------------------------------------------------------------------
(* The inductive invariant: rows are filed under their record's key, a        *)
(* database that was never bound owes nobody anything, what waits or is being *)
(* sent belongs to the bound destination, and a receipt stands behind every   *)
(* positive answer the worker carries and every row marked delivered.         *)
Acknowledged(t, r) == \E i \in issued : i.at = t /\ i.record = r

WorkerIsHonest ==
  /\ pc = "replied" /\ answer.status \in ReceiptStatus =>
       Acknowledged(config.forward, job.record)
  /\ pc = "judged" /\ answer.delivery = "delivered" =>
       Acknowledged(config.forward, job.record)

UnboundOwesNothing == bound = NoTarget => Undelivered(rows) = {}

DeliveryInv ==
  /\ Keyed(rows)
  /\ UnboundOwesNothing
  /\ NoRedirection
  /\ WorkerIsHonest
  /\ DeliveredIsAcknowledged

(* A step that only purges, and possibly learns of more receipts, keeps it.   *)
LEMMA QuietStep ==
  ASSUME TypeOK, DeliveryInv,
         rows' = rows \/ rows' = Purged(rows, now),
         UNCHANGED <<bound, config, pc, job, answer, acceptedFor>>,
         issued \subseteq issued'
  PROVE  DeliveryInv'
<1>1. rows' \in Store /\ \A k \in Key : rows'[k] = rows[k] \/ rows'[k] = NoRow
  BY PurgedKeeps DEF TypeOK
<1>2. Keyed(rows)'
  BY <1>1 DEF DeliveryInv, Keyed
<1>3. NoRedirection'
  BY <1>1 DEF DeliveryInv, NoRedirection, Undelivered, Held, Forwarding, Up
<1>7. UnboundOwesNothing'
  BY <1>1 DEF DeliveryInv, UnboundOwesNothing, Undelivered, Held
<1>4. WorkerIsHonest'
  BY DEF DeliveryInv, WorkerIsHonest, Acknowledged
<1>5. DeliveredIsAcknowledged'
  BY <1>1 DEF DeliveryInv, DeliveredIsAcknowledged
<1>6. QED
  BY <1>2, <1>3, <1>4, <1>5, <1>7 DEF DeliveryInv

(* What a delivery in progress may assume of the row, and of the receipts its *)
(* destination issued, holds in every reachable state.                        *)
THEOREM DeliveryInvariant == Spec => []DeliveryInv
<1>1. Init => DeliveryInv
  BY DEF Init, DeliveryInv, UnboundOwesNothing, Keyed, EmptyStore, NoRedirection,
         Undelivered, Held, Forwarding, Up, WorkerIsHonest, DeliveredIsAcknowledged
<1>2. TypeOK /\ DeliveryInv /\ [Next]_vars => DeliveryInv'
  <2> SUFFICES ASSUME TypeOK, DeliveryInv, [Next]_vars PROVE DeliveryInv'
    OBVIOUS
  <2>p. /\ Purged(rows, now) \in Store
        /\ \A k \in Key : Purged(rows, now)[k] = rows[k] \/ Purged(rows, now)[k] = NoRow
    BY PurgedKeeps DEF TypeOK
  <2>1. ASSUME NEW c \in Config, Start(c) PROVE DeliveryInv'
    <3>1. pc = "idle" /\ pc' = "idle"
      BY <2>1 DEF TypeOK, Start, Up
    <3>2. Undelivered(rows') \subseteq Undelivered(rows)
      BY <2>1, <2>p DEF Start, Undelivered, Held
    <3>3. \A k \in Undelivered(rows') : acceptedFor'[k] = bound'
      <4>1. CASE bound = NoTarget
        BY <3>2, <4>1 DEF DeliveryInv, UnboundOwesNothing
      <4>2. CASE bound # NoTarget
        BY <2>1, <3>2, <4>2 DEF Start, DeliveryInv, NoRedirection
      <4>3. QED
        BY <4>1, <4>2
    <3>4. Forwarding' => config'.forward = bound'
      BY <2>1 DEF Start, Forwarding, Up
    <3>5. Keyed(rows') /\ DeliveredIsAcknowledged'
      BY <2>1, <2>p DEF Start, DeliveryInv, Keyed, DeliveredIsAcknowledged
    <3>6. UnboundOwesNothing'
      BY <2>1, <3>2, ConfigFacts DEF Start, DeliveryInv, UnboundOwesNothing
    <3>7. QED
      BY <3>1, <3>3, <3>4, <3>5, <3>6 DEF DeliveryInv, NoRedirection, WorkerIsHonest
  <2>2. CASE Crash
    BY <2>2 DEF Crash, DeliveryInv, UnboundOwesNothing, NoRedirection, Forwarding, Up, WorkerIsHonest,
                DeliveredIsAcknowledged
  <2>3. CASE Tick
    BY <2>3, QuietStep DEF Tick
  <2>4. ASSUME NEW c \in Client, NEW r \in Record, Post(c, r) PROVE DeliveryInv'
    <3>1. /\ config \in Config /\ config.policy \in Policy
          /\ config.forward \in Target \cup {NoTarget} /\ Forwarding \in BOOLEAN
          /\ KeyOf[r] \in Key
      BY <2>4, ConfigFacts, RecordAssumption DEF TypeOK, Post, Up, Forwarding
    <3> DEFINE status == AcceptStatus(rows, config.policy, r, now)
    <3>2. CASE status # "accepted"
      <4>1. rows' = rows \/ rows' = Purged(rows, now)
        BY <2>4, <3>1, <3>2, AcceptOutcome DEF TypeOK, Post
      <4>2. acceptedFor' = acceptedFor /\ issued \subseteq issued'
        BY <2>4, <3>2 DEF Post
      <4>3. QED
        BY <2>4, <4>1, <4>2, QuietStep DEF Post
    <3>3. CASE status = "accepted"
      <4>1. rows' = [Purged(rows, now) EXCEPT ![KeyOf[r]] = NewRow(config.policy, r, Forwarding)]
        BY <2>4, <3>1, <3>3, AcceptOutcome DEF TypeOK, Post
      <4>2. \A k \in Key : k # KeyOf[r] => rows'[k] = rows[k] \/ rows'[k] = NoRow
        BY <4>1, <2>p DEF Store
      <4>3. rows'[KeyOf[r]] = NewRow(config.policy, r, Forwarding)
        BY <4>1, <3>1, <2>p DEF Store
      <4>4. /\ rows'[KeyOf[r]].record = r
            /\ rows'[KeyOf[r]].delivery = IF Forwarding THEN "pending" ELSE "local"
        BY <4>3 DEF NewRow
      <4>5. acceptedFor' = [acceptedFor EXCEPT ![KeyOf[r]] = config.forward]
            /\ issued \subseteq issued'
        BY <2>4, <3>3 DEF Post
      <4>6. Keyed(rows')
        BY <4>2, <4>4 DEF DeliveryInv, Keyed
      <4>7. \A k \in Undelivered(rows') : acceptedFor'[k] = bound'
        <5>1. ASSUME NEW k \in Undelivered(rows'), k # KeyOf[r]
              PROVE  acceptedFor'[k] = bound'
          <6>1. k \in Undelivered(rows)
            BY <5>1, <4>2 DEF Undelivered, Held
          <6>2. acceptedFor[k] = bound /\ bound' = bound
            BY <2>4, <6>1 DEF DeliveryInv, NoRedirection, Post
          <6>3. QED
            BY <5>1, <6>2, <4>5, <3>1 DEF TypeOK
        <5>2. KeyOf[r] \in Undelivered(rows') => acceptedFor'[KeyOf[r]] = bound'
          BY <2>4, <3>1, <4>4, <4>5 DEF Undelivered, DeliveryInv, NoRedirection, Post, TypeOK
        <5>3. QED
          BY <5>1, <5>2
      <4>8. pc' # "idle" => acceptedFor'[KeyOf[job'.record]] = config'.forward
        BY <2>4, <3>1, <4>5, RecordAssumption DEF Post, DeliveryInv, NoRedirection, TypeOK, Job
      <4>9. NoRedirection'
        BY <2>4, <4>7, <4>8 DEF Post, DeliveryInv, NoRedirection, Forwarding, Up
      <4>10. WorkerIsHonest'
        BY <2>4, <4>5 DEF Post, DeliveryInv, WorkerIsHonest, Acknowledged
      <4>11. DeliveredIsAcknowledged'
        <5>1. ASSUME NEW k \in Key, rows'[k] # NoRow, rows'[k].delivery = "delivered"
              PROVE  k # KeyOf[r] /\ rows'[k] = rows[k] /\ acceptedFor'[k] = acceptedFor[k]
          BY <5>1, <4>2, <4>4, <4>5 DEF TypeOK
        <5>2. QED
          BY <5>1, <4>5 DEF DeliveryInv, DeliveredIsAcknowledged
      <4>12. UnboundOwesNothing'
        <5>1. bound' = NoTarget => ~Forwarding
          BY <2>4, <3>1, ForwardingAssumption DEF Post, DeliveryInv, NoRedirection, Forwarding, Up
        <5>2. \A k \in Undelivered(rows') : k # KeyOf[r] => k \in Undelivered(rows)
          BY <4>2 DEF Undelivered, Held
        <5>3. ~Forwarding => KeyOf[r] \notin Undelivered(rows')
          BY <4>4 DEF Undelivered
        <5>4. bound' = bound
          BY <2>4 DEF Post
        <5>5. QED
          BY <5>1, <5>2, <5>3, <5>4 DEF DeliveryInv, UnboundOwesNothing
      <4>13. QED
        BY <4>6, <4>9, <4>10, <4>11, <4>12 DEF DeliveryInv
    <3>4. QED
      BY <3>2, <3>3
  <2>5. ASSUME NEW c \in Client, NEW k \in Key, Retry(c, k) PROVE DeliveryInv'
    <3> DEFINE kept == Purged(rows, now)
    <3>1. CASE rows' = kept
      BY <2>5, <3>1, QuietStep DEF Retry
    <3>2. CASE CanRetry(kept, k) /\ rows' = AfterRetry(kept, k)
      <4>1. /\ rows' \in Store
            /\ \A o \in Key : o # k => rows'[o] = rows[o] \/ rows'[o] = NoRow
            /\ rows'[k].record = rows[k].record /\ rows'[k].delivery = "pending"
            /\ rows[k] # NoRow /\ rows[k].delivery = "failed"
        BY <3>2, <2>p, RetryOutcome DEF CanRetry
      <4>2. Keyed(rows')
        BY <4>1 DEF DeliveryInv, Keyed
      <4>3. Undelivered(rows') \subseteq Undelivered(rows)
        BY <4>1 DEF Undelivered, Held
      <4>4. NoRedirection'
        BY <2>5, <4>3 DEF Retry, DeliveryInv, NoRedirection, Forwarding, Up
      <4>5. DeliveredIsAcknowledged'
        BY <2>5, <4>1 DEF Retry, DeliveryInv, DeliveredIsAcknowledged
      <4>6. QED
        BY <2>5, <4>2, <4>3, <4>4, <4>5
           DEF Retry, DeliveryInv, UnboundOwesNothing, WorkerIsHonest, Acknowledged
    <3>3. QED
      BY <2>5, <3>1, <3>2 DEF Retry
  <2>6. CASE Lookup
    BY <2>6, QuietStep DEF Lookup
  <2>7. CASE Housekeep
    BY <2>7, QuietStep DEF Housekeep
  <2>8. CASE Fetch
    <3>1. CASE UNCHANGED workerVars
      BY <2>8, <3>1, QuietStep DEF Fetch
    <3>2. ASSUME NEW k \in NextPending(Purged(rows, now), now), pc' = "sending",
                 job' = [record |-> Purged(rows, now)[k].record,
                         attempts |-> Purged(rows, now)[k].attempts]
          PROVE  DeliveryInv'
      <4>1. /\ k \in Key /\ rows[k] # NoRow /\ Purged(rows, now)[k] = rows[k]
            /\ rows[k].delivery = "pending"
        BY <2>p DEF NextPending, Held
      <4>2. KeyOf[job'.record] = k /\ k \in Undelivered(rows)
        BY <3>2, <4>1 DEF DeliveryInv, Keyed, Undelivered, Held
      <4>3. acceptedFor[k] = config.forward
        BY <2>8, <4>2 DEF DeliveryInv, NoRedirection, Fetch
      <4>4. Keyed(rows') /\ Undelivered(rows') \subseteq Undelivered(rows)
            /\ DeliveredIsAcknowledged'
        BY <2>8, <2>p DEF Fetch, DeliveryInv, Keyed, Undelivered, Held, DeliveredIsAcknowledged
      <4>5. NoRedirection'
        BY <2>8, <4>2, <4>3, <4>4 DEF Fetch, DeliveryInv, NoRedirection, Forwarding, Up
      <4>6. QED
        BY <2>8, <3>2, <4>4, <4>5 DEF Fetch, DeliveryInv, UnboundOwesNothing, WorkerIsHonest
    <3>3. QED
      BY <2>8, <3>1, <3>2 DEF Fetch
  <2>9. CASE GiveUp
    BY <2>9 DEF GiveUp, DeliveryInv, UnboundOwesNothing, NoRedirection, Forwarding, Up, WorkerIsHonest,
                DeliveredIsAcknowledged
  <2>10. CASE JudgeReceipt
    BY <2>10 DEF JudgeReceipt, DeliveryInv, UnboundOwesNothing, NoRedirection, Forwarding, Up, WorkerIsHonest,
                 Acknowledged, DeliveredIsAcknowledged
  <2>11. CASE JudgeRefusal
    BY <2>11 DEF JudgeRefusal, DeliveryInv, UnboundOwesNothing, NoRedirection, Forwarding, Up, WorkerIsHonest,
                 DeliveredIsAcknowledged
  <2>12. CASE RecordResult
    <3>1. /\ KeyOf[job.record] \in Key /\ now + Backoff(job.attempts) \in Nat
          /\ answer.delivery \in Delivery /\ answer.error \in ErrorCode \cup {NoError}
          /\ config.forward \in Target
      BY <2>12, RecordAssumption, BackoffIsTime, ConfigFacts
         DEF TypeOK, RecordResult, Job, Verdict, Delivery
    <3> DEFINE k == KeyOf[job.record]
    <3>2. /\ rows' \in Store
          /\ \A o \in Key : o # k => rows'[o] = rows[o]
          /\ \/ rows' = rows
             \/ /\ rows[k] # NoRow /\ rows[k].delivery = "pending"
                /\ rows'[k] # NoRow /\ rows'[k].delivery = answer.delivery
                /\ rows'[k].record = rows[k].record
      BY <2>12, <3>1, DeliveryOutcome DEF TypeOK, RecordResult
    <3>3. Keyed(rows') /\ Undelivered(rows') \subseteq Undelivered(rows)
      BY <3>1, <3>2 DEF DeliveryInv, Keyed, Undelivered, Held
    <3>4. NoRedirection'
      BY <2>12, <3>3 DEF RecordResult, DeliveryInv, NoRedirection, Forwarding, Up
    <3>5. DeliveredIsAcknowledged'
      <4>1. CASE rows' = rows
        BY <2>12, <4>1 DEF RecordResult, DeliveryInv, DeliveredIsAcknowledged
      <4>2. CASE answer.delivery # "delivered"
        BY <2>12, <3>2, <4>2 DEF RecordResult, DeliveryInv, DeliveredIsAcknowledged
      <4>3. CASE answer.delivery = "delivered"
        <5>1. Acknowledged(config.forward, job.record) /\ acceptedFor[k] = config.forward
          BY <2>12, <4>3 DEF RecordResult, DeliveryInv, WorkerIsHonest, NoRedirection
        <5>2. \E i \in issued : i.at = acceptedFor[k] /\ i.at # Here /\ KeyOf[i.record] = k
          BY <5>1, <3>1, ForwardingAssumption DEF Acknowledged, Here
        <5>3. QED
          BY <2>12, <3>2, <5>2 DEF RecordResult, DeliveryInv, DeliveredIsAcknowledged
      <4>4. QED
        BY <4>2, <4>3
    <3>6. QED
      BY <2>12, <3>3, <3>4, <3>5 DEF RecordResult, DeliveryInv, UnboundOwesNothing, WorkerIsHonest
  <2>13. CASE ResultLost
    BY <2>13 DEF ResultLost, DeliveryInv, UnboundOwesNothing, NoRedirection, Forwarding, Up, WorkerIsHonest,
                 DeliveredIsAcknowledged
  <2>14. CASE Arrive
    <3>1. config.forward \in Target /\ job.record \in Record
      BY <2>14, ConfigFacts DEF TypeOK, Arrive, Job
    <3>2. /\ issued \subseteq issued'
          /\ PeerStatus(config.forward, job.record) \in ReceiptStatus =>
               Acknowledged(config.forward, job.record)'
      <4> DEFINE t == config.forward
                 r == job.record
                 receipt == [at |-> t, record |-> r, expires |-> PeerExpiry(t, r)]
      <4>1. /\ issued \subseteq issued'
            /\ PeerStatus(t, r) \in ReceiptStatus => receipt \in issued'
        BY <2>14, <3>1, PeerAcceptsOutcome DEF Arrive
      <4>2. receipt.at = t /\ receipt.record = r
        OBVIOUS
      <4>3. config' = config /\ job' = job
        BY <2>14 DEF Arrive
      <4> HIDE DEF receipt
      <4>4. QED
        BY <4>1, <4>2, <4>3 DEF Acknowledged
    <3>3. WorkerIsHonest'
      BY <2>14, <3>2 DEF Arrive, WorkerIsHonest, Acknowledged
    <3>4. QED
      BY <2>14, <3>2, <3>3 DEF Arrive, DeliveryInv, UnboundOwesNothing, NoRedirection, Forwarding, Up,
                               DeliveredIsAcknowledged
  <2>15. CASE Refuse
    BY <2>15 DEF Refuse, DeliveryInv, UnboundOwesNothing, NoRedirection, Forwarding, Up, WorkerIsHonest,
                 ReceiptStatus, DeliveredIsAcknowledged
  <2>16. ASSUME NEW q \in strays, StrayArrives(q) PROVE DeliveryInv'
    <3>1. q.to \in Target /\ q.record \in Record
      BY DEF TypeOK, Request
    <3>2. QED
      BY <2>16, <3>1, PeerAcceptsOutcome, QuietStep DEF StrayArrives
  <2>17. ASSUME NEW t \in Target, NEW r \in Record, PeerPost(t, r) PROVE DeliveryInv'
    BY <2>17, PeerAcceptsOutcome, QuietStep DEF PeerPost
  <2>18. ASSUME NEW t \in Target, PeerHousekeep(t) PROVE DeliveryInv'
    BY <2>18, QuietStep DEF PeerHousekeep
  <2>19. CASE UNCHANGED vars
    BY <2>19, QuietStep DEF vars
  <2>20. QED
    BY <2>1, <2>2, <2>3, <2>4, <2>5, <2>6, <2>7, <2>8, <2>9, <2>10, <2>11, <2>12,
       <2>13, <2>14, <2>15, <2>16, <2>17, <2>18, <2>19
       DEF Next, Handlers, Worker, Network
<1>3. QED
  BY <1>1, <1>2, TypeCorrect, PTL DEF Spec

(* Undelivered records are never redirected: what waits, has failed or is     *)
(* being sent belongs to the destination the database is bound to.            *)
THEOREM NeverRedirected == Spec => []NoRedirection
<1>1. DeliveryInv => NoRedirection
  BY DEF DeliveryInv
<1>2. QED
  BY <1>1, DeliveryInvariant, PTL

(* A row is marked delivered only after its destination issued a receipt for  *)
(* that host and event.                                                       *)
THEOREM DeliveredMeansAcknowledged == Spec => []DeliveredIsAcknowledged
<1>1. DeliveryInv => DeliveredIsAcknowledged
  BY DEF DeliveryInv
<1>2. QED
  BY <1>1, DeliveryInvariant, PTL

(* When an identity names one record for ever (the SDK draws a fresh UUID per *)
(* run), the receipt is for the very record the row holds.                    *)
THEOREM DeliveredContent ==
  ASSUME \A a, b \in Record : KeyOf[a] = KeyOf[b] => a = b
  PROVE  Spec => []DeliveredRecordIsAcknowledged
<1>1. TypeOK /\ DeliveryInv => DeliveredRecordIsAcknowledged
  <2> SUFFICES ASSUME TypeOK, DeliveryInv, NEW k \in Key, rows[k] # NoRow,
                      rows[k].delivery = "delivered"
               PROVE  \E i \in issued : /\ i.at = acceptedFor[k] /\ i.at # Here
                                        /\ i.record = rows[k].record
    BY DEF DeliveredRecordIsAcknowledged
  <2>1. rows[k].record \in Record /\ KeyOf[rows[k].record] = k
    BY DEF TypeOK, Store, Row, DeliveryInv, Keyed
  <2>2. PICK i \in issued : i.at = acceptedFor[k] /\ i.at # Here /\ KeyOf[i.record] = k
    BY DEF DeliveryInv, DeliveredIsAcknowledged
  <2>3. i.record \in Record
    BY DEF TypeOK, Receipt
  <2>4. QED
    BY <2>1, <2>2, <2>3
<1>2. QED
  BY <1>1, TypeCorrect, DeliveryInvariant, PTL

-----------------------------------------------------------------------------
(* III. The durability of receipts, the daemon's own and those of the         *)
(* destinations it trusts: once a receipt is computed, its record stays in    *)
(* the issuer's table until the millisecond of that time. And the permanence  *)
(* of refusals: only an operator requeues a failed row.                       *)

(* Both promises, receipt by receipt. *)
HereKept(i)  == i.at = Here /\ now < Stored(i.expires) => Promised(rows, i.record, i.expires)
ThereKept(i) == i.at # Here /\ PeerNow(i.at) < Stored(i.expires) =>
                  Promised(peer[i.at], i.record, i.expires)

ReceiptsInv == \A i \in issued : HereKept(i) /\ ThereKept(i)

LEMMA ReceiptFacts ==
  ASSUME TypeOK, NEW i \in issued
  PROVE  /\ i.record \in Record /\ i.expires \in Int /\ KeyOf[i.record] \in Key
         /\ i.at # Here => i.at \in Target
BY RecordAssumption DEF TypeOK, Receipt

(* A receipt just computed is true. *)
LEMMA FreshReceipt ==
  ASSUME NEW store \in Store, NEW policy \in Policy, NEW r \in Record, NEW n \in Int,
         NEW forward \in BOOLEAN, AcceptStatus(store, policy, r, n) \in ReceiptStatus
  PROVE  LET after == AfterAccept(store, policy, r, n, forward)
             e     == ReceiptExpiry(store, policy, r, n)
         IN  e \in Int /\ Promised(after, r, e)
<1> DEFINE after == AfterAccept(store, policy, r, n, forward)
           e     == ReceiptExpiry(store, policy, r, n)
<1>0. KeyOf[r] \in Key /\ e \in Int /\ Purged(store, n) \in Store
  BY RecordAssumption, ReceiptExpiryIsTime, PurgedKeeps DEF ReceiptStatus
<1>1. KeyOf[r] \in Key /\ Stored(e) \in Int /\ Stored(e) <= e /\ Holds(after, r)
  <2>1. Stored(e) \in Int /\ Stored(e) <= e
    BY <1>0, StoredBounds
  <2>2. Holds(after, r)
    BY ReceiptMeansRow DEF ReceiptStatus, Holds
  <2>3. QED
    BY <1>0, <2>1, <2>2
<1>2. after[KeyOf[r]].expires \in {Stored(e), e}
  <2>1. CASE AcceptStatus(store, policy, r, n) = "accepted"
    <3>1. after[KeyOf[r]] = NewRow(policy, r, forward) /\ e = EffectiveExpiry(policy, r)
      BY <1>0, <2>1, AcceptOutcome DEF Store, ReceiptExpiry
    <3>2. QED
      BY <3>1 DEF NewRow
  <2>2. CASE AcceptStatus(store, policy, r, n) = "duplicate"
    BY <2>2, AcceptOutcome, ReceiptExpiryIsTime
  <2>3. QED
    BY <2>1, <2>2 DEF ReceiptStatus
<1> HIDE DEF after, e
<1>3. e \in Int /\ Promised(after, r, e)
  BY <1>0, <1>1, <1>2 DEF Promised
<1>4. QED
  BY <1>3 DEF after, e

(* A destination's accept keeps its old promises and makes a true one. *)
LEMMA PeerAcceptsReceipts ==
  ASSUME TypeOK, ReceiptsInv, NEW t \in Target, NEW r \in Record, PeerAccepts(t, r),
         UNCHANGED <<now, rows>>
  PROVE  ReceiptsInv'
<1>1. /\ peer[t] \in Store /\ PeerPolicy[t] \in Policy /\ PeerNow(t) \in Int
      /\ FALSE \in BOOLEAN /\ KeyOf[r] \in Key /\ t # Here
  BY PeerFacts, RecordAssumption, ForwardingAssumption DEF TypeOK, Here
<1> DEFINE after == AfterAccept(peer[t], PeerPolicy[t], r, PeerNow(t), FALSE)
<1>2. peer' = [peer EXCEPT ![t] = after] /\ peer'[t] = after
  BY DEF PeerAccepts, TypeOK
<1>3. PeerNow(t)' = PeerNow(t) /\ \A o \in Target : PeerNow(o)' = PeerNow(o)
  BY DEF PeerNow
<1>4. ASSUME NEW i \in issued PROVE HereKept(i)' /\ ThereKept(i)'
  <2>1. HereKept(i)'
    BY <1>4 DEF ReceiptsInv, HereKept
  <2>2. CASE i.at = t
    <3>1. SUFFICES ASSUME PeerNow(t) < Stored(i.expires)
                   PROVE  Promised(after, i.record, i.expires)
      BY <1>2, <1>3, <2>1, <2>2 DEF ThereKept
    <3>2. Promised(peer[t], i.record, i.expires)
      BY <1>1, <1>4, <2>2, <3>1 DEF ReceiptsInv, ThereKept
    <3>3. QED
      BY <1>1, <1>4, <3>1, <3>2, ReceiptFacts, AcceptKeepsPromise
  <2>3. CASE i.at # t
    <3>1. i.at # Here => peer'[i.at] = peer[i.at] /\ PeerNow(i.at)' = PeerNow(i.at)
      BY <1>2, <1>3, <1>4, <2>3, ReceiptFacts DEF TypeOK
    <3>2. QED
      BY <1>4, <2>1, <3>1 DEF ReceiptsInv, ThereKept
  <2>4. QED
    BY <2>1, <2>2, <2>3
<1>5. CASE PeerStatus(t, r) \in ReceiptStatus
  <2> DEFINE receipt == [at |-> t, record |-> r, expires |-> PeerExpiry(t, r)]
  <2>1. issued' = issued \cup {receipt}
    BY <1>5 DEF PeerAccepts
  <2>2. Promised(after, r, PeerExpiry(t, r))
    BY <1>1, <1>5, FreshReceipt DEF PeerStatus, PeerExpiry
  <2>3. ASSUME NEW i, i = receipt PROVE HereKept(i)' /\ ThereKept(i)'
    <3>1. i.at = t /\ i.record = r /\ i.expires = PeerExpiry(t, r)
      BY <2>3
    <3>2. QED
      BY <1>1, <1>2, <2>2, <3>1 DEF HereKept, ThereKept
  <2> HIDE DEF receipt
  <2>4. QED
    BY <1>4, <2>1, <2>3 DEF ReceiptsInv
<1>6. CASE PeerStatus(t, r) \notin ReceiptStatus
  BY <1>4, <1>6 DEF PeerAccepts, ReceiptsInv
<1>7. QED
  BY <1>5, <1>6

(* A step after which every receipt's record is still where it was promised.  *)
LEMMA LocalStep ==
  ASSUME TypeOK, ReceiptsInv, UNCHANGED <<now, issued, peer>>,
         ASSUME NEW r \in Record, NEW e \in Int, now < Stored(e), Promised(rows, r, e)
         PROVE  Promised(rows', r, e)
  PROVE  ReceiptsInv'
<1> SUFFICES ASSUME NEW i \in issued PROVE HereKept(i)' /\ ThereKept(i)'
  BY DEF ReceiptsInv
<1>1. HereKept(i)'
  BY ReceiptFacts DEF ReceiptsInv, HereKept
<1>2. ThereKept(i)'
  BY DEF ReceiptsInv, ThereKept, PeerNow
<1>3. QED
  BY <1>1, <1>2

LEMMA PurgingStep ==
  ASSUME TypeOK, ReceiptsInv, UNCHANGED <<now, issued, peer>>,
         rows' = rows \/ rows' = Purged(rows, now)
  PROVE  ReceiptsInv'
<1>1. rows \in Store /\ now \in Int
  BY DEF TypeOK
<1>2. ASSUME NEW r \in Record, NEW e \in Int, now < Stored(e), Promised(rows, r, e)
      PROVE  Promised(rows', r, e)
  BY <1>1, <1>2, PurgeKeepsPromise
<1>3. QED
  BY <1>2, LocalStep

-----------------------------------------------------------------------------
(* The rows behind the receipts of every store stay where they are until they *)
(* expire, in every reachable state.                                          *)
THEOREM ReceiptsInvariant == Spec => []ReceiptsInv
<1>1. Init => ReceiptsInv
  BY DEF Init, ReceiptsInv
<1>2. TypeOK /\ ReceiptsInv /\ [Next]_vars => ReceiptsInv'
  <2> SUFFICES ASSUME TypeOK, ReceiptsInv, [Next]_vars PROVE ReceiptsInv'
    OBVIOUS
  <2>s. rows \in Store /\ now \in Int /\ Purged(rows, now) \in Store
    BY PurgedKeeps DEF TypeOK
  <2>1. ASSUME NEW c \in Config, Start(c) PROVE ReceiptsInv'
    BY <2>1, PurgingStep DEF Start
  <2>2. CASE Crash
    BY <2>2, PurgingStep DEF Crash
  <2>3. CASE Tick
    <3> SUFFICES ASSUME NEW i \in issued PROVE HereKept(i)' /\ ThereKept(i)'
      BY <2>3 DEF Tick, ReceiptsInv
    <3>1. Stored(i.expires) \in Int /\ (i.at # Here => Skew[i.at] \in Int)
      BY ReceiptFacts, StoredBounds, ForwardingAssumption
    <3>2. HereKept(i)'
      BY <2>3, <2>s, <3>1 DEF Tick, ReceiptsInv, HereKept
    <3>3. ThereKept(i)'
      BY <2>3, <2>s, <3>1 DEF Tick, ReceiptsInv, ThereKept, PeerNow
    <3>4. QED
      BY <3>2, <3>3
  <2>4. ASSUME NEW c \in Client, NEW r \in Record, Post(c, r) PROVE ReceiptsInv'
    <3>1. config.policy \in Policy /\ Forwarding \in BOOLEAN
      BY <2>4, ConfigFacts DEF TypeOK, Post, Up, Forwarding
    <3>2. ASSUME NEW i \in issued PROVE HereKept(i)' /\ ThereKept(i)'
      <4>1. HereKept(i)'
        <5>1. SUFFICES ASSUME i.at = Here, now < Stored(i.expires)
                       PROVE  Promised(rows', i.record, i.expires)
          BY <2>4 DEF Post, HereKept
        <5>2. Promised(rows, i.record, i.expires)
          BY <3>2, <5>1 DEF ReceiptsInv, HereKept
        <5>3. QED
          BY <2>4, <2>s, <3>1, <3>2, <5>1, <5>2, ReceiptFacts, AcceptKeepsPromise DEF Post
      <4>2. ThereKept(i)'
        BY <2>4, <3>2 DEF Post, ReceiptsInv, ThereKept, PeerNow
      <4>3. QED
        BY <4>1, <4>2
    <3>3. CASE AcceptStatus(rows, config.policy, r, now) \in ReceiptStatus
      <4> DEFINE e       == ReceiptExpiry(rows, config.policy, r, now)
                 receipt == [at |-> Here, record |-> r, expires |-> e]
      <4>1. issued' = issued \cup {receipt}
        BY <2>4, <3>3 DEF Post
      <4>2. Promised(rows', r, e)
        BY <2>4, <2>s, <3>1, <3>3, FreshReceipt DEF Post
      <4>3. ASSUME NEW i, i = receipt PROVE HereKept(i)' /\ ThereKept(i)'
        <5>1. i.at = Here /\ i.record = r /\ i.expires = e
          BY <4>3
        <5>2. QED
          BY <4>2, <5>1 DEF HereKept, ThereKept
      <4> HIDE DEF receipt
      <4>4. QED
        BY <3>2, <4>1, <4>3 DEF ReceiptsInv
    <3>4. CASE AcceptStatus(rows, config.policy, r, now) \notin ReceiptStatus
      BY <2>4, <3>2, <3>4 DEF Post, ReceiptsInv
    <3>5. QED
      BY <3>3, <3>4
  <2>5. ASSUME NEW c \in Client, NEW k \in Key, Retry(c, k) PROVE ReceiptsInv'
    <3> DEFINE kept == Purged(rows, now)
    <3>1. CASE rows' = kept
      BY <2>5, <3>1, PurgingStep DEF Retry
    <3>2. CASE CanRetry(kept, k) /\ rows' = AfterRetry(kept, k)
      <4>1. ASSUME NEW r \in Record, NEW e \in Int, now < Stored(e), Promised(rows, r, e)
            PROVE  Promised(rows', r, e)
        <5>1. Promised(kept, r, e) /\ KeyOf[r] \in Key
          BY <2>s, <4>1, PurgeKeepsPromise, RecordAssumption
        <5>2. QED
          BY <2>s, <3>2, <5>1, RetryOutcome DEF Promised, Holds
      <4>2. QED
        BY <2>5, <4>1, LocalStep DEF Retry
    <3>3. QED
      BY <2>5, <3>1, <3>2 DEF Retry
  <2>6. CASE Lookup
    BY <2>6, PurgingStep DEF Lookup
  <2>7. CASE Housekeep
    BY <2>7, PurgingStep DEF Housekeep
  <2>8. CASE Fetch
    BY <2>8, PurgingStep DEF Fetch
  <2>9. CASE GiveUp \/ JudgeReceipt \/ JudgeRefusal \/ ResultLost \/ Refuse
    BY <2>9, PurgingStep DEF GiveUp, JudgeReceipt, JudgeRefusal, ResultLost, Refuse
  <2>10. CASE RecordResult
    <3>1. /\ KeyOf[job.record] \in Key /\ now + Backoff(job.attempts) \in Nat
          /\ answer.delivery \in Delivery /\ answer.error \in ErrorCode \cup {NoError}
      BY <2>10, RecordAssumption, BackoffIsTime
         DEF TypeOK, RecordResult, Job, Verdict, Delivery
    <3>2. ASSUME NEW r \in Record, NEW e \in Int, now < Stored(e), Promised(rows, r, e)
          PROVE  Promised(rows', r, e)
      <4>1. Promised(AfterDelivery(rows, KeyOf[job.record], answer.delivery, answer.error,
                                   now + Backoff(job.attempts)), r, e)
        BY <2>s, <3>1, <3>2, DeliveryKeepsPromise
      <4>2. QED
        BY <2>10, <4>1 DEF RecordResult
    <3>3. QED
      BY <2>10, <3>2, LocalStep DEF RecordResult
  <2>11. CASE Arrive
    <3>1. config.forward \in Target /\ job.record \in Record
      BY <2>11, ConfigFacts DEF TypeOK, Arrive, Job
    <3>2. QED
      BY <2>11, <3>1, PeerAcceptsReceipts DEF Arrive
  <2>12. ASSUME NEW q \in strays, StrayArrives(q) PROVE ReceiptsInv'
    <3>1. q.to \in Target /\ q.record \in Record
      BY DEF TypeOK, Request
    <3>2. QED
      BY <2>12, <3>1, PeerAcceptsReceipts DEF StrayArrives
  <2>13. ASSUME NEW t \in Target, NEW r \in Record, PeerPost(t, r) PROVE ReceiptsInv'
    BY <2>13, PeerAcceptsReceipts DEF PeerPost
  <2>14. ASSUME NEW t \in Target, PeerHousekeep(t) PROVE ReceiptsInv'
    <3>1. peer[t] \in Store /\ PeerNow(t) \in Int
      BY PeerFacts DEF TypeOK
    <3>2. peer' = [peer EXCEPT ![t] = Purged(peer[t], PeerNow(t))]
      BY <2>14 DEF PeerHousekeep
    <3> SUFFICES ASSUME NEW i \in issued PROVE HereKept(i)' /\ ThereKept(i)'
      BY <2>14 DEF PeerHousekeep, ReceiptsInv
    <3>3. HereKept(i)'
      BY <2>14 DEF PeerHousekeep, ReceiptsInv, HereKept
    <3>4. ThereKept(i)'
      <4>1. SUFFICES ASSUME i.at # Here, PeerNow(i.at) < Stored(i.expires)
                     PROVE  Promised(peer'[i.at], i.record, i.expires)
        BY <2>14 DEF PeerHousekeep, ThereKept, PeerNow
      <4>2. Promised(peer[i.at], i.record, i.expires) /\ i.at \in Target
        BY <4>1, ReceiptFacts DEF ReceiptsInv, ThereKept
      <4>3. CASE i.at = t
        BY <3>1, <3>2, <4>1, <4>2, <4>3, ReceiptFacts, PurgeKeepsPromise DEF TypeOK
      <4>4. CASE i.at # t
        BY <3>2, <4>2, <4>4 DEF TypeOK
      <4>5. QED
        BY <4>3, <4>4
    <3>5. QED
      BY <3>3, <3>4
  <2>15. CASE UNCHANGED vars
    BY <2>15, PurgingStep DEF vars
  <2>16. QED
    BY <2>1, <2>2, <2>3, <2>4, <2>5, <2>6, <2>7, <2>8, <2>9, <2>10, <2>11, <2>12,
       <2>13, <2>14, <2>15
       DEF Next, Handlers, Worker, Network
<1>3. QED
  BY <1>1, <1>2, TypeCorrect, PTL DEF Spec

(* A client that holds the daemon's receipt can rely on it: the record is in  *)
(* the table until the millisecond of the expiry the receipt names, to expire *)
(* within it.                                                                 *)
THEOREM ReceiptsAreDurable == Spec => []ReceiptIsDurable
<1>1. ReceiptsInv => ReceiptIsDurable
  BY DEF ReceiptsInv, HereKept, ReceiptIsDurable, Promised
<1>2. QED
  BY <1>1, ReceiptsInvariant, PTL

(* So can the daemon on the receipts of its destinations, by their clocks.    *)
THEOREM PeerReceiptsAreDurable == Spec => []PeerReceiptIsDurable
<1>1. ReceiptsInv => PeerReceiptIsDurable
  BY DEF ReceiptsInv, ThereKept, PeerReceiptIsDurable, Promised
<1>2. QED
  BY <1>1, ReceiptsInvariant, PTL

-----------------------------------------------------------------------------
(* A step that changes no row but by purging respects refusals. *)
Sticky(k) == rows[k] # NoRow /\ rows[k].delivery = "failed" /\ rows[k].expires > now

LEMMA PurgeRespectsRefusals ==
  ASSUME TypeOK, rows' = rows \/ rows' = Purged(rows, now), NEW k \in Key, Sticky(k)
  PROVE  rows'[k] = rows[k]
BY PurgedKeeps DEF TypeOK, Sticky

(* An ordinary duplicate, a restart, an expiry of something else or an answer *)
(* that comes late does not revive a refused record: as long as it is         *)
(* retained, only the retry of a client whose bindings cover it changes it.   *)
THEOREM RefusalsWaitForAnOperator == Spec => FailureIsSticky
<1> DEFINE Kept == \A k \in Held(rows) :
       rows[k].delivery = "failed" /\ rows[k].expires > now /\ rows'[k] # rows[k] =>
         \E c \in Client : rows[k].record \in Permits[c] /\ Retry(c, k)
<1>1. TypeOK /\ [Next]_vars => [Kept]_vars
  <2> SUFFICES ASSUME TypeOK, [Next]_vars, NEW k \in Key, Sticky(k), rows'[k] # rows[k]
               PROVE  \E c \in Client : rows[k].record \in Permits[c] /\ Retry(c, k)
    BY DEF Held, Sticky
  <2>s. rows \in Store /\ now \in Int /\ Purged(rows, now) \in Store
    BY PurgedKeeps DEF TypeOK
  <2>p. rows # rows' /\ rows' # Purged(rows, now)
    BY PurgeRespectsRefusals
  <2>1. ASSUME NEW c \in Client, NEW r \in Record, Post(c, r) PROVE FALSE
    <3>1. config.policy \in Policy /\ Forwarding \in BOOLEAN /\ KeyOf[r] \in Key
      BY <2>1, ConfigFacts, RecordAssumption DEF TypeOK, Post, Up, Forwarding
    <3>2. /\ rows' = [Purged(rows, now) EXCEPT ![KeyOf[r]] = NewRow(config.policy, r, Forwarding)]
          /\ Purged(rows, now)[KeyOf[r]] = NoRow
      BY <2>1, <2>s, <2>p, <3>1, AcceptOutcome DEF Post
    <3>3. Purged(rows, now)[k] = rows[k] /\ rows[k] # NoRow
      BY <2>s, PurgedKeeps DEF Sticky
    <3>4. k # KeyOf[r] /\ rows'[k] = rows[k]
      BY <2>s, <3>1, <3>2, <3>3 DEF Store
    <3>5. QED
      BY <3>4
  <2>2. ASSUME NEW c \in Client, NEW o \in Key, Retry(c, o)
        PROVE  rows[k].record \in Permits[c] /\ Retry(c, k)
    <3> DEFINE kept == Purged(rows, now)
    <3>1. CanRetry(kept, o) /\ kept[o].record \in Permits[c] /\ rows' = AfterRetry(kept, o)
      BY <2>2, <2>p DEF Retry
    <3>2. kept[k] = rows[k]
      BY <2>s, PurgedKeeps DEF Sticky
    <3>3. o = k
      BY <2>s, <3>1, <3>2, RetryOutcome
    <3>4. QED
      BY <2>2, <3>1, <3>2, <3>3
  <2>3. CASE RecordResult
    <3>1. /\ KeyOf[job.record] \in Key /\ now + Backoff(job.attempts) \in Nat
          /\ answer.delivery \in Delivery /\ answer.error \in ErrorCode \cup {NoError}
      BY <2>3, RecordAssumption, BackoffIsTime
         DEF TypeOK, RecordResult, Job, Verdict, Delivery
    <3> DEFINE sent == KeyOf[job.record]
    <3>2. rows[sent].delivery = "pending"
      BY <2>3, <2>p DEF RecordResult, AfterDelivery
    <3>3. \A o \in Key : o # sent => rows'[o] = rows[o]
      BY <2>3, <2>s DEF RecordResult, AfterDelivery, Store
    <3>4. QED
      BY <2>p, <3>2, <3>3 DEF Sticky
  <2>4. QED
    BY <2>1, <2>2, <2>3, <2>p
       DEF Next, Handlers, Worker, Network, vars, Start, Crash, Tick, Lookup, Housekeep, Fetch,
           GiveUp, JudgeReceipt, JudgeRefusal, ResultLost, Arrive, Refuse, StrayArrives,
           PeerPost, PeerHousekeep
<1>2. QED
  BY <1>1, TypeCorrect, PTL DEF Spec, FailureIsSticky

-----------------------------------------------------------------------------
(* IV. Every step of RunForwarding is a step of RunOutbox, or leaves its      *)
(* variables alone.                                                           *)

Expired(store, n) == {k \in Key : store[k] # NoRow /\ store[k].expires <= n}

LEMMA EntryFacts ==
  ASSUME NEW row \in Row \cup {NoRow}
  PROVE  /\ OutboxEntry(row) = NoRow <=> row = NoRow
         /\ row # NoRow => /\ OutboxEntry(row).record = row.record
                          /\ OutboxEntry(row).until = row.expires
                          /\ OutboxEntry(row).state = row.delivery
<1>1. CASE row # NoRow
  <2> DEFINE e == [record |-> row.record, until |-> row.expires, state |-> row.delivery]
  <2>1. e \in [record: Record, until: Int, state: Delivery]
    BY <1>1 DEF Row
  <2>2. e # NoRow
    BY <2>1, OutboxAssumption
  <2>3. OutboxEntry(row) = e
    BY <1>1 DEF OutboxEntry
  <2>4. QED
    BY <1>1, <2>2, <2>3
<1>2. QED
  BY <1>1 DEF OutboxEntry

(* purge forgets entries that have lapsed, and no others. *)
LEMMA PurgeForgets ==
  ASSUME rows \in Store, now \in Int
  PROVE  /\ Expired(rows, now) \in SUBSET Promise!Lapsed
         /\ Entries(Purged(rows, now)) = Promise!Without(Expired(rows, now))
<1>1. ASSUME NEW k \in Key
      PROVE  /\ rows[k] \in Row \cup {NoRow}
             /\ Entries(rows)[k] = OutboxEntry(rows[k])
  BY DEF Store, Entries
<1>2. Expired(rows, now) \in SUBSET Promise!Lapsed
  BY <1>1, EntryFacts DEF Expired, Promise!Lapsed, Promise!Present
<1>3. ASSUME NEW k \in Key
      PROVE  OutboxEntry(Purged(rows, now)[k])
               = IF k \in Expired(rows, now) THEN NoRow ELSE Entries(rows)[k]
  BY <1>1 DEF Purged, Expired, OutboxEntry
<1>4. Entries(Purged(rows, now)) = Promise!Without(Expired(rows, now))
  BY <1>3 DEF Entries, Promise!Without
<1>5. QED
  BY <1>2, <1>4

(* Steps that keep or purge the table and issue no peer receipt. *)
LEMMA PurgingImplements ==
  ASSUME TypeOK, rows' = rows \/ rows' = Purged(rows, now), now' = now, PeerAcks' = PeerAcks
  PROVE  [Promise!Step]_(Promise!outboxVars)
<1>1. CASE rows' = rows
  BY <1>1 DEF Promise!outboxVars, Entries
<1>2. CASE rows' = Purged(rows, now)
  <2>1. rows \in Store /\ now \in Int
    BY DEF TypeOK
  <2>2. Entries(rows)' = Promise!Without(Expired(rows, now))
    BY <1>2, <2>1, PurgeForgets DEF Entries
  <2>3. Promise!Forget(Expired(rows, now))
    BY <2>2 DEF Promise!Forget
  <2>4. QED
    BY <2>1, <2>3, PurgeForgets DEF Promise!Step
<1>3. QED
  BY <1>1, <1>2

(* A destination's accept at most acknowledges. *)
LEMMA AcknowledgingImplements ==
  ASSUME issued \subseteq issued', UNCHANGED <<now, rows>>
  PROVE  [Promise!Step]_(Promise!outboxVars)
<1>1. PeerAcks \subseteq PeerAcks'
  BY DEF PeerAcks
<1>2. Promise!Acknowledge
  BY <1>1 DEF Promise!Acknowledge, Entries
<1>3. QED
  BY <1>2 DEF Promise!Step

(* An accepted post captures an entry. *)
LEMMA PostImplements ==
  ASSUME TypeOK, NEW c \in Client, NEW r \in Record, Post(c, r)
  PROVE  [Promise!Step]_(Promise!outboxVars)
<1>1. /\ rows \in Store /\ now \in Int /\ config.policy \in Policy /\ Forwarding \in BOOLEAN
      /\ KeyOf[r] \in Key
  BY ConfigFacts, RecordAssumption DEF TypeOK, Post, Up, Forwarding
<1> DEFINE kept   == Purged(rows, now)
           status == AcceptStatus(rows, config.policy, r, now)
           row    == NewRow(config.policy, r, Forwarding)
           k      == KeyOf[r]
           S      == Expired(rows, now)
<1>2. PeerAcks' = PeerAcks
  <2>1. CASE status \in ReceiptStatus
    <3> DEFINE receipt == [at |-> Here, record |-> r,
                           expires |-> ReceiptExpiry(rows, config.policy, r, now)]
    <3>1. issued' = issued \cup {receipt} /\ receipt.at = Here
      BY <2>1 DEF Post
    <3> HIDE DEF receipt
    <3>2. {j \in issued' : j.at # Here} = {j \in issued : j.at # Here}
      BY <3>1
    <3>3. QED
      BY <3>2 DEF PeerAcks
  <2>2. CASE status \notin ReceiptStatus
    BY <2>2 DEF Post, PeerAcks
  <2>3. QED
    BY <2>1, <2>2
<1>3. now' = now
  BY DEF Post
<1>4. CASE status # "accepted"
  <2>1. rows' = rows \/ rows' = kept
    BY <1>1, <1>4, AcceptOutcome DEF Post
  <2>2. QED
    BY <1>2, <1>3, <2>1, PurgingImplements
<1>5. CASE status = "accepted"
  <2>1. /\ kept[k] = NoRow /\ kept \in Store
        /\ rows' = [kept EXCEPT ![k] = row]
    BY <1>1, <1>5, AcceptOutcome, PurgedKeeps DEF Post
  <2>2. row \in Row /\ row # NoRow /\ row.delivery \in {"pending", "local"}
    <3>1. row.delivery \in {"pending", "local"}
      BY DEF NewRow
    <3>2. row \in Row
      BY <1>1, NewRowIsRow
    <3>3. QED
      BY <3>1, <3>2, NullAssumption
  <2> HIDE DEF row
  <2>3. Promise!Without(S)[k] = NoRow
    <3>1. Entries(kept)[k] = NoRow
      BY <1>1, <2>1 DEF Entries, OutboxEntry
    <3>2. QED
      BY <1>1, <3>1, PurgeForgets
  <2>4. Entries(rows)' = [Promise!Without(S) EXCEPT ![k] = OutboxEntry(row)]
    <3>1. Entries(rows)' = [Entries(kept) EXCEPT ![k] = OutboxEntry(row)]
      BY <1>1, <2>1 DEF Entries, Store
    <3>2. QED
      BY <1>1, <3>1, PurgeForgets
  <2>5. Entries(rows)'[k] = OutboxEntry(row)
    BY <1>1, <2>1 DEF Entries, Store
  <2>6. /\ Entries(rows)'[k] # NoRow
        /\ Entries(rows)'[k].state \in {"pending", "local"}
    BY <2>2, <2>5, EntryFacts
  <2>7. Promise!Capture(k, S)
    BY <1>2, <1>3, <2>3, <2>4, <2>5, <2>6 DEF Promise!Capture
  <2>8. S \in SUBSET Promise!Lapsed
    BY <1>1, PurgeForgets
  <2>9. QED
    BY <1>1, <2>7, <2>8 DEF Promise!Step
<1>6. QED
  BY <1>4, <1>5

(* An operator's retry requeues a refused entry. *)
LEMMA RetryImplements ==
  ASSUME TypeOK, NEW c \in Client, NEW k \in Key, Retry(c, k)
  PROVE  [Promise!Step]_(Promise!outboxVars)
<1>1. rows \in Store /\ now \in Int /\ now' = now /\ PeerAcks' = PeerAcks
  BY DEF TypeOK, Retry, PeerAcks
<1> DEFINE kept == Purged(rows, now)
           S    == Expired(rows, now)
<1>2. CASE rows' = kept
  BY <1>1, <1>2, PurgingImplements
<1>3. CASE CanRetry(kept, k) /\ rows' = AfterRetry(kept, k)
  <2>1. /\ kept \in Store /\ kept[k] # NoRow /\ kept[k].delivery = "failed"
        /\ rows[k] # NoRow /\ kept[k] = rows[k] /\ rows[k].expires > now
    BY <1>1, <1>3, PurgedKeeps DEF CanRetry
  <2>2. /\ \A o \in Key : o # k => rows'[o] = kept[o]
        /\ rows'[k] # NoRow /\ rows'[k].delivery = "pending" /\ rows'[k].record = kept[k].record
        /\ rows'[k].expires = kept[k].expires /\ rows' \in Store
    BY <1>3, <2>1, RetryOutcome
  <2>3. k \notin S /\ rows[k] \in Row \cup {NoRow}
    BY <1>1, <2>1 DEF Expired, Store, Row
  <2>4. Entries(rows)[k].state = "failed" /\ k \in Promise!Present
    BY <2>1, <2>3, EntryFacts DEF Entries, Promise!Present
  <2>5. Promise!Without(S)[k] = [record |-> kept[k].record, until |-> kept[k].expires,
                                 state |-> "failed"]
    BY <2>1, <2>3 DEF Promise!Without, Entries, OutboxEntry
  <2>6. Entries(rows)' = [Promise!Without(S) EXCEPT ![k].state = "pending"]
    <3>1. \A o \in Key : o # k => Entries(rows)'[o] = Promise!Without(S)[o]
      <4>1. \A o \in Key : Promise!Without(S)[o] = OutboxEntry(kept[o])
        BY <1>1, PurgeForgets DEF Entries
      <4>2. QED
        BY <2>2, <4>1 DEF Entries
    <3>2. Entries(rows)'[k] = [record |-> kept[k].record, until |-> kept[k].expires,
                               state |-> "pending"]
      BY <2>2 DEF Entries, OutboxEntry
    <3> DEFINE W == Promise!Without(S)
               E == Entries(rows)'
    <3>3. W = [o \in Key |-> W[o]] /\ E = [o \in Key |-> E[o]]
      BY DEF Entries, Promise!Without
    <3>4. [W[k] EXCEPT !.state = "pending"] = E[k]
      BY <2>5, <3>2
    <3> HIDE DEF W, E
    <3>5. QED
      BY <3>1, <3>3, <3>4 DEF W, E
  <2>7. Promise!Requeue(k, S)
    BY <1>1, <2>3, <2>4, <2>6 DEF Promise!Requeue
  <2>8. S \in SUBSET Promise!Lapsed
    BY <1>1, PurgeForgets
  <2>9. QED
    BY <2>7, <2>8 DEF Promise!Step
<1>4. QED
  BY <1>2, <1>3 DEF Retry

(* A recorded result hands an acknowledged entry over, refuses one, or leaves *)
(* the entry pending.                                                         *)
LEMMA ResultImplements ==
  ASSUME TypeOK, DeliveryInv, RecordResult
  PROVE  [Promise!Step]_(Promise!outboxVars)
<1> DEFINE k == KeyOf[job.record]
<1>1. /\ answer.delivery \in {"pending", "delivered", "failed"}
      /\ answer.error \in ErrorCode \cup {NoError}
      /\ config.forward \in Target
      /\ now' = now /\ PeerAcks' = PeerAcks
  BY ConfigFacts DEF TypeOK, RecordResult, Verdict, Up, PeerAcks
<1>2. /\ k \in Key /\ now + Backoff(job.attempts) \in Nat /\ rows \in Store
      /\ answer.delivery \in Delivery /\ answer.error \in ErrorCode \cup {NoError}
  BY <1>1, RecordAssumption, BackoffIsTime DEF TypeOK, RecordResult, Job, Delivery
<1>3. /\ rows' \in Store
      /\ \A o \in Key : o # k => rows'[o] = rows[o]
      /\ \/ rows' = rows
         \/ /\ rows[k] # NoRow /\ rows[k].delivery = "pending"
            /\ rows'[k] # NoRow /\ rows'[k].delivery = answer.delivery
            /\ rows'[k].record = rows[k].record /\ rows'[k].expires = rows[k].expires
  <2> DEFINE at    == now + Backoff(job.attempts)
             after == AfterDelivery(rows, k, answer.delivery, answer.error, at)
  <2>1. rows' = after
    BY DEF RecordResult
  <2>2. k \in Key /\ at \in Nat
    BY <1>2
  <2> HIDE DEF k, at
  <2> DEFINE d == answer.delivery
             e == answer.error
  <2>3. d \in Delivery /\ e \in ErrorCode \cup {NoError} /\ rows \in Store
    BY <1>2
  <2>4. after = AfterDelivery(rows, k, d, e, at)
    OBVIOUS
  <2> HIDE DEF d, e, after
  <2>5. after \in Store /\ \A o \in Key : o # k => after[o] = rows[o]
    BY <2>2, <2>3, <2>4, DeliveryOutcome
  <2>6. \/ after = rows
        \/ /\ rows[k] # NoRow /\ rows[k].delivery = "pending"
           /\ after[k] # NoRow /\ after[k].delivery = d
           /\ after[k].record = rows[k].record /\ after[k].expires = rows[k].expires
    BY <2>2, <2>3, <2>4, DeliveryOutcome
  <2>7. QED
    BY <2>1, <2>5, <2>6 DEF d
<1>4. CASE rows' = rows
  BY <1>1, <1>2, <1>4, PurgingImplements
<1>5. CASE rows' # rows
  <2>1. /\ rows[k] # NoRow /\ rows[k] \in Row \cup {NoRow} /\ rows[k].delivery = "pending"
        /\ rows'[k] # NoRow /\ rows'[k].delivery = answer.delivery
        /\ rows'[k].record = rows[k].record /\ rows'[k].expires = rows[k].expires
    BY <1>2, <1>3, <1>5 DEF Store
  <2>2. k \in Promise!Present /\ Entries(rows)[k].state = "pending"
    BY <1>1, <1>2, <2>1, EntryFacts DEF Entries, Promise!Present
  <2>3. Entries(rows)[k] = [record |-> rows[k].record, until |-> rows[k].expires,
                            state |-> "pending"]
    BY <1>1, <1>2, <2>1 DEF Entries, OutboxEntry
  <2>4. Entries(rows)' = [Entries(rows) EXCEPT ![k].state = answer.delivery]
    <3>1. \A o \in Key : o # k => Entries(rows)'[o] = Entries(rows)[o]
      BY <1>3 DEF Entries
    <3>2. Entries(rows)'[k] = [record |-> rows[k].record, until |-> rows[k].expires,
                               state |-> answer.delivery]
      BY <1>1, <1>2, <2>1 DEF Entries, OutboxEntry
    <3>3. QED
      BY <1>1, <1>2, <2>3, <3>1, <3>2 DEF Entries
  <2>5. CASE answer.delivery = "pending"
    <3>1. Entries(rows)' = Entries(rows)
      BY <1>1, <1>2, <2>3, <2>4, <2>5 DEF Entries
    <3>2. QED
      BY <1>1, <1>2, <3>1 DEF Promise!outboxVars
  <2>6. CASE answer.delivery = "failed"
    <3>1. Promise!Refuse(k)
      BY <1>1, <1>2, <2>2, <2>4, <2>6 DEF Promise!Refuse, Promise!Move
    <3>2. QED
      BY <1>1, <1>2, <3>1 DEF Promise!Step
  <2>7. CASE answer.delivery = "delivered"
    <3>1. Acknowledged(config.forward, job.record)
      BY <2>7 DEF RecordResult, DeliveryInv, WorkerIsHonest
    <3>2. <<config.forward, k>> \in PeerAcks
      BY <1>1, <1>2, <3>1, ForwardingAssumption DEF Acknowledged, PeerAcks, Here
    <3>3. Promise!HandOver(k)
      BY <1>1, <1>2, <2>2, <2>4, <2>7, <3>2 DEF Promise!HandOver, Promise!Move
    <3>4. QED
      BY <1>1, <1>2, <3>3 DEF Promise!Step
  <2>8. QED
    BY <1>1, <1>2, <2>5, <2>6, <2>7
<1>6. QED
  BY <1>4, <1>5

-----------------------------------------------------------------------------
(* The daemon, with its worker, its network, its destinations, their clocks,  *)
(* restarts and reconfigurations, implements the outbox.                      *)
THEOREM DaemonImplementsOutbox == Spec => ImplementsOutbox
<1>1. Init => Promise!Start
  BY EntryFacts DEF Init, EmptyStore, Promise!Start, Entries, OutboxEntry, PeerAcks
<1>2. TypeOK /\ DeliveryInv /\ [Next]_vars => [Promise!Step]_(Promise!outboxVars)
  <2> SUFFICES ASSUME TypeOK, DeliveryInv, [Next]_vars
               PROVE  [Promise!Step]_(Promise!outboxVars)
    OBVIOUS
  <2>1. ASSUME NEW c \in Config, Start(c) PROVE [Promise!Step]_(Promise!outboxVars)
    BY <2>1, PurgingImplements DEF Start, PeerAcks
  <2>2. CASE Crash \/ GiveUp \/ JudgeReceipt \/ JudgeRefusal \/ ResultLost \/ Refuse
    BY <2>2, PurgingImplements
       DEF Crash, GiveUp, JudgeReceipt, JudgeRefusal, ResultLost, Refuse, PeerAcks
  <2>3. CASE Tick
    <3>1. Promise!Advance
      BY <2>3 DEF Tick, TypeOK, Promise!Advance, Entries, PeerAcks
    <3>2. QED
      BY <3>1 DEF Promise!Step
  <2>4. ASSUME NEW c \in Client, NEW r \in Record, Post(c, r)
        PROVE  [Promise!Step]_(Promise!outboxVars)
    BY <2>4, PostImplements
  <2>5. ASSUME NEW c \in Client, NEW k \in Key, Retry(c, k)
        PROVE  [Promise!Step]_(Promise!outboxVars)
    BY <2>5, RetryImplements
  <2>6. CASE Lookup \/ Housekeep \/ Fetch
    BY <2>6, PurgingImplements DEF Lookup, Housekeep, Fetch, PeerAcks
  <2>7. CASE RecordResult
    BY <2>7, ResultImplements
  <2>8. CASE Arrive
    <3>1. config.forward \in Target /\ job.record \in Record
      BY <2>8, ConfigFacts DEF TypeOK, Arrive, Job
    <3>2. QED
      BY <2>8, <3>1, PeerAcceptsOutcome, AcknowledgingImplements DEF Arrive
  <2>9. ASSUME NEW q \in strays, StrayArrives(q) PROVE [Promise!Step]_(Promise!outboxVars)
    <3>1. q.to \in Target /\ q.record \in Record
      BY DEF TypeOK, Request
    <3>2. QED
      BY <2>9, <3>1, PeerAcceptsOutcome, AcknowledgingImplements DEF StrayArrives
  <2>10. ASSUME NEW t \in Target, NEW r \in Record, PeerPost(t, r)
         PROVE  [Promise!Step]_(Promise!outboxVars)
    BY <2>10, PeerAcceptsOutcome, AcknowledgingImplements DEF PeerPost
  <2>11. ASSUME NEW t \in Target, PeerHousekeep(t) PROVE [Promise!Step]_(Promise!outboxVars)
    BY <2>11, AcknowledgingImplements DEF PeerHousekeep
  <2>12. CASE UNCHANGED vars
    BY <2>12, PurgingImplements DEF vars, PeerAcks
  <2>13. QED
    BY <2>1, <2>2, <2>3, <2>4, <2>5, <2>6, <2>7, <2>8, <2>9, <2>10, <2>11, <2>12
       DEF Next, Handlers, Worker, Network
<1>3. QED
  BY <1>1, <1>2, TypeCorrect, DeliveryInvariant, PTL
     DEF Spec, ImplementsOutbox, Promise!Outbox

-----------------------------------------------------------------------------
(* V. What the store may hold: the bytes of a table are a sum, to which a row  *)
(* adds its own; what an accept admits is within the policy, and nothing but   *)
(* expiry takes a row away.                                                    *)

(* Sets of numbers that begin at 0 and go on are all of them: induction, with *)
(* the property given as the set of the numbers that have it.                 *)
LEMMA AllNumbers ==
  ASSUME NEW T \in SUBSET Nat, 0 \in T, \A n \in T : n + 1 \in T
  PROVE  T = Nat
<1> DEFINE Others == Nat \ T
           Less == OpToRel(<, Nat)
<1>1. SUFFICES ASSUME Others # {} PROVE FALSE
  OBVIOUS
<1>2. IsWellFoundedOn(Less, Nat)
  BY NatLessThanWellFounded
<1>3. Others \subseteq Nat
  OBVIOUS
<1>4. PICK n \in Others : \A m \in Others : <<m, n>> \notin Less
  <2> HIDE DEF Less, Others
  <2> QED  BY <1>1, <1>2, <1>3, WFMin
<1>5. n \in Nat /\ n # 0 /\ n - 1 \in Nat /\ n - 1 < n /\ n = (n - 1) + 1
  OBVIOUS
<1>6. n - 1 \notin Others
  <2>1. <<n - 1, n>> \in Less
    BY <1>5 DEF OpToRel
  <2> HIDE DEF Less
  <2> QED  BY <1>4, <2>1
<1> QED  BY <1>5, <1>6

(* A sum over the subsets of a set, as the store computes it: an element is    *)
(* picked and its weight added to the sum over the rest.                      *)
Pick(s) == CHOOSE x \in s : TRUE
Adds(G, D, w) == G = [s \in SUBSET D |-> IF s = {} THEN 0 ELSE w[Pick(s)] + G[s \ {Pick(s)}]]

LEMMA Smaller ==
  ASSUME NEW s, IsFiniteSet(s), NEW n \in Nat, Cardinality(s) = n + 1, NEW x \in s
  PROVE  IsFiniteSet(s \ {x}) /\ Cardinality(s \ {x}) = n
BY FS_RemoveElement

LEMMA Picked == ASSUME NEW s, s # {} PROVE Pick(s) \in s
BY DEF Pick

LEMMA SumsExist == ASSUME NEW D, IsFiniteSet(D), NEW w PROVE \E G : Adds(G, D, w)
<1> DEFINE UpTo(n) == {s \in SUBSET D : Cardinality(s) <= n}
           Value(G, s) == IF s = {} THEN 0 ELSE w[Pick(s)] + G[s \ {Pick(s)}]
           T == {n \in Nat : \E G : G = [s \in UpTo(n) |-> Value(G, s)]}
<1>1. ASSUME NEW s \in SUBSET D PROVE IsFiniteSet(s) /\ Cardinality(s) \in Nat
  BY <1>1, FS_Subset, FS_CardinalityType
<1>2. 0 \in T
  <2> DEFINE G == [s \in UpTo(0) |-> 0]
  <2>1. ASSUME NEW s \in UpTo(0) PROVE s = {}
    BY <1>1, <2>1, FS_EmptySet
  <2>2. G = [s \in UpTo(0) |-> Value(G, s)]
    BY <2>1
  <2> QED  BY <2>2
<1>3. ASSUME NEW n \in T PROVE n + 1 \in T
  <2>1. n \in Nat
    OBVIOUS
  <2>2. PICK G : G = [s \in UpTo(n) |-> Value(G, s)]
    OBVIOUS
  <2> DEFINE H == [s \in UpTo(n + 1) |-> Value(G, s)]
  <2>3. ASSUME NEW s \in UpTo(n + 1) PROVE Value(H, s) = Value(G, s)
    <3>1. CASE s = {}
      BY <3>1
    <3>2. CASE s # {}
      <4> DEFINE rest == s \ {Pick(s)}
      <4>1. Pick(s) \in s /\ IsFiniteSet(s) /\ s \in SUBSET D
        BY <1>1, <3>2, Picked
      <4>2. Cardinality(rest) = Cardinality(s) - 1 /\ rest \in SUBSET D
        BY <4>1, FS_RemoveElement
      <4>3. rest \in UpTo(n) /\ rest \in UpTo(n + 1)
        BY <1>1, <2>1, <4>1, <4>2
      <4>4. H[rest] = G[rest]
        BY <2>2, <4>3
      <4> QED  BY <3>2, <4>4
    <3> QED  BY <3>1, <3>2
  <2>4. H = [s \in UpTo(n + 1) |-> Value(H, s)]
    BY <2>3
  <2>5. n + 1 \in Nat
    BY <2>1
  <2> QED  BY <2>4, <2>5
<1>4. T = Nat
  <2>1. T \in SUBSET Nat
    OBVIOUS
  <2> HIDE DEF T
  <2> QED  BY <1>2, <1>3, <2>1, AllNumbers
<1>5. Cardinality(D) \in Nat /\ UpTo(Cardinality(D)) = SUBSET D
  BY FS_Subset, FS_CardinalityType
<1>6. PICK G : G = [s \in UpTo(Cardinality(D)) |-> Value(G, s)]
  BY <1>4, <1>5
<1> QED  BY <1>5, <1>6 DEF Adds

(* Two sums that weigh the elements of a set alike agree on it.                *)
LEMMA SumsAgree ==
  ASSUME NEW D, NEW E, NEW G, NEW H, NEW v, NEW w, Adds(G, D, v), Adds(H, E, w),
         NEW S, IsFiniteSet(S), S \subseteq D, S \subseteq E, \A x \in S : v[x] = w[x]
  PROVE  G[S] = H[S]
<1> DEFINE T == {n \in Nat : \A s \in SUBSET S : Cardinality(s) = n => G[s] = H[s]}
<1>1. ASSUME NEW s \in SUBSET S PROVE IsFiniteSet(s) /\ Cardinality(s) \in Nat
  BY <1>1, FS_Subset, FS_CardinalityType
<1>2. 0 \in T
  <2>1. ASSUME NEW s \in SUBSET S, Cardinality(s) = 0 PROVE s = {}
    BY <1>1, <2>1, FS_EmptySet
  <2>2. G[{}] = 0 /\ H[{}] = 0
    BY DEF Adds
  <2> QED  BY <2>1, <2>2
<1>3. ASSUME NEW n \in T PROVE n + 1 \in T
  <2>1. n \in Nat /\ n + 1 \in Nat
    OBVIOUS
  <2>2. ASSUME NEW s \in SUBSET S, Cardinality(s) = n + 1 PROVE G[s] = H[s]
    <3> DEFINE rest == s \ {Pick(s)}
    <3>1. s # {}
      <4>1. Cardinality({}) = 0 /\ n + 1 # 0
        BY <2>1, FS_EmptySet
      <4> QED  BY <2>2, <4>1
    <3>2. Pick(s) \in s
      BY <3>1, Picked
    <3>3. rest \in SUBSET S /\ Cardinality(rest) = n
      BY <1>1, <2>1, <2>2, <3>2, Smaller
    <3>4. G[rest] = H[rest]
      BY <3>3
    <3>5. G[s] = v[Pick(s)] + G[rest]
      <4>1. s \in SUBSET D
        OBVIOUS
      <4> QED  BY <3>1, <4>1 DEF Adds
    <3>6. H[s] = w[Pick(s)] + H[rest]
      <4>1. s \in SUBSET E
        OBVIOUS
      <4> QED  BY <3>1, <4>1 DEF Adds
    <3>7. v[Pick(s)] = w[Pick(s)]
      BY <3>2
    <3> HIDE DEF rest
    <3> QED  BY <3>4, <3>5, <3>6, <3>7
  <2> QED  BY <2>1, <2>2
<1>4. T = Nat
  <2>1. T \in SUBSET Nat
    OBVIOUS
  <2> HIDE DEF T
  <2> QED  BY <1>2, <1>3, <2>1, AllNumbers
<1>5. Cardinality(S) \in T /\ S \in SUBSET S
  BY <1>1, <1>4
<1> QED  BY <1>5

(* Whichever element is taken away, the sum over the others is less by its     *)
(* weight.                                                                    *)
LEMMA SumsIgnoreOrder ==
  ASSUME NEW D, IsFiniteSet(D), NEW w \in [D -> Nat], NEW G, Adds(G, D, w)
  PROVE  \A s \in SUBSET D : G[s] \in Nat /\ \A x \in s : G[s] = w[x] + G[s \ {x}]
<1> DEFINE Good(s) == G[s] \in Nat /\ \A x \in s : G[s] = w[x] + G[s \ {x}]
           T == {n \in Nat : \A s \in SUBSET D : Cardinality(s) <= n => Good(s)}
<1>1. ASSUME NEW s \in SUBSET D PROVE IsFiniteSet(s) /\ Cardinality(s) \in Nat
  BY <1>1, FS_Subset, FS_CardinalityType
<1>2. 0 \in T
  <2>1. ASSUME NEW s \in SUBSET D, Cardinality(s) <= 0 PROVE s = {}
    BY <1>1, <2>1, FS_EmptySet
  <2>2. G[{}] = 0
    BY DEF Adds
  <2>3. Good({})
    BY <2>2
  <2> HIDE DEF Good
  <2> QED  BY <2>1, <2>3
<1>3. ASSUME NEW n \in T PROVE n + 1 \in T
  <2>1. n \in Nat /\ n + 1 \in Nat
    OBVIOUS
  <2>2. \A s \in SUBSET D : Cardinality(s) <= n => Good(s)
    OBVIOUS
  <2>3. ASSUME NEW s \in SUBSET D, Cardinality(s) = n + 1 PROVE Good(s)
    <3> DEFINE y == Pick(s)
    <3>1. s # {}
      <4>1. Cardinality({}) = 0 /\ n + 1 # 0
        BY <2>1, FS_EmptySet
      <4> QED  BY <2>3, <4>1
    <3>2. y \in s
      BY <3>1, Picked
    <3>3. ASSUME NEW x \in s PROVE s \ {x} \in SUBSET D /\ Cardinality(s \ {x}) = n /\ Good(s \ {x})
      <4>1. s \ {x} \in SUBSET D /\ Cardinality(s \ {x}) = n
        BY <1>1, <2>1, <2>3, Smaller
      <4> HIDE DEF Good
      <4> QED  BY <2>2, <4>1
    <3>4. G[s] = w[y] + G[s \ {y}]
      BY <3>1 DEF Adds
    <3> HIDE DEF y
    <3>5. G[s \ {y}] \in Nat /\ w[y] \in Nat
      BY <3>2, <3>3
    <3>6. ASSUME NEW x \in s PROVE G[s] = w[x] + G[s \ {x}]
      <4>1. CASE x = y
        BY <3>4, <4>1
      <4>2. CASE x # y
        <5> DEFINE rest == (s \ {y}) \ {x}
        <5>1. x \in s \ {y} /\ y \in s \ {x} /\ rest = (s \ {x}) \ {y}
          BY <3>2, <4>2
        <5>2. G[s \ {y}] = w[x] + G[rest]
          BY <3>2, <3>3, <5>1
        <5>3. G[s \ {x}] = w[y] + G[rest]
          <6>1. G[s \ {x}] = w[y] + G[(s \ {x}) \ {y}]
            BY <3>3, <5>1
          <6> QED  BY <5>1, <6>1
        <5>4. rest \in SUBSET D /\ w[x] \in Nat
          OBVIOUS
        <5>5. G[rest] \in Nat
          <6>1. IsFiniteSet(s \ {y}) /\ Cardinality(s \ {y}) = n
            BY <1>1, <3>2, <3>3
          <6>2. Cardinality(rest) <= n
            <7>1. Cardinality((s \ {y}) \ {x}) = Cardinality(s \ {y}) - 1
              BY <5>1, <6>1, FS_RemoveElement
            <7> QED  BY <2>1, <6>1, <7>1
          <6>3. Good(rest)
            <7> HIDE DEF Good, rest
            <7> QED  BY <2>2, <5>4, <6>2
          <6> QED  BY <6>3
        <5> HIDE DEF rest
        <5> QED  BY <3>4, <3>5, <5>2, <5>3, <5>4, <5>5
      <4> QED  BY <4>1, <4>2
    <3>7. G[s] \in Nat
      BY <3>4, <3>5
    <3> QED  BY <3>6, <3>7
  <2> HIDE DEF Good
  <2>4. ASSUME NEW s \in SUBSET D, Cardinality(s) <= n + 1 PROVE Good(s)
    <3>1. Cardinality(s) <= n \/ Cardinality(s) = n + 1
      BY <1>1, <2>1, <2>4
    <3> QED  BY <2>2, <2>3, <3>1
  <2> QED  BY <2>1, <2>4
<1>4. T = Nat
  <2>1. T \in SUBSET Nat
    OBVIOUS
  <2> HIDE DEF T
  <2> QED  BY <1>2, <1>3, <2>1, AllNumbers
<1> HIDE DEF Good
<1>5. ASSUME NEW s \in SUBSET D PROVE Good(s)
  <2>1. Cardinality(s) \in T /\ Cardinality(s) <= Cardinality(s)
    BY <1>1, <1>4
  <2> QED  BY <2>1
<1> QED  BY <1>5 DEF Good

(* The bytes of a table, as a sum, whatever table larger than it is looked at. *)
Weight(store) == [k \in Held(store) |-> Size[store[k].record]]

Folds(G, store) ==
  G = [s \in SUBSET Held(store) |->
         IF s = {} THEN 0
         ELSE LET x == CHOOSE y \in s : TRUE IN Size[store[x].record] + G[s \ {x}]]

LEMMA BytesAreAFold ==
  ASSUME NEW store, NEW G, Folds(G, store)
  PROVE  \E H : Folds(H, store) /\ Bytes(store) = H[Held(store)]
BY DEF Folds, Bytes, MapThenSumSet, MapThenFoldSet

LEMMA BytesAreASum ==
  ASSUME NEW store \in Store, IsFiniteSet(Held(store))
  PROVE  \E G : Adds(G, Held(store), Weight(store)) /\ Bytes(store) = G[Held(store)]
<1> DEFINE D == Held(store)
<1>1. PICK G : Adds(G, D, Weight(store))
  BY SumsExist
<1>2. ASSUME NEW H PROVE Adds(H, D, Weight(store)) <=> Folds(H, store)
  <2>1. ASSUME NEW s \in SUBSET D, s # {} PROVE Weight(store)[Pick(s)] = Size[store[Pick(s)].record]
    BY <2>1, Picked DEF Weight
  <2> QED  BY <2>1 DEF Adds, Pick, Folds
<1>3. \E H : Folds(H, store) /\ Bytes(store) = H[D]
  <2>1. Folds(G, store)
    BY <1>1, <1>2
  <2> QED  BY <2>1, BytesAreAFold
<1> QED  BY <1>2, <1>3

(* A row more is its bytes more.                                              *)
LEMMA BytesOfOneMore ==
  ASSUME NEW store \in Store, IsFiniteSet(Held(store)), NEW k \in Key, store[k] = NoRow, NEW row \in Row
  PROVE  LET after == [store EXCEPT ![k] = row]
         IN  /\ Held(after) = Held(store) \cup {k} /\ IsFiniteSet(Held(after))
             /\ Cardinality(Held(after)) = Cardinality(Held(store)) + 1
             /\ Bytes(after) = Bytes(store) + Size[row.record]
<1> DEFINE after == [store EXCEPT ![k] = row]
           D == Held(store)
<1>1. after \in Store /\ after[k] = row /\ \A o \in Key : o # k => after[o] = store[o]
  BY DEF Store
<1> HIDE DEF after
<1>2. Held(after) = D \cup {k} /\ k \notin D
  BY <1>1, NullAssumption DEF Held
<1>3. IsFiniteSet(Held(after)) /\ Cardinality(Held(after)) = Cardinality(D) + 1
  BY <1>2, FS_AddElement
<1>4. PICK G : Adds(G, D, Weight(store)) /\ Bytes(store) = G[D]
  BY BytesAreASum
<1>5. PICK H : Adds(H, Held(after), Weight(after)) /\ Bytes(after) = H[Held(after)]
  BY <1>1, <1>3, BytesAreASum
<1>6. Weight(store) \in [D -> Nat] /\ Weight(after) \in [Held(after) -> Nat]
  BY <1>1, RecordAssumption DEF Weight, Held, Store, Row
<1>7. G[D] \in Nat /\ D \in SUBSET D
  BY <1>4, <1>6, SumsIgnoreOrder
<1>8. H[Held(after)] = Weight(after)[k] + H[Held(after) \ {k}]
  BY <1>2, <1>3, <1>5, <1>6, SumsIgnoreOrder
<1>9. Held(after) \ {k} = D /\ D \subseteq Held(after)
  BY <1>2
<1>10. \A o \in D : Weight(after)[o] = Weight(store)[o]
  BY <1>1, <1>2 DEF Weight, Held
<1>11. H[D] = G[D]
  BY <1>4, <1>5, <1>9, <1>10, SumsAgree
<1>12. Weight(after)[k] = Size[row.record] /\ Size[row.record] \in Nat
  BY <1>1, <1>2, RecordAssumption DEF Weight, Row
<1>13. Bytes(after) = Bytes(store) + Size[row.record]
  <2>1. Bytes(after) = Size[row.record] + H[D]
    BY <1>5, <1>8, <1>9, <1>12
  <2>2. H[D] = Bytes(store) /\ Bytes(store) \in Nat
    BY <1>4, <1>7, <1>11
  <2> QED  BY <1>12, <2>1, <2>2
<1> QED  BY <1>2, <1>3, <1>13 DEF after

LEMMA BytesAreNumbers ==
  ASSUME NEW store \in Store, IsFiniteSet(Held(store))
  PROVE  Bytes(store) \in Nat
<1>1. PICK G : Adds(G, Held(store), Weight(store)) /\ Bytes(store) = G[Held(store)]
  BY BytesAreASum
<1>2. Weight(store) \in [Held(store) -> Nat]
  BY RecordAssumption DEF Weight, Held, Store, Row
<1> QED  BY <1>1, <1>2, SumsIgnoreOrder

-----------------------------------------------------------------------------
(* A table that lost expired rows only, and gained none.                      *)
Outlives(store, after) ==
  /\ Held(after) \subseteq Held(store)
  /\ \A k \in Held(store) \ Held(after) : store[k].expires <= now

LEMMA PurgeOutlives ==
  ASSUME TypeOK
  PROVE  /\ Purged(rows, now) \in Store /\ Outlives(rows, Purged(rows, now)) /\ Outlives(rows, rows)
         /\ IsFiniteSet(Held(rows)) => IsFiniteSet(Held(Purged(rows, now)))
<1>1. rows \in Store /\ now \in Int /\ Purged(rows, now) \in Store
  BY PurgedKeeps DEF TypeOK
<1>2. \A o \in Key : Purged(rows, now)[o] = rows[o] \/ (Purged(rows, now)[o] = NoRow /\ rows[o].expires <= now)
  BY <1>1 DEF Purged
<1>3. Outlives(rows, Purged(rows, now)) /\ Outlives(rows, rows)
  BY <1>2 DEF Outlives, Held
<1>4. IsFiniteSet(Held(rows)) => IsFiniteSet(Held(Purged(rows, now)))
  BY <1>3, FS_Subset DEF Outlives
<1> QED  BY <1>1, <1>3, <1>4

(* What a step of the daemon does to the set of its rows.                      *)
LEMMA AcceptsOrOutlives ==
  ASSUME TypeOK, [Next]_vars
  PROVE  \/ Outlives(rows, rows')
         \/ \E r \in Record :
              LET kept == Purged(rows, now)
              IN  /\ config.policy \in Policy /\ KeyOf[r] \in Key /\ kept[KeyOf[r]] = NoRow
                  /\ ~Full(kept, config.policy, r)
                  /\ \E row \in Row : row.record = r /\ rows' = [kept EXCEPT ![KeyOf[r]] = row]
<1>0. rows \in Store /\ now \in Int /\ Purged(rows, now) \in Store
  BY PurgedKeeps DEF TypeOK
<1>1. ASSUME rows' = rows \/ rows' = Purged(rows, now) PROVE Outlives(rows, rows')
  BY <1>0, <1>1 DEF Outlives, Held, Purged
<1>2. ASSUME NEW c \in Client, NEW r \in Record, Post(c, r), rows' # rows, rows' # Purged(rows, now)
      PROVE  LET kept == Purged(rows, now)
             IN  /\ config.policy \in Policy /\ KeyOf[r] \in Key /\ kept[KeyOf[r]] = NoRow
                 /\ ~Full(kept, config.policy, r)
                 /\ \E row \in Row : row.record = r /\ rows' = [kept EXCEPT ![KeyOf[r]] = row]
  <2>1. config.policy \in Policy /\ Forwarding \in BOOLEAN /\ KeyOf[r] \in Key
    BY <1>2, ConfigFacts, RecordAssumption DEF TypeOK, Post, Up, Forwarding
  <2>2. /\ rows' = [Purged(rows, now) EXCEPT ![KeyOf[r]] = NewRow(config.policy, r, Forwarding)]
        /\ Purged(rows, now)[KeyOf[r]] = NoRow /\ ~Full(Purged(rows, now), config.policy, r)
    BY <1>0, <1>2, <2>1, AcceptOutcome DEF Post
  <2>3. NewRow(config.policy, r, Forwarding) \in Row /\ NewRow(config.policy, r, Forwarding).record = r
    BY <2>1, NewRowIsRow DEF NewRow
  <2> QED  BY <2>1, <2>2, <2>3
<1>3. ASSUME NEW c \in Client, NEW k \in Key, Retry(c, k) PROVE Outlives(rows, rows')
  <2> DEFINE kept == Purged(rows, now)
  <2>1. CASE rows' = kept
    BY <1>1, <2>1
  <2>2. CASE CanRetry(kept, k) /\ rows' = AfterRetry(kept, k)
    <3> HIDE DEF kept
    <3>1. \A o \in Key : rows'[o] # NoRow <=> kept[o] # NoRow
      BY <1>0, <2>2, RetryOutcome DEF kept, CanRetry
    <3>2. Held(rows') = Held(kept)
      BY <3>1 DEF Held
    <3>3. Outlives(rows, kept)
      BY PurgeOutlives DEF kept
    <3> QED  BY <3>2, <3>3 DEF Outlives
  <2> QED  BY <1>3, <2>1, <2>2 DEF Retry
<1>4. CASE RecordResult
  <2>1. /\ KeyOf[job.record] \in Key /\ now + Backoff(job.attempts) \in Nat
        /\ answer.delivery \in Delivery /\ answer.error \in ErrorCode \cup {NoError}
    BY <1>4, RecordAssumption, BackoffIsTime
       DEF TypeOK, RecordResult, Job, Verdict, Delivery
  <2>2. \A o \in Key : rows'[o] # NoRow <=> rows[o] # NoRow
    BY <1>0, <1>4, <2>1, DeliveryOutcome DEF RecordResult
  <2>3. Held(rows') = Held(rows)
    BY <2>2 DEF Held
  <2> QED  BY <2>3 DEF Outlives
<1> QED
  BY <1>1, <1>2, <1>3, <1>4
     DEF Next, Handlers, Worker, Network, vars, Start, Crash, Tick, Lookup, Housekeep, Fetch,
         GiveUp, JudgeReceipt, JudgeRefusal, ResultLost, Arrive, Refuse, StrayArrives,
         PeerPost, PeerHousekeep, daemonVars

(* However many rows a policy admits, they are finitely many: only then is    *)
(* their sum one.                                                             *)
THEOREM RowsAreFinite == Spec => []IsFiniteSet(Held(rows))
<1>1. Init => IsFiniteSet(Held(rows))
  BY FS_EmptySet DEF Init, EmptyStore, Held
<1>2. TypeOK /\ IsFiniteSet(Held(rows)) /\ [Next]_vars => IsFiniteSet(Held(rows))'
  <2> SUFFICES ASSUME TypeOK, IsFiniteSet(Held(rows)), [Next]_vars PROVE IsFiniteSet(Held(rows'))
    OBVIOUS
  <2>1. CASE Outlives(rows, rows')
    BY <2>1, FS_Subset DEF Outlives
  <2>2. CASE ~Outlives(rows, rows')
    <3>1. PICK r \in Record, row \in Row :
            /\ KeyOf[r] \in Key /\ Purged(rows, now)[KeyOf[r]] = NoRow
            /\ rows' = [Purged(rows, now) EXCEPT ![KeyOf[r]] = row]
      BY <2>2, AcceptsOrOutlives
    <3>2. Purged(rows, now) \in Store /\ IsFiniteSet(Held(Purged(rows, now)))
      BY <3>1, PurgeOutlives
    <3> QED  BY <3>1, <3>2, BytesOfOneMore
  <2> QED  BY <2>1, <2>2
<1> QED  BY <1>1, <1>2, TypeCorrect, PTL DEF Spec

(* "A full store rejects new events without evicting retained events": a row  *)
(* leaves the table only once it has expired, and one that is added leaves    *)
(* the table within the running policy, in rows and in bytes.                 *)
THEOREM NothingIsEvicted == Spec => OnlyExpiryErases
<1> DEFINE Kept ==
      /\ \A k \in Held(rows) \ Held(rows') : rows[k].expires <= now
      /\ Held(rows') \ Held(rows) # {} =>
           /\ Cardinality(Held(rows')) <= config.policy.maxRecords
           /\ Bytes(rows') <= config.policy.maxBytes
<1>1. TypeOK /\ IsFiniteSet(Held(rows)) /\ [Next]_vars => [Kept]_vars
  <2> SUFFICES ASSUME TypeOK, IsFiniteSet(Held(rows)), [Next]_vars PROVE Kept
    OBVIOUS
  <2>1. CASE Outlives(rows, rows')
    BY <2>1 DEF Outlives
  <2>2. CASE ~Outlives(rows, rows')
    <3> DEFINE kept == Purged(rows, now)
    <3>1. PICK r \in Record, row \in Row :
            /\ config.policy \in Policy /\ KeyOf[r] \in Key /\ kept[KeyOf[r]] = NoRow
            /\ ~Full(kept, config.policy, r)
            /\ row.record = r /\ rows' = [kept EXCEPT ![KeyOf[r]] = row]
      BY <2>2, AcceptsOrOutlives
    <3>2. kept \in Store /\ IsFiniteSet(Held(kept)) /\ Outlives(rows, kept)
      BY <3>1, PurgeOutlives
    <3> HIDE DEF kept
    <3>3. /\ Held(rows') = Held(kept) \cup {KeyOf[r]}
          /\ Cardinality(Held(rows')) = Cardinality(Held(kept)) + 1
          /\ Bytes(rows') = Bytes(kept) + Size[r]
      BY <3>1, <3>2, BytesOfOneMore
    <3>4. /\ Cardinality(Held(kept)) < config.policy.maxRecords
          /\ Bytes(kept) + Size[r] <= config.policy.maxBytes
      <4>1. Cardinality(Held(kept)) \in Nat /\ Bytes(kept) \in Nat /\ Size[r] \in Nat
        BY <3>2, BytesAreNumbers, FS_CardinalityType, RecordAssumption
      <4>2. config.policy.maxRecords \in Nat /\ config.policy.maxBytes \in Nat
        BY <3>1 DEF Policy
      <4> QED  BY <3>1, <4>1, <4>2 DEF Full
    <3>5. Cardinality(Held(kept)) \in Nat /\ config.policy.maxRecords \in Nat
      BY <3>1, <3>2, FS_CardinalityType DEF Policy
    <3>6. \A k \in Held(rows) \ Held(rows') : rows[k].expires <= now
      BY <3>2, <3>3 DEF Outlives
    <3> QED  BY <3>3, <3>4, <3>5, <3>6
  <2> QED  BY <2>1, <2>2
<1> QED  BY <1>1, TypeCorrect, RowsAreFinite, PTL DEF Spec, OnlyExpiryErases
=============================================================================
