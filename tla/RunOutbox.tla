------------------------------ MODULE RunOutbox ------------------------------
(***************************************************************************)
(* What docs/run-ingestion.md promises a client of one backend, with no      *)
(* worker, network, store policy or restart in sight.  An accepted record is *)
(* held unchanged until its expiry; one that expires within the millisecond  *)
(* of its capture has lapsed from the start.  While it is held, it may be    *)
(* handed to the next backend: it counts as delivered only once that backend *)
(* has acknowledged the event, and a refusal is final until someone requeues *)
(* it.  RunForwarding implements this specification.                         *)
(***************************************************************************)
EXTENDS Integers

CONSTANTS Key, Target, Nothing

VARIABLES
  clock,
  entry,     \* Key -> [record, until, state], or Nothing
  acks       \* the <<target, key>> pairs acknowledged so far

outboxVars == <<clock, entry, acks>>

Start ==
  /\ clock \in Nat
  /\ entry = [k \in Key |-> Nothing]
  /\ acks = {}

Present == {k \in Key : entry[k] # Nothing}
Lapsed  == {k \in Present : entry[k].until <= clock}

(* The entries once those in S, which have lapsed, are dropped. *)
Without(S) == [k \in Key |-> IF k \in S THEN Nothing ELSE entry[k]]

Forget(S) == entry' = Without(S) /\ UNCHANGED <<clock, acks>>

Capture(k, S) ==
  /\ Without(S)[k] = Nothing
  /\ entry'[k] # Nothing
  /\ entry'[k].state \in {"pending", "local"}
  /\ entry' = [Without(S) EXCEPT ![k] = entry'[k]]
  /\ UNCHANGED <<clock, acks>>

Move(k, from, to) ==
  /\ k \in Present /\ entry[k].state = from
  /\ entry' = [entry EXCEPT ![k].state = to]
  /\ UNCHANGED <<clock, acks>>

HandOver(k) == Move(k, "pending", "delivered") /\ \E t \in Target : <<t, k>> \in acks
Refuse(k)   == Move(k, "pending", "failed")

(* An operator's requeue first drops what has lapsed. *)
Requeue(k, S) ==
  /\ k \in Present \ S /\ entry[k].state = "failed"
  /\ entry' = [Without(S) EXCEPT ![k].state = "pending"]
  /\ UNCHANGED <<clock, acks>>

Acknowledge == acks \subseteq acks' /\ UNCHANGED <<clock, entry>>

Advance == clock' \in Nat /\ clock' > clock /\ UNCHANGED <<entry, acks>>

Step ==
  \/ \E S \in SUBSET Lapsed : Forget(S) \/ (\E k \in Key : Capture(k, S) \/ Requeue(k, S))
  \/ \E k \in Key : HandOver(k) \/ Refuse(k)
  \/ Acknowledge
  \/ Advance

Outbox == Start /\ [][Step]_outboxVars
=============================================================================
