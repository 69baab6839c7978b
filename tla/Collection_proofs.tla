-------------------------- MODULE Collection_proofs --------------------------
(***************************************************************************)
(* Proofs about the poller and the settings transactions of Collection, for *)
(* any instances, accounts, dashboards and visiting order.                  *)
(***************************************************************************)
EXTENDS Collection, TLAPS

USE DEF diskVars, stateVars, pollerVars, clientVars, ghostVars, boundVars, others

LEMMA TargetsFact ==
  /\ Len(Targets) \in Nat
  /\ \A i \in 1..Len(Targets) : Targets[i] \in Provider
  /\ Provider \subseteq {Targets[i] : i \in 1..Len(Targets)}
BY CollectionAssumption

-----------------------------------------------------------------------------
(* Types *)

LEMMA InitType == Init => TypeOK
<1> SUFFICES ASSUME Init PROVE TypeOK
  OBVIOUS
<1>1. AllOff \in Text /\ Unread \in Shown
  BY DEF AllOff, Text, Unread, Shown
<1>2. 1 \in 1..Len(Targets) + 1
  BY TargetsFact
<1>3. QED
  BY <1>1, <1>2 DEF Init, TypeOK, PollerStep

LEMMA EndedType ==
  ASSUME TypeOK, Ended, crashes' \in Nat
  PROVE  TypeOK'
<1>1. AllOff \in Text /\ Unread \in Shown
  BY DEF AllOff, Text, Unread, Shown
<1>2. 1 \in 1..Len(Targets) + 1
  BY TargetsFact
<1>3. QED
  BY <1>1, <1>2 DEF Ended, TypeOK, PollerStep

LEMMA LifeType ==
  ASSUME TypeOK, Start \/ RequestShutdown \/ Exit \/ Crash
  PROVE  TypeOK'
<1>1. CASE Start
  <2>1. file \in Text /\ 1 \in 1..Len(Targets) + 1
    BY <1>1, TargetsFact DEF Start, TypeOK
  <2>2. cache' \in Shown /\ providers' \in Text /\ config' \in Text /\ next' \in 1..Len(Targets) + 1
    BY <1>1, <2>1 DEF Start, TypeOK
  <2>3. QED
    BY <1>1, <2>2 DEF Start, TypeOK, PollerStep
<1>2. CASE RequestShutdown
  BY <1>2 DEF RequestShutdown, TypeOK
<1>3. CASE Exit \/ Crash
  <2>1. Ended /\ crashes' \in Nat
    BY <1>3 DEF Exit, Crash, TypeOK
  <2>2. QED
    BY <2>1, EndedType
<1>4. QED
  BY <1>1, <1>2, <1>3

LEMMA PollerType ==
  ASSUME TypeOK, Poller, pc \in {"judge", "store"} => result \in Snapshot,
         pc \in {"probe", "judge", "store"} => next \in 1..Len(Targets),
         pc = "probe" => config[Targets[next]] \in Account
  PROVE  TypeOK'
<1>1. CASE Begin
  BY <1>1 DEF Begin, TypeOK, PollerStep
<1>2. CASE Stat
  BY <1>2 DEF Stat, TypeOK, PollerStep
<1>3. CASE Load
  BY <1>3 DEF Load, TypeOK, PollerStep
<1>4. CASE Publish
  BY <1>4, TargetsFact DEF Publish, TypeOK, PollerStep
<1>5. CASE Visit
  <2>1. pc' \in PollerStep /\ next' \in 1..Len(Targets) + 1 /\ asked' \subseteq Provider
    BY <1>5, TargetsFact DEF Visit, TypeOK, PollerStep
  <2>2. QED
    BY <1>5, <2>1 DEF Visit, TypeOK
<1>6. CASE Probe
  <2>1. PICK cancelled \in {FALSE, shutdown} :
          result' = [account |-> config[Targets[next]], cancelled |-> cancelled]
    BY <1>6 DEF Probe
  <2>2. cancelled \in BOOLEAN /\ config[Targets[next]] \in Account
    BY <1>6 DEF Probe, Poll, TypeOK
  <2>3. result' \in Snapshot
    BY <2>1, <2>2 DEF Snapshot
  <2>4. QED
    BY <1>6, <2>3 DEF Probe, TypeOK, PollerStep
<1>7. CASE Judge
  BY <1>7 DEF Judge, TypeOK, PollerStep
<1>8. CASE Store
  <2>1. result \in Snapshot /\ next \in 1..Len(Targets)
    BY <1>8 DEF Store, Poll
  <2>2. cache' \in Shown
    BY <1>8, <2>1, TargetsFact DEF Store, TypeOK, Shown
  <2>3. saved' \in Shown /\ history' \in Snapshot \cup {NoSnapshot} /\ late' \in Nat
    <3>1. saved' \in Shown
      BY <1>8, <2>2 DEF Store, TypeOK
    <3>2. history' \in Snapshot \cup {NoSnapshot}
      BY <1>8, <2>1 DEF Store, TypeOK
    <3>3. late' \in Nat
      BY <1>8 DEF Store, TypeOK
    <3>4. QED
      BY <3>1, <3>2, <3>3
  <2>4. next' \in 1..Len(Targets) + 1
    BY <1>8, <2>1, TargetsFact DEF Store
  <2>5. QED
    BY <1>8, <2>2, <2>3, <2>4 DEF Store, TypeOK, PollerStep
<1>9. CASE Rest
  BY <1>9 DEF Rest, TypeOK, PollerStep
<1>10. CASE WakeToEnd \/ WakeEarly \/ WakeDue
  BY <1>10 DEF WakeToEnd, WakeEarly, WakeDue, WakeTo, TypeOK, PollerStep
<1>11. QED
  BY <1>1, <1>2, <1>3, <1>4, <1>5, <1>6, <1>7, <1>8, <1>9, <1>10 DEF Poller

LEMMA HandlerType ==
  ASSUME TypeOK, NEW c \in Client, Handler(c)
  PROVE  TypeOK'
<1>1. handler[c] \in Patching
  BY DEF Handler, Recheck, Write, PublishPatch, Answer, Handling, TypeOK
<1>2. ASSUME NEW step \in Step PROVE [handler[c] EXCEPT !.pc = step] \in Patching
  BY <1>1, <1>2 DEF Patching
<1>3. handler' \in [Client -> Patching \cup {Idle}]
  <2>1. \/ \E step \in Step : GoesOn(c, step)
        \/ Refused(c)
    BY DEF Handler, Recheck, Write, PublishPatch, Answer, Step
  <2>2. ASSUME NEW step \in Step, GoesOn(c, step)
        PROVE  handler' = [handler EXCEPT ![c] = [handler[c] EXCEPT !.pc = step]]
    BY <2>2 DEF GoesOn, TypeOK
  <2>3. QED
    BY <1>2, <2>1, <2>2 DEF Refused, TypeOK
<1>4. handler[c].text \in Text
  BY <1>1 DEF Patching
<1>5. CASE Recheck(c)
  BY <1>3, <1>5 DEF Recheck, TypeOK
<1>6. CASE Write(c)
  BY <1>3, <1>4, <1>6 DEF Write, Replaced, TypeOK
<1>7. CASE PublishPatch(c)
  BY <1>3, <1>4, <1>7 DEF PublishPatch, TypeOK
<1>8. CASE Answer(c)
  <2>1. form' \in [Client -> Text \cup {NoForm}] /\ agreed' \in Text \cup {NoForm}
    BY <1>4, <1>8 DEF Answer, TypeOK
  <2>2. QED
    BY <1>3, <1>8, <2>1 DEF Answer, TypeOK
<1>9. QED
  BY <1>5, <1>6, <1>7, <1>8 DEF Handler

LEMMA RequestType ==
  ASSUME TypeOK
  PROVE  /\ Refresh => TypeOK'
         /\ \A c \in Client : OpenForm(c) => TypeOK'
         /\ \A c \in Client, p \in Provider, s \in Account \cup {Off} : SaveForm(c, p, s) => TypeOK'
         /\ \A text \in Text \cup {Broken} : EditOutside(text) => TypeOK'
<1>1. ASSUME Refresh PROVE TypeOK'
  BY <1>1 DEF Refresh, TypeOK
<1>2. ASSUME NEW c \in Client, OpenForm(c) PROVE TypeOK'
  BY <1>2 DEF OpenForm, Readable, TypeOK
<1>3. ASSUME NEW c \in Client, NEW p \in Provider, NEW s \in Account \cup {Off}, SaveForm(c, p, s)
      PROVE  TypeOK'
  <2>1. file \in Text
    BY <1>3 DEF SaveForm, Readable, Patched, TypeOK
  <2>2. [file EXCEPT ![p] = s] \in Text
    BY <2>1 DEF Text
  <2>3. handler'[c] \in Patching /\ handler' \in [Client -> Patching \cup {Idle}]
    BY <1>3, <2>1, <2>2 DEF SaveForm, Readable, Patched, Patching, Step, TypeOK
  <2>4. QED
    BY <1>3, <2>3 DEF SaveForm, Readable, Patched, TypeOK
<1>4. ASSUME NEW text \in Text \cup {Broken}, EditOutside(text) PROVE TypeOK'
  <2>1. touched' \in BOOLEAN
    BY <1>4, Zenon DEF EditOutside, Replaced, TypeOK
  <2>2. file' \in Text \cup {Broken} /\ agreed' \in Text \cup {NoForm} /\ edits' \in Nat
    BY <1>4 DEF EditOutside, Replaced, TypeOK
  <2>3. QED
    BY <1>4, <2>1, <2>2 DEF EditOutside, TypeOK
<1>5. QED
  BY <1>1, <1>2, <1>3, <1>4

-----------------------------------------------------------------------------
(* The invariant *)

Busy == pc \in {"probe", "judge", "store"}

(* What the poller holds between two steps. *)
Readings ==
  /\ Busy => next \in 1..Len(Targets)
  /\ pc = "probe" => config[Targets[next]] \in Account
  /\ pc \in {"judge", "store"} => result \in Snapshot /\ result.account = config[Targets[next]]
  /\ pc = "judge" /\ result.cancelled => shutdown
  /\ pc = "store" => ~result.cancelled

(* One settings transaction at a time. *)
Exclusive ==
  /\ \A c, d \in Client : handler[c] # Idle /\ handler[d] # Idle => c = d
  /\ ~up => pc = "ended" /\ \A c \in Client : handler[c] = Idle

(* A form is agreed on from its answer to the next change of the file. *)
Agreement ==
  /\ agreed # NoForm => file = agreed
  /\ \A c \in Client : Handling(c, "publish") \/ Handling(c, "flag") => agreed = NoForm

(* Whoever holds another configuration than the agreed one is told to load. *)
Reloads ==
  up /\ agreed # NoForm /\ config # agreed => flag \/ pc \in {"begin", "stat", "load", "ended"}

(* Once a late snapshot was recorded, no more are on their way. *)
LastOne ==
  /\ OneProbeMayFinish
  /\ late # 0 /\ agreed # NoForm /\ config # agreed => ~Busy

(* What a cycle has yet to visit, when nothing newer is asked for. *)
Ahead(i) == {Targets[j] : j \in i..Len(Targets)}
Unvisited ==
  up /\ ~shutdown /\ ~flag =>
    /\ pc = "visit" => asked \subseteq Ahead(next)
    /\ Busy => asked \subseteq Ahead(next + 1)
    /\ pc \in {"rest", "sleep"} => asked = {}

CollectionInv ==
  /\ TypeOK /\ Readings /\ Exclusive /\ Agreement
  /\ Reloads /\ LastOne /\ SavedIsPublishedOrDue
  /\ Unvisited /\ InterruptedIsDropped

(* Every step is one of these three. *)
Life    == Start \/ RequestShutdown \/ Exit \/ Crash
Request ==
  \/ Refresh
  \/ \E c \in Client :
       \/ OpenForm(c) \/ Handler(c)
       \/ \E p \in Provider, setting \in Account \cup {Off} : SaveForm(c, p, setting)
  \/ \E text \in Text \cup {Broken} : EditOutside(text)

LEMMA StepKinds == Next => Life \/ Poller \/ Request
BY DEF Next, Life, Request

(* A request leaves the poller where it is, and what it has recorded.       *)
LEMMA RequestFrame ==
  ASSUME Request
  PROVE  UNCHANGED <<pollerVars, up, shutdown, cache, saved, history, crashes>>
<1>1. ASSUME NEW c \in Client, Handler(c)
      PROVE  UNCHANGED <<pollerVars, up, shutdown, cache, saved, history, crashes>>
  BY <1>1 DEF Handler, Recheck, Write, PublishPatch, Answer
<1>2. ASSUME NEW c \in Client, NEW p \in Provider, NEW setting \in Account \cup {Off},
             OpenForm(c) \/ SaveForm(c, p, setting)
      PROVE  UNCHANGED <<pollerVars, up, shutdown, cache, saved, history, crashes>>
  BY <1>2 DEF OpenForm, SaveForm, Readable, Patched
<1>3. ASSUME NEW c \in Client, OpenForm(c)
      PROVE  UNCHANGED <<pollerVars, up, shutdown, cache, saved, history, crashes>>
  BY <1>3 DEF OpenForm
<1>4. ASSUME NEW text \in Text \cup {Broken}, EditOutside(text)
      PROVE  UNCHANGED <<pollerVars, up, shutdown, cache, saved, history, crashes>>
  BY <1>4 DEF EditOutside
<1>5. ASSUME Refresh
      PROVE  UNCHANGED <<pollerVars, up, shutdown, cache, saved, history, crashes>>
  BY <1>5 DEF Refresh
<1>6. QED
  BY <1>1, <1>2, <1>3, <1>4, <1>5 DEF Request

(* A poller step leaves the clients, their forms and the file alone.        *)
LEMMA PollerFrame ==
  ASSUME Poller
  PROVE  /\ up /\ UNCHANGED <<others, file, agreed>>
         /\ Store \/ UNCHANGED <<cache, saved, history, late>>
BY DEF Poller, Begin, Stat, Load, Publish, Visit, Probe, Judge, Store, Rest,
       WakeToEnd, WakeEarly, WakeDue, WakeTo, Poll

-----------------------------------------------------------------------------
(* Each part is preserved *)

LEMMA TypeStep ==
  ASSUME TypeOK, Readings, Next
  PROVE  TypeOK'
<1>1. ASSUME Life PROVE TypeOK'
  BY <1>1, LifeType DEF Life
<1>2. ASSUME Poller PROVE TypeOK'
  BY <1>2, PollerType DEF Readings, Busy
<1>3. ASSUME Request PROVE TypeOK'
  BY <1>3, HandlerType, RequestType DEF Request
<1>4. QED
  BY <1>1, <1>2, <1>3, StepKinds

LEMMA ReadingsStep ==
  ASSUME TypeOK, Readings, Next
  PROVE  Readings'
<1>1. CASE Life
  <2>1. CASE RequestShutdown
    BY <2>1 DEF RequestShutdown, Readings, Busy
  <2>2. CASE Start \/ Exit \/ Crash
    BY <2>2 DEF Start, Exit, Crash, Ended, Readings, Busy
  <2>3. QED
    BY <1>1, <2>1, <2>2 DEF Life
<1>2. CASE Request
  BY <1>2, RequestFrame DEF Readings, Busy
<1>3. CASE Poller
  <2>1. CASE Visit
    <3>1. CASE pc' = "probe"
      <4>1. next \in 1..Len(Targets) + 1 /\ ~(next > Len(Targets)) /\ next' = next /\ config' = config
            /\ config[Targets[next]] # Off
        BY <2>1, <3>1 DEF Visit, Poll, TypeOK
      <4>2. next \in 1..Len(Targets)
        BY <4>1, TargetsFact
      <4>3. config[Targets[next]] \in Account
        BY <4>1, <4>2, TargetsFact DEF TypeOK, Text
      <4>4. QED
        BY <3>1, <4>1, <4>2, <4>3 DEF Readings, Busy
    <3>2. CASE pc' # "probe"
      BY <2>1, <3>2 DEF Visit, Poll, Readings, Busy
    <3>3. QED
      BY <3>1, <3>2
  <2>2. CASE Probe
    <3>1. PICK cancelled \in {FALSE, shutdown} :
            result' = [account |-> config[Targets[next]], cancelled |-> cancelled]
      BY <2>2 DEF Probe
    <3>2. cancelled \in BOOLEAN /\ (cancelled => shutdown)
      <4>1. shutdown \in BOOLEAN
        BY DEF TypeOK
      <4>2. CASE cancelled = FALSE
        BY <4>2
      <4>3. CASE cancelled = shutdown
        BY <4>1, <4>3
      <4>4. QED
        BY <4>2, <4>3
    <3>6. config[Targets[next]] \in Account
      BY <2>2 DEF Probe, Poll, Readings
    <3>3. result' \in Snapshot /\ result'.account = config[Targets[next]]
          /\ (result'.cancelled => shutdown)
      BY <3>1, <3>2, <3>6 DEF Snapshot
    <3>4. pc' = "judge" /\ next \in 1..Len(Targets) /\ UNCHANGED <<next, config, shutdown>>
      BY <2>2 DEF Probe, Poll, Readings, Busy
    <3>5. QED
      BY <3>3, <3>4 DEF Readings, Busy
  <2>3. CASE Judge
    BY <2>3 DEF Judge, Poll, Readings, Busy
  <2>4. CASE Store
    BY <2>4 DEF Store, Readings, Busy
  <2>5. CASE Begin \/ Stat \/ Load \/ Publish \/ Rest
    BY <2>5 DEF Begin, Stat, Load, Publish, Rest, Readings, Busy
  <2>6. CASE WakeToEnd \/ WakeEarly \/ WakeDue
    BY <2>6 DEF WakeToEnd, WakeEarly, WakeDue, WakeTo, Readings, Busy
  <2>7. QED
    BY <1>3, <2>1, <2>2, <2>3, <2>4, <2>5, <2>6 DEF Poller
<1>4. QED
  BY <1>1, <1>2, <1>3, StepKinds

LEMMA ExclusiveStep ==
  ASSUME TypeOK, Exclusive, Next
  PROVE  Exclusive'
<1>1. CASE Start
  BY <1>1 DEF Start, Exclusive
<1>2. CASE RequestShutdown
  BY <1>2 DEF RequestShutdown, Exclusive
<1>3. CASE Exit \/ Crash
  BY <1>3 DEF Exit, Crash, Ended, Exclusive
<1>4. CASE Poller
  BY <1>4, PollerFrame DEF Exclusive
<1>5. ASSUME NEW c \in Client, Handler(c) PROVE Exclusive'
  <2>1. handler[c] # Idle /\ up'  = up /\ pc' = pc
    BY <1>5 DEF Handler, Recheck, Write, PublishPatch, Answer, Handling
  <2>2. \A d \in Client : d # c => handler'[d] = handler[d]
    BY <1>5 DEF Handler, Recheck, Write, PublishPatch, Answer, GoesOn, Refused, TypeOK
  <2>3. QED
    BY <2>1, <2>2 DEF Exclusive
<1>6. ASSUME NEW c \in Client, NEW p \in Provider, NEW setting \in Account \cup {Off},
             SaveForm(c, p, setting)
      PROVE  Exclusive'
  <2>1. \A d \in Client : d # c => handler'[d] = Idle
    BY <1>6 DEF SaveForm, Readable, Patched, Free, TypeOK
  <2>2. QED
    BY <1>6, <2>1 DEF SaveForm, Readable, Patched, Exclusive
<1>7. ASSUME Refresh \/ (\E c \in Client : OpenForm(c)) \/ (\E text \in Text \cup {Broken} : EditOutside(text))
      PROVE  Exclusive'
  BY <1>7 DEF Refresh, OpenForm, EditOutside, Exclusive
<1>8. QED
  BY <1>1, <1>2, <1>3, <1>4, <1>5, <1>6, <1>7, StepKinds DEF Life, Request

LEMMA AgreementStep ==
  ASSUME TypeOK, Exclusive, Agreement, Next
  PROVE  Agreement'
<1>1. CASE Start \/ RequestShutdown
  BY <1>1 DEF Start, RequestShutdown, Agreement, Handling
<1>2. CASE Exit \/ Crash
  BY <1>2 DEF Exit, Crash, Ended, Agreement, Handling
<1>3. CASE Poller
  BY <1>3, PollerFrame DEF Agreement, Handling
<1>4. ASSUME NEW c \in Client, Handler(c) PROVE Agreement'
  <2>1. /\ handler[c] # Idle
        /\ \A d \in Client : d # c => handler[d] = Idle /\ handler'[d] = handler[d]
    BY <1>4 DEF Handler, Recheck, Write, PublishPatch, Answer, Handling, GoesOn, Refused, TypeOK,
               Exclusive
  <2>2. CASE Recheck(c)
    <3>1. handler[c] \in Patching
      BY <2>1 DEF TypeOK
    <3>2. ~Handling(c, "publish")' /\ ~Handling(c, "flag")'
      BY <2>2, <3>1 DEF Recheck, Handling, GoesOn, Refused, Patching, TypeOK
    <3>3. QED
      BY <2>1, <2>2, <3>2 DEF Recheck, Agreement, Handling
  <2>3. CASE Write(c)
    <3>1. CASE agreed' = NoForm
      BY <3>1 DEF Agreement
    <3>2. CASE Refused(c) /\ UNCHANGED <<file, touched, agreed>>
      BY <2>1, <3>2 DEF Refused, Agreement, Handling, TypeOK
    <3>3. QED
      BY <2>3, <3>1, <3>2 DEF Write
  <2>4. CASE PublishPatch(c)
    <3>1. agreed = NoForm /\ agreed' = agreed
      BY <2>4 DEF PublishPatch, Agreement
    <3>2. QED
      BY <3>1 DEF Agreement
  <2>5. CASE Answer(c)
    <3>1. handler'[c] = Idle
      BY <2>5 DEF Answer, Refused, TypeOK
    <3>2. agreed' # NoForm => file' = agreed'
      BY <2>5 DEF Answer
    <3>3. QED
      BY <2>1, <3>1, <3>2 DEF Agreement, Handling
  <2>6. QED
    BY <1>4, <2>2, <2>3, <2>4, <2>5 DEF Handler
<1>5. ASSUME NEW c \in Client, NEW p \in Provider, NEW setting \in Account \cup {Off},
             SaveForm(c, p, setting)
      PROVE  Agreement'
  <2>1. handler'[c].pc = "recheck" /\ \A d \in Client : d # c => handler'[d] = Idle
    BY <1>5 DEF SaveForm, Readable, Patched, Free, TypeOK
  <2>2. QED
    BY <1>5, <2>1 DEF SaveForm, Readable, Patched, Agreement, Handling
<1>6. ASSUME Refresh \/ \E c \in Client : OpenForm(c) PROVE Agreement'
  BY <1>6 DEF Refresh, OpenForm, Agreement, Handling
<1>7. ASSUME NEW text \in Text \cup {Broken}, EditOutside(text) PROVE Agreement'
  BY <1>7 DEF EditOutside, Agreement
<1>8. QED
  BY <1>1, <1>2, <1>3, <1>4, <1>5, <1>6, <1>7, StepKinds DEF Life, Request

(* What the requests do to the words the next three parts are about.        *)
LEMMA RequestEffect ==
  ASSUME TypeOK, Agreement, Request
  PROVE  \/ flag' = TRUE /\ (UNCHANGED <<agreed, late, providers>> \/ late' = 0)
         \/ UNCHANGED <<flag, late, asked>> /\ (agreed' = NoForm \/ UNCHANGED <<agreed, providers>>)
<1>1. ASSUME NEW c \in Client, Handler(c)
      PROVE  \/ flag' = TRUE /\ late' = 0
             \/ UNCHANGED <<flag, late, asked>> /\ (agreed' = NoForm \/ UNCHANGED <<agreed, providers>>)
  BY <1>1 DEF Handler, Recheck, Write, PublishPatch, Answer, Agreement
<1>2. QED
  BY <1>1 DEF Request, Refresh, OpenForm, SaveForm, Readable, Patched, EditOutside

LEMMA ReloadsStep ==
  ASSUME TypeOK, Agreement, Reloads, Next
  PROVE  Reloads'
<1>1. CASE Life
  BY <1>1 DEF Life, Start, RequestShutdown, Exit, Crash, Ended, Agreement, Reloads
<1>2. CASE Request
  BY <1>2, RequestEffect, RequestFrame DEF Reloads
<1>3. CASE Poller
  <2>1. CASE Load
    BY <2>1, AbsenceAssumption DEF Load, Reloads, Agreement, TypeOK
  <2>2. CASE Begin \/ Stat \/ Publish \/ Visit \/ Probe \/ Judge \/ Store \/ Rest
    BY <2>2 DEF Begin, Stat, Publish, Visit, Probe, Judge, Store, Rest, Poll, Reloads
  <2>3. CASE WakeToEnd \/ WakeEarly \/ WakeDue
    BY <2>3 DEF WakeToEnd, WakeEarly, WakeDue, WakeTo, Poll, Reloads
  <2>4. QED
    BY <1>3, <2>1, <2>2, <2>3 DEF Poller
<1>4. QED
  BY <1>1, <1>2, <1>3, StepKinds

LEMMA LastOneStep ==
  ASSUME TypeOK, Agreement, Readings, Reloads, LastOne, Next
  PROVE  LastOne'
<1>1. CASE Life
  BY <1>1 DEF Life, Start, RequestShutdown, Exit, Crash, Ended, LastOne, OneProbeMayFinish, Busy
<1>2. CASE Request
  <2>1. (Busy' <=> Busy) /\ config' = config
    BY <1>2, RequestFrame DEF Busy
  <2>2. CASE late' = 0
    BY <2>2 DEF LastOne, OneProbeMayFinish
  <2>3. CASE late' = late /\ (agreed' = NoForm \/ agreed' = agreed)
    BY <2>1, <2>3 DEF LastOne, OneProbeMayFinish
  <2>4. QED
    BY <1>2, <2>2, <2>3, RequestEffect
<1>3. CASE Poller
  <2>1. CASE Visit
    <3>1. pc' = "probe" => ~flag
      BY <2>1 DEF Visit, Poll
    <3>2. pc' \in {"visit", "probe", "rest"}
      BY <2>1 DEF Visit, Poll
    <3>3. agreed # NoForm /\ config # agreed => flag
      BY <2>1 DEF Visit, Poll, Reloads
    <3>4. UNCHANGED <<late, agreed, config>>
      BY <2>1 DEF Visit
    <3>5. QED
      BY <3>1, <3>2, <3>3, <3>4 DEF LastOne, OneProbeMayFinish, Busy
  <2>2. CASE Store
    <3>1. late' # late => agreed # NoForm /\ config # agreed /\ late' = late + 1
      BY <2>2 DEF Store, Poll, Readings
    <3>2. late' # late => late = 0
      BY <2>2, <3>1 DEF Store, Poll, LastOne, Busy
    <3>3. pc' = "visit"
      BY <2>2 DEF Store
    <3>4. QED
      BY <3>1, <3>2, <3>3 DEF LastOne, OneProbeMayFinish, Busy
  <2>3. CASE Begin \/ Stat \/ Load \/ Publish \/ Rest
    BY <2>3 DEF Begin, Stat, Load, Publish, Rest, LastOne, OneProbeMayFinish, Busy
  <2>4. CASE Probe \/ Judge
    BY <2>4 DEF Probe, Judge, Poll, LastOne, OneProbeMayFinish, Busy
  <2>5. CASE WakeToEnd \/ WakeEarly \/ WakeDue
    BY <2>5 DEF WakeToEnd, WakeEarly, WakeDue, WakeTo, LastOne, OneProbeMayFinish, Busy
  <2>6. QED
    BY <1>3, <2>1, <2>2, <2>3, <2>4, <2>5 DEF Poller
<1>4. QED
  BY <1>1, <1>2, <1>3, StepKinds

LEMMA PublishedStep ==
  ASSUME TypeOK, Agreement, Reloads, SavedIsPublishedOrDue, Next
  PROVE  SavedIsPublishedOrDue'
<1>1. CASE Life
  BY <1>1 DEF Life, Start, RequestShutdown, Exit, Crash, Ended, Agreement, SavedIsPublishedOrDue, Due
<1>2. CASE Request
  <2>1. CASE flag'
    BY <2>1 DEF SavedIsPublishedOrDue, Due
  <2>2. CASE ~flag'
    BY <1>2, <2>2, RequestEffect, RequestFrame DEF SavedIsPublishedOrDue, Due
  <2>3. QED
    BY <2>1, <2>2
<1>3. CASE Poller
  <2>1. CASE Load
    BY <2>1, AbsenceAssumption DEF Load, Agreement, SavedIsPublishedOrDue, Due, TypeOK
  <2>2. CASE Publish
    BY <2>2 DEF Publish, Poll, Reloads, SavedIsPublishedOrDue, Due
  <2>3. CASE Begin \/ Stat \/ Visit \/ Probe \/ Judge \/ Store \/ Rest
    BY <2>3 DEF Begin, Stat, Visit, Probe, Judge, Store, Rest, Poll, SavedIsPublishedOrDue, Due
  <2>4. CASE WakeToEnd \/ WakeEarly \/ WakeDue
    BY <2>4 DEF WakeToEnd, WakeEarly, WakeDue, WakeTo, Poll, SavedIsPublishedOrDue, Due
  <2>5. QED
    BY <1>3, <2>1, <2>2, <2>3, <2>4 DEF Poller
<1>4. QED
  BY <1>1, <1>2, <1>3, StepKinds

LEMMA AheadFact ==
  /\ Provider \subseteq Ahead(1)
  /\ \A i \in 1..Len(Targets) : Ahead(i) \ {Targets[i]} \subseteq Ahead(i + 1)
  /\ \A i \in 1..Len(Targets) + 1 : i > Len(Targets) => Ahead(i) = {}
BY TargetsFact DEF Ahead

LEMMA UnvisitedStep ==
  ASSUME TypeOK, Readings, Exclusive, Unvisited, Next
  PROVE  Unvisited'
<1>1. CASE Life
  BY <1>1 DEF Life, Start, RequestShutdown, Exit, Crash, Ended, Unvisited, Busy
<1>2. CASE Request
  <2>1. UNCHANGED <<pollerVars, up, shutdown>>
    BY <1>2, RequestFrame
  <2>2. flag' = TRUE \/ UNCHANGED <<flag, asked>>
    <3>1. ASSUME NEW c \in Client, Handler(c) PROVE flag' = TRUE \/ UNCHANGED <<flag, asked>>
      BY <3>1 DEF Handler, Recheck, Write, PublishPatch, Answer
    <3>2. QED
      BY <1>2, <3>1 DEF Request, Refresh, OpenForm, SaveForm, Readable, Patched, EditOutside
  <2>3. CASE flag' = TRUE
    BY <2>3 DEF Unvisited
  <2>4. CASE UNCHANGED <<flag, asked>>
    BY <2>1, <2>4 DEF Unvisited, Busy, Ahead
  <2>5. QED
    BY <2>2, <2>3, <2>4
<1>3. CASE Poller
  <2>1. CASE Publish
    <3>1. pc' = "visit" /\ next' = 1 /\ asked' \subseteq Ahead(1)
      BY <2>1, AheadFact DEF Publish, TypeOK
    <3>2. QED
      BY <3>1 DEF Unvisited, Busy, Ahead
  <2>2. CASE Visit
    <3>1. UNCHANGED <<up, shutdown, flag>> /\ pc = "visit" /\ next \in 1..Len(Targets) + 1
      BY <2>2 DEF Visit, Poll, TypeOK
    <3>2. CASE next > Len(Targets) \/ shutdown \/ flag
      <4>1. up /\ ~shutdown /\ ~flag => asked = {}
        BY <3>1, <3>2, AheadFact DEF Unvisited
      <4>2. pc' = "rest" /\ asked' = asked
        BY <2>2, <3>2 DEF Visit
      <4>3. QED
        BY <3>1, <4>1, <4>2 DEF Unvisited, Busy
    <3>3. CASE ~(next > Len(Targets) \/ shutdown \/ flag)
      <4>1. asked \subseteq Ahead(next) /\ next \in 1..Len(Targets)
        BY <3>1, <3>3, TargetsFact, PollerFrame, <1>3 DEF Unvisited
      <4>2. asked' \subseteq Ahead(next + 1)
        BY <2>2, <3>3, <4>1, AheadFact DEF Visit
      <4>3. \/ pc' = "visit" /\ next' = next + 1
            \/ pc' = "probe" /\ next' = next
        BY <2>2, <3>3 DEF Visit, Poll
      <4>4. QED
        BY <4>2, <4>3 DEF Unvisited, Busy, Ahead
    <3>4. QED
      BY <3>2, <3>3
  <2>3. CASE Probe \/ Judge
    <3>1. UNCHANGED <<up, shutdown, flag, asked, next>> /\ Busy
      BY <2>3 DEF Probe, Judge, Poll, Busy
    <3>2. pc' \in {"judge", "store"} \/ shutdown
      BY <2>3 DEF Probe, Judge, Poll
    <3>3. QED
      BY <3>1, <3>2 DEF Unvisited, Busy, Ahead
  <2>4. CASE Store
    <3>1. up /\ ~shutdown /\ ~flag => asked \subseteq Ahead(next + 1)
      BY <2>4 DEF Store, Poll, Unvisited, Busy
    <3>2. pc' = "visit" /\ next' = next + 1 /\ UNCHANGED <<up, shutdown, flag, asked>>
      BY <2>4 DEF Store
    <3>3. QED
      BY <3>1, <3>2 DEF Unvisited, Busy, Ahead
  <2>5. CASE Begin \/ Stat \/ Load
    BY <2>5 DEF Begin, Stat, Load, Unvisited, Busy
  <2>6. CASE Rest
    BY <2>6 DEF Rest, Poll, Unvisited, Busy
  <2>7. CASE WakeToEnd \/ WakeEarly \/ WakeDue
    BY <2>7 DEF WakeToEnd, WakeEarly, WakeDue, WakeTo, Unvisited, Busy
  <2>8. QED
    BY <1>3, <2>1, <2>2, <2>3, <2>4, <2>5, <2>6, <2>7 DEF Poller
<1>4. QED
  BY <1>1, <1>2, <1>3, StepKinds

LEMMA InterruptedStep ==
  ASSUME TypeOK, Readings, InterruptedIsDropped, Next
  PROVE  InterruptedIsDropped'
<1> DEFINE Kept(s) == s # NoSnapshot => ~s.cancelled
<1>1. /\ \A p \in Provider : Kept(cache[p]) /\ Kept(saved[p])
      /\ Kept(history)
  BY DEF InterruptedIsDropped
<1>2. SUFFICES /\ \A p \in Provider : Kept(cache'[p]) /\ Kept(saved'[p])
               /\ Kept(history')
  BY DEF InterruptedIsDropped
<1>3. CASE Life
  <2>1. CASE RequestShutdown
    BY <1>1, <2>1 DEF RequestShutdown
  <2>2. CASE Start
    BY <1>1, <2>2 DEF Start
  <2>3. CASE Exit \/ Crash
    BY <1>1, <2>3 DEF Exit, Crash, Ended, Unread
  <2>4. QED
    BY <1>3, <2>1, <2>2, <2>3 DEF Life
<1>4. CASE Request
  BY <1>1, <1>4, RequestFrame
<1>5. CASE Poller
  <2>1. CASE Store
    <3>1. Kept(result)
      BY <2>1 DEF Store, Poll, Readings
    <3>2. cache' = [cache EXCEPT ![Targets[next]] = result] /\ cache \in [Provider -> Snapshot \cup {NoSnapshot}]
      BY <2>1 DEF Store, TypeOK, Shown
    <3>3. \A p \in Provider : cache'[p] = result \/ cache'[p] = cache[p]
      BY <3>2
    <3>4. \A p \in Provider : Kept(cache'[p])
      BY <1>1, <3>1, <3>3
    <3>5. (saved' = saved \/ saved' = cache') /\ (history' = history \/ history' = result)
      BY <2>1 DEF Store
    <3>6. \A p \in Provider : Kept(saved'[p])
      BY <1>1, <3>4, <3>5
    <3>7. QED
      BY <1>1, <3>1, <3>4, <3>5, <3>6
  <2>2. CASE UNCHANGED <<cache, saved, history, late>>
    BY <1>1, <2>2
  <2>3. QED
    BY <1>5, <2>1, <2>2, PollerFrame
<1>6. QED
  BY <1>3, <1>4, <1>5, StepKinds

-----------------------------------------------------------------------------
(* The invariant holds, and what follows from it *)

LEMMA InitInv == Init => CollectionInv
<1> SUFFICES ASSUME Init PROVE CollectionInv
  OBVIOUS
<1>1. TypeOK
  BY InitType
<1>2. Readings /\ Exclusive /\ Agreement /\ Reloads /\ LastOne /\ SavedIsPublishedOrDue /\ Unvisited
  BY DEF Init, Readings, Busy, Exclusive, Agreement, Handling, Reloads, LastOne, OneProbeMayFinish,
         SavedIsPublishedOrDue, Unvisited
<1>3. InterruptedIsDropped
  BY DEF Init, InterruptedIsDropped, Unread
<1>4. QED
  BY <1>1, <1>2, <1>3 DEF CollectionInv

LEMMA NextInv == CollectionInv /\ [Next]_vars => CollectionInv'
<1> SUFFICES ASSUME CollectionInv, [Next]_vars PROVE CollectionInv'
  OBVIOUS
<1>1. CASE Next
  BY <1>1, TypeStep, ReadingsStep, ExclusiveStep, AgreementStep, ReloadsStep, LastOneStep,
     PublishedStep, UnvisitedStep, InterruptedStep DEF CollectionInv
<1>2. CASE UNCHANGED vars
  <2>1. TypeOK' /\ Readings'
    BY <1>2 DEF vars, CollectionInv, TypeOK, Readings, Busy
  <2>2. Exclusive' /\ Agreement'
    BY <1>2 DEF vars, CollectionInv, Exclusive, Agreement, Handling
  <2>3. Reloads' /\ LastOne' /\ SavedIsPublishedOrDue' /\ Unvisited' /\ InterruptedIsDropped'
    BY <1>2 DEF vars, CollectionInv, Reloads, LastOne, OneProbeMayFinish, Busy, SavedIsPublishedOrDue,
               Due, Unvisited, Ahead, InterruptedIsDropped
  <2>4. QED
    BY <2>1, <2>2, <2>3 DEF CollectionInv
<1>3. QED
  BY <1>1, <1>2

LEMMA Invariance == Spec => []CollectionInv
BY InitInv, NextInv, PTL DEF Spec

(* Whatever the providers, accounts, dashboards and their number, every     *)
(* variable keeps its type.                                                 *)
THEOREM CollectionTypes == Spec => []TypeOK
<1>1. CollectionInv => TypeOK
  BY DEF CollectionInv
<1>2. QED
  BY <1>1, Invariance, PTL

(* The poller never undoes for a whole cycle what a saved form published.   *)
THEOREM SavedStaysPublished == Spec => []SavedIsPublishedOrDue
<1>1. CollectionInv => SavedIsPublishedOrDue
  BY DEF CollectionInv
<1>2. QED
  BY <1>1, Invariance, PTL

(* Only the probe that was in flight records a snapshot for the             *)
(* configuration a saved form replaced.                                     *)
THEOREM OnlyInFlight == Spec => []OneProbeMayFinish
<1>1. CollectionInv => OneProbeMayFinish
  BY DEF CollectionInv, LastOne
<1>2. QED
  BY <1>1, Invariance, PTL

(* The poller does not go to sleep on a refresh.                            *)
THEOREM NoRefreshIsLost == Spec => []RefreshIsServed
<1>1. CollectionInv => RefreshIsServed
  <2>1. SUFFICES ASSUME CollectionInv, up, ~shutdown, pc = "sleep", ~flag PROVE asked = {}
    BY DEF RefreshIsServed
  <2>2. QED
    BY <2>1 DEF CollectionInv, Unvisited
<1>2. QED
  BY <1>1, Invariance, PTL

(* The result of an interrupted probe is neither shown nor stored.          *)
THEOREM NothingInterruptedIsKept == Spec => []InterruptedIsDropped
<1>1. CollectionInv => InterruptedIsDropped
  BY DEF CollectionInv
<1>2. QED
  BY <1>1, Invariance, PTL

-----------------------------------------------------------------------------
(* With the daemon as the only writer of the file *)

(* A form about to be written was checked against the file as it is. *)
Checked == edits = 0 => \A c \in Client : Handling(c, "write") => file = handler[c].raw

LEMMA CheckedStep ==
  ASSUME CollectionInv, Checked, [Next]_vars
  PROVE  Checked'
<1>1. CASE Life
  BY <1>1 DEF Life, Start, RequestShutdown, Exit, Crash, Ended, Checked, Handling
<1>2. CASE Poller
  BY <1>2, PollerFrame DEF Checked, Handling
<1>3. ASSUME NEW c \in Client, Handler(c) PROVE Checked'
  <2>1. \A d \in Client : d # c => handler'[d] = handler[d] /\ handler[d] = Idle
    BY <1>3 DEF Handler, Recheck, Write, PublishPatch, Answer, Handling, GoesOn, Refused,
               CollectionInv, TypeOK, Exclusive
  <2>2. handler[c] \in Patching /\ handler \in [Client -> Patching \cup {Idle}]
    BY <1>3 DEF Handler, Recheck, Write, PublishPatch, Answer, Handling, CollectionInv, TypeOK
  <2>3. CASE Recheck(c)
    <3>1. handler'[c] = Idle \/ (file = handler[c].raw /\ handler'[c] = [handler[c] EXCEPT !.pc = "write"])
      BY <2>2, <2>3 DEF Recheck, GoesOn, Refused
    <3>2. file' = file
      BY <2>3 DEF Recheck
    <3>3. handler'[c] # Idle => file' = handler'[c].raw
      BY <2>2, <3>1, <3>2 DEF Patching
    <3>4. QED
      BY <2>1, <3>3 DEF Checked, Handling
  <2>4. CASE Write(c) \/ PublishPatch(c)
    <3>1. handler'[c] # Idle => handler'[c].pc # "write"
      BY <2>2, <2>4 DEF Write, PublishPatch, GoesOn, Refused, Patching
    <3>2. QED
      BY <2>1, <3>1 DEF Checked, Handling
  <2>5. CASE Answer(c)
    BY <2>1, <2>2, <2>5 DEF Answer, Refused, Checked, Handling
  <2>6. QED
    BY <1>3, <2>3, <2>4, <2>5 DEF Handler
<1>4. ASSUME NEW c \in Client, NEW p \in Provider, NEW setting \in Account \cup {Off},
             SaveForm(c, p, setting)
      PROVE  Checked'
  <2>1. handler'[c].pc = "recheck" /\ file' = file /\ \A d \in Client : d # c => handler'[d] = Idle
    BY <1>4 DEF SaveForm, Readable, Patched, Free, CollectionInv, TypeOK
  <2>2. QED
    BY <2>1 DEF Checked, Handling
<1>5. ASSUME Refresh \/ \E c \in Client : OpenForm(c) PROVE Checked'
  BY <1>5 DEF Refresh, OpenForm, Checked, Handling
<1>6. ASSUME NEW text \in Text \cup {Broken}, EditOutside(text) PROVE Checked'
  BY <1>6 DEF EditOutside, Checked, CollectionInv, TypeOK
<1>7. CASE UNCHANGED vars
  BY <1>7 DEF vars, Checked, Handling
<1>8. QED
  BY <1>1, <1>2, <1>3, <1>4, <1>5, <1>6, <1>7, StepKinds DEF Request

LEMMA SerialStep ==
  ASSUME CollectionInv, Checked, [Next]_vars
  PROVE  [\A c \in Client :
            edits = 0 /\ Handling(c, "write") /\ handler'[c] # Idle /\ handler'[c].pc = "publish" =>
              file = handler[c].raw]_vars
BY DEF Checked

(* While only the daemon writes the file, a saved form replaces exactly the *)
(* configuration it was made from, however many dashboards save at once.    *)
THEOREM SavesSerialize == Spec => WritesSerialize
<1>1. Init => Checked
  BY DEF Init, Checked, Handling
<1>2. CollectionInv /\ Checked /\ [Next]_vars => Checked'
  BY CheckedStep
<1>3. CollectionInv /\ Checked /\ [Next]_vars =>
        [\A c \in Client :
            edits = 0 /\ Handling(c, "write") /\ handler'[c] # Idle /\ handler'[c].pc = "publish" =>
              file = handler[c].raw]_vars
  BY SerialStep
<1>4. QED
  BY <1>1, <1>2, <1>3, Invariance, PTL DEF Spec, WritesSerialize
=============================================================================
