-------------------------- MODULE ProbeRuntime_proofs --------------------------
(***************************************************************************)
(* Proofs about a probe's run time: of `usagestat usage` in BatchProbe, for *)
(* any number of providers and any deadline, time of grace and transport    *)
(* timeout; of process::run in HelperRun, for any timeout and time of       *)
(* cleaning up, any capacity of a pipe, any limit, and a helper that writes *)
(* as much as it likes; and of MCProbeRuntime, where the two are looked at  *)
(* side by side.                                                            *)
(***************************************************************************)
EXTENDS MCProbeRuntime, TLAPS

USE DEF mainVars, workerVars, H!runnerVars, H!treeVars

-----------------------------------------------------------------------------
(* The inductive invariant                                                    *)

(* A thread that is asked for has a token that nobody cancelled before the    *)
(* command gave it up, and sends once; an answer that was cut short comes     *)
(* from a thread that was stopped.                                            *)
Threads ==
  \A p \in Probe :
    /\ p > at => worker[p] = "none" /\ ~cancelled[p] /\ told[p] = "nothing"
    /\ helper[p] = "runs" <=> worker[p] = "helper"
    /\ sent[p] # "none" => worker[p] = "ended"
    /\ sent[p] = "cut" => Stopped(p)
    /\ told[p] = "answer" => sent[p] = "whole"

(* A thread that the command is done with starts nothing any more.            *)
Idles(p) == worker[p] = "ended" \/ (cancelled[p] /\ worker[p] \notin {"asked", "helper"})
Over(p)  == p < at \/ (p = at /\ pc \in {"next", "exited"})

Done ==
  /\ \A p \in Probe : Over(p) => Idles(p)
  /\ pc \in {"watch", "grace"} => at # 0 /\ told[at] = "nothing"
  /\ pc = "watch" => ~cancelled[at]
  /\ pc = "grace" => cancelled[at]
  /\ pc = "grace" /\ now > since => worker[at] \notin {"asked", "helper"}

Times ==
  /\ since <= now
  /\ pc = "watch" => since = bornAt[at] /\ now <= since + Deadline
  /\ pc = "grace" => since <= bornAt[at] + Deadline /\ now <= since + Grace
  /\ Interrupted =>
       /\ interrupt <= now
       /\ pc \in {"next", "watch"} => now <= interrupt + Grace
       /\ pc = "grace" /\ why = "deadline" => since <= interrupt
       /\ pc = "grace" => since <= interrupt + Grace

BatchInv == TypeOK /\ Threads /\ Done /\ Times

-----------------------------------------------------------------------------
(* The command's steps                                                        *)

LEMMA Bounds ==
  /\ Probes \in Nat \ {0} /\ Deadline \in Nat \ {0} /\ Grace \in Nat \ {0}
  /\ Transport \in Nat \ {0} /\ Cleanup \in Nat
BY ProbeAssumption

(* TypeOK in parts: numbers apart from functions.                             *)
LEMMA Clocks ==
  ASSUME TypeOK
  PROVE  /\ now \in Nat /\ since \in Nat /\ at \in 0..Probes
         /\ Interrupted => interrupt \in Nat
BY DEF TypeOK, Interrupted

LEMMA Positions ==
  ASSUME TypeOK
  PROVE  /\ at \in Nat /\ Probe \subseteq Nat
         /\ at # 0 => at \in Probe
         /\ at < Probes => at + 1 \in Probe
         /\ \A p \in Probe : ~(p < at) => p = at \/ p > at
         /\ \A p \in Probe : p > at \/ p < at => p # at
         /\ \A p \in Probe : p < at + 1 => p < at \/ p = at
         /\ \A p \in Probe : p > at + 1 => p > at /\ p # at + 1
<1>1. at \in 0..Probes
  BY Clocks
<1>2. QED
  BY <1>1, Bounds DEF Probe

LEMMA Threaded ==
  ASSUME TypeOK
  PROVE  /\ worker \in [Probe -> {"none", "runs", "asked", "helper", "stopping", "http", "ended"}]
         /\ helper \in [Probe -> {"none", "runs", "signalled", "gone"}]
         /\ sent \in [Probe -> Answer]
BY DEF TypeOK

(* Threaded, of the next state: what remains of TypeOK when a thread steps.   *)
LEMMA ThreadTypes ==
  ASSUME TypeOK, WorkerOnly,
         worker' \in [Probe -> {"none", "runs", "asked", "helper", "stopping", "http", "ended"}],
         until' \in [Probe -> Nat],
         helper' \in [Probe -> {"none", "runs", "signalled", "gone"}],
         sent' \in [Probe -> Answer]
  PROVE  TypeOK'
BY DEF TypeOK, WorkerOnly

LEMMA Dated ==
  ASSUME TypeOK
  PROVE  until \in [Probe -> Nat] /\ bornAt \in [Probe -> Nat]
BY DEF TypeOK

LEMMA Told ==
  ASSUME TypeOK
  PROVE  /\ told \in [Probe -> {"nothing", "answer", "timed out", "lost"}]
         /\ cancelled \in [Probe -> BOOLEAN]
BY DEF TypeOK

LEMMA AtIsAProbe ==
  ASSUME BatchInv, pc \in {"watch", "grace"}
  PROVE  at \in Probe
<1>1. at # 0
  BY DEF BatchInv, Done
<1>2. QED
  BY <1>1, Positions DEF BatchInv

LEMMA AskKeeps ==
  ASSUME BatchInv, Ask
  PROVE  BatchInv'
<1> USE DEF BatchInv
<1>0. /\ at < Probes /\ at' = at + 1 /\ pc' = "watch" /\ since' = now /\ now' = now
      /\ worker' = [worker EXCEPT ![at'] = "runs"]
      /\ bornAt' = [bornAt EXCEPT ![at'] = now]
      /\ UNCHANGED <<why, told, status, interrupt, cancelled, until, helper, sent>>
  BY DEF Ask
<1>1. at' \in Probe /\ at' = at + 1 /\ at \in Nat
  BY <1>0, Positions
<1>2. TypeOK'
  <2>1. worker' \in [Probe -> {"none", "runs", "asked", "helper", "stopping", "http", "ended"}]
    BY <1>0, <1>1, Threaded
  <2>2. bornAt' \in [Probe -> Nat]
    BY <1>0, <1>1, Dated, Clocks
  <2>3. at' \in 0..Probes /\ since' \in Nat
    BY <1>0, <1>1, Clocks, Bounds
  <2>4. QED
    BY <1>0, <2>1, <2>2, <2>3 DEF TypeOK
<1>3. \A p \in Probe : p # at' => worker'[p] = worker[p] /\ bornAt'[p] = bornAt[p]
  BY <1>0, Threaded, Dated
<1>4. worker'[at'] = "runs" /\ bornAt'[at'] = now
  BY <1>0, <1>1, Threaded, Dated
<1>5. at' > at
  BY <1>1
<1>6. worker[at'] = "none" /\ ~cancelled[at'] /\ told[at'] = "nothing"
  BY <1>1, <1>5 DEF Threads
<1>7. Threads'
  <2> SUFFICES ASSUME NEW p \in Probe
               PROVE  /\ p > at' => worker'[p] = "none" /\ ~cancelled'[p] /\ told'[p] = "nothing"
                      /\ helper'[p] = "runs" <=> worker'[p] = "helper"
                      /\ sent'[p] # "none" => worker'[p] = "ended"
                      /\ sent'[p] = "cut" => Stopped(p)'
                      /\ told'[p] = "answer" => sent'[p] = "whole"
    BY DEF Threads
  <2>1. CASE p = at'
    BY <1>0, <1>1, <1>4, <1>6, <2>1 DEF Threads
  <2>2. CASE p # at'
    <3>1. p > at' => p > at
      BY <1>1, Positions
    <3>2. QED
      BY <1>0, <1>3, <2>2, <3>1 DEF Threads, Stopped, Interrupted
  <2>3. QED
    BY <2>1, <2>2
<1>8. Done'
  <2>1. ASSUME NEW p \in Probe, Over(p)' PROVE Idles(p)'
    <3>1. p < at' /\ p # at'
      BY <1>0, <1>1, <2>1, Positions DEF Over
    <3>2. pc = "next" /\ (p < at \/ p = at)
      BY <1>0, <1>1, <3>1, Positions DEF Ask
    <3>3. Idles(p)
      BY <3>2 DEF Over, Done
    <3>4. QED
      BY <1>0, <1>3, <3>1, <3>3 DEF Idles
  <2>2. at' # 0
    BY <1>1, Bounds DEF Probe
  <2>3. QED
    BY <1>0, <1>6, <2>1, <2>2 DEF Done
<1>9. Times'
  <2>1. pc = "next" /\ now <= now + Deadline
    BY Clocks, Bounds DEF Ask
  <2>2. QED
    BY <1>0, <1>4, <2>1, Clocks DEF Times, Interrupted
<1>10. QED
  BY <1>2, <1>7, <1>8, <1>9

(* Neither giving a provider up nor telling what it answered moves a thread.  *)
LEMMA CancelKeeps ==
  ASSUME BatchInv, NEW reason \in {"deadline", "interrupt"}, pc = "watch", Cancels(reason),
         reason = "deadline" => ~Interrupted
  PROVE  BatchInv'
<1> USE DEF BatchInv
<1>1. at \in Probe /\ told[at] = "nothing"
  BY AtIsAProbe DEF Done
<1>0. /\ cancelled' = [cancelled EXCEPT ![at] = TRUE]
      /\ why' = reason /\ pc' = "grace" /\ since' = now
      /\ UNCHANGED <<at, told, status, now, interrupt, worker, until, helper, sent, bornAt>>
  BY DEF Cancels
<1>2. TypeOK'
  <2>1. cancelled' \in [Probe -> BOOLEAN]
    BY <1>0, Told
  <2>2. QED
    BY <1>0, <2>1 DEF TypeOK
<1>3. cancelled'[at] = TRUE /\ \A p \in Probe : p # at => cancelled'[p] = cancelled[p]
  BY <1>0, <1>1, Told
<1>4. Threads'
  <2>1. \A p \in Probe : p > at => p # at
    BY Positions
  <2>2. QED
    BY <1>0, <1>1, <1>3, <2>1 DEF Threads, Stopped, Interrupted
<1>5. Done'
  <2>1. \A p \in Probe : p < at => p # at
    BY Positions
  <2>2. at # 0 /\ ~(now > now)
    BY Clocks DEF Done
  <2>3. \A p \in Probe : Over(p)' => p # at /\ Over(p)
    BY <1>0, <2>1 DEF Over
  <2>4. \A p \in Probe : Over(p)' => Idles(p)'
    BY <1>0, <1>3, <2>3 DEF Done, Idles
  <2>5. QED
    BY <1>0, <1>1, <1>3, <2>2, <2>4 DEF Done
<1>6. Times'
  <2>1. /\ since = bornAt[at] /\ now <= since + Deadline /\ since <= now
        /\ Interrupted => interrupt <= now /\ now <= interrupt + Grace
    BY DEF Times
  <2>2. now <= now /\ now <= now + Grace
    BY Clocks, Bounds
  <2>3. QED
    BY <1>0, <2>1, <2>2 DEF Times, Interrupted
<1>7. QED
  BY <1>2, <1>4, <1>5, <1>6

LEMMA ShowsKeeps ==
  ASSUME BatchInv, NEW what \in {"answer", "timed out", "lost"},
         pc \in {"watch", "grace"}, Shows(what), Idles(at),
         what = "answer" => sent[at] = "whole",
         Interrupted => now <= interrupt + Grace
  PROVE  BatchInv'
<1> USE DEF BatchInv
<1>1. at \in Probe
  BY AtIsAProbe
<1>0. /\ told' = [told EXCEPT ![at] = what] /\ pc' = "next"
      /\ UNCHANGED <<at, why, status, now, since, interrupt, cancelled, worker, until, helper,
                     sent, bornAt>>
  BY DEF Shows
<1>2. TypeOK'
  <2>1. told' \in [Probe -> {"nothing", "answer", "timed out", "lost"}]
    BY <1>0, Told
  <2>2. QED
    BY <1>0, <2>1 DEF TypeOK
<1>3. told'[at] = what /\ \A p \in Probe : p # at => told'[p] = told[p]
  BY <1>0, <1>1, Told
<1>4. Threads'
  <2>1. \A p \in Probe : p > at => p # at
    BY Positions
  <2>2. \A p \in Probe : told'[p] = "answer" => sent[p] = "whole"
    BY <1>3 DEF Threads
  <2>3. \A p \in Probe : p > at => told'[p] = "nothing"
    BY <1>3, <2>1 DEF Threads
  <2>4. QED
    BY <1>0, <2>2, <2>3 DEF Threads, Stopped, Interrupted
<1>5. Done'
  <2>1. \A p \in Probe : Over(p)' => Over(p) \/ p = at
    BY <1>0 DEF Over
  <2>2. \A p \in Probe : Over(p)' => Idles(p)
    BY <2>1 DEF Done
  <2>3. QED
    BY <1>0, <2>2 DEF Done, Idles
<1>6. Times'
  BY <1>0 DEF Times, Interrupted
<1>7. QED
  BY <1>2, <1>4, <1>5, <1>6

LEMMA ExitsKeeps ==
  ASSUME BatchInv, NEW code \in {0, 130}, Exits(code),
         pc \in {"watch", "grace"} => Idles(at)
  PROVE  BatchInv'
<1> USE DEF BatchInv
<1>1. TypeOK'
  BY DEF Exits, TypeOK
<1>2. Threads'
  BY DEF Exits, Threads, Stopped, Interrupted
<1>3. Done'
  <2>1. \A p \in Probe : Over(p)' => Over(p) \/ (p = at /\ pc \in {"watch", "grace"})
    BY DEF Exits, Over, TypeOK
  <2>2. \A p \in Probe : Over(p)' => Idles(p)
    BY <2>1 DEF Done
  <2>3. QED
    BY <2>2 DEF Exits, Done, Idles
<1>4. Times'
  BY DEF Exits, Times, Interrupted
<1>5. QED
  BY <1>1, <1>2, <1>3, <1>4

LEMMA CommandKeeps ==
  ASSUME BatchInv, Command
  PROVE  BatchInv'
<1> USE DEF BatchInv
<1>1. CASE Ask
  BY <1>1, AskKeeps
<1>2. CASE Finish
  BY <1>2, ExitsKeeps DEF Finish, Exits
<1>3. CASE SeeInterrupt
  BY <1>3, CancelKeeps DEF SeeInterrupt, InterruptSeen
<1>4. CASE SeeDeadline
  BY <1>4, CancelKeeps DEF SeeDeadline, DeadlineSeen
<1>5. CASE Take
  <2>1. pc = "watch" /\ sent[at] # "none" /\ at \in Probe
    BY <1>5, AtIsAProbe DEF Take, Arrived
  <2>2. Idles(at) /\ (~Interrupted => sent[at] = "whole")
    <3>1. worker[at] = "ended" /\ sent[at] \in Answer /\ ~cancelled[at]
      BY <2>1 DEF Threads, Done, TypeOK
    <3>2. QED
      BY <2>1, <3>1 DEF Threads, Stopped, Idles, Answer
  <2>3. CASE Interrupted
    BY <1>5, <2>2, <2>3, ExitsKeeps DEF Take
  <2>4. CASE ~Interrupted
    BY <1>5, <2>1, <2>2, <2>4, ShowsKeeps DEF Take
  <2>5. QED
    BY <2>3, <2>4
<1>6. CASE Miss
  <2>1. pc = "watch" /\ Idles(at) /\ Shows("lost")
    BY <1>6 DEF Miss, Ended, Idles
  <2>2. Interrupted => now <= interrupt + Grace
    BY <2>1 DEF Times
  <2>3. QED
    BY <2>1, <2>2, ShowsKeeps
<1>7. CASE GraceOver
  <2>1. pc = "grace" /\ (Ended \/ now >= since + Grace)
    BY <1>7 DEF GraceOver, GraceEnds
  <2>2. Idles(at)
    <3>1. CASE Ended
      BY <3>1 DEF Ended, Idles
    <3>2. CASE now >= since + Grace
      <4>1. now > since
        BY <3>2, Clocks, Bounds
      <4>2. QED
        BY <2>1, <4>1 DEF Idles, Done
    <3>3. QED
      BY <2>1, <3>1, <3>2
  <2>3. CASE why = "interrupt"
    BY <1>7, <2>2, <2>3, ExitsKeeps DEF GraceOver
  <2>4. CASE why # "interrupt"
    <3>1. why = "deadline" /\ Shows("timed out")
      BY <1>7, <2>4 DEF GraceOver, TypeOK
    <3>2. Interrupted => now <= interrupt + Grace
      <4>1. Interrupted => since <= interrupt /\ now <= since + Grace
        BY <2>1, <3>1 DEF Times
      <4>2. QED
        BY <4>1, Clocks, Bounds
    <3>3. QED
      BY <2>1, <2>2, <3>1, <3>2, ShowsKeeps
  <2>5. QED
    BY <2>3, <2>4
<1>8. QED
  BY <1>1, <1>2, <1>3, <1>4, <1>5, <1>6, <1>7 DEF Command

-----------------------------------------------------------------------------
(* The threads' steps                                                         *)

LEMMA WorkerKeeps ==
  ASSUME BatchInv, NEW p \in Probe, Worker(p)
  PROVE  BatchInv'
<1> USE DEF BatchInv
<1> DEFINE Sends == worker[p] = "runs" /\ worker'[p] = "ended"
<1>1. /\ WorkerOnly /\ pc # "exited"
      /\ worker[p] \notin {"none", "ended"}
      /\ worker'[p] # "none"
      /\ \A q \in Probe : q # p => /\ worker'[q] = worker[q] /\ helper'[q] = helper[q]
                                   /\ sent'[q] = sent[q]
      /\ helper'[p] = "runs" <=> worker'[p] = "helper"
      /\ sent'[p] = sent[p] \/ (Sends /\ sent'[p] = IF Stopped(p) THEN "cut" ELSE "whole")
      /\ worker'[p] \in {"asked", "helper"} /\ worker[p] \notin {"asked", "helper"} => ~Stopped(p)
      /\ TypeOK'
  <2> USE DEF At, Goes
  <2>0. /\ helper[p] = "runs" <=> worker[p] = "helper"
        /\ "cut" \in Answer /\ "whole" \in Answer
    BY DEF Threads, Answer
  <2>1. CASE AskHelper(p)
    BY <2>1, <2>0, Threaded, Dated, ThreadTypes DEF AskHelper, WorkerOnly
  <2>2. CASE StartHelper(p)
    BY <2>2, <2>0, Threaded, Dated, ThreadTypes DEF StartHelper, WorkerOnly
  <2>3. CASE HelperEnds(p)
    BY <2>3, <2>0, Threaded, Dated, ThreadTypes DEF HelperEnds, WorkerOnly
  <2>4. CASE StopHelper(p)
    <3>1. until' \in [Probe -> Nat]
      <4>1. now + Cleanup \in Nat
        BY Clocks, Bounds
      <4>2. QED
        BY <2>4, <4>1, Dated DEF StopHelper
    <3>2. QED
      BY <2>4, <2>0, <3>1, Threaded, ThreadTypes DEF StopHelper
  <2>5. CASE LeaveHelper(p)
    BY <2>5, <2>0, Threaded, Dated, ThreadTypes DEF LeaveHelper, WorkerOnly
  <2>6. CASE Request(p)
    <3>1. until' \in [Probe -> Nat]
      <4>1. now + Transport \in Nat
        BY Clocks, Bounds
      <4>2. QED
        BY <2>6, <4>1, Dated DEF Request
    <3>2. QED
      BY <2>6, <2>0, <3>1, Threaded, ThreadTypes DEF Request
  <2>7. CASE Response(p)
    BY <2>7, <2>0, Threaded, Dated, ThreadTypes DEF Response, WorkerOnly
  <2>8. CASE Send(p)
    BY <2>8, <2>0, Threaded, Dated, ThreadTypes DEF Send, WorkerOnly
  <2>9. CASE Panic(p)
    BY <2>9, <2>0, Threaded, Dated, ThreadTypes DEF Panic, WorkerOnly
  <2>10. QED
    BY <2>1, <2>2, <2>3, <2>4, <2>5, <2>6, <2>7, <2>8, <2>9 DEF Worker
<1>2. Threads'
  <2> SUFFICES ASSUME NEW q \in Probe
               PROVE  /\ q > at' => worker'[q] = "none" /\ ~cancelled'[q] /\ told'[q] = "nothing"
                      /\ helper'[q] = "runs" <=> worker'[q] = "helper"
                      /\ sent'[q] # "none" => worker'[q] = "ended"
                      /\ sent'[q] = "cut" => Stopped(q)'
                      /\ told'[q] = "answer" => sent'[q] = "whole"
    BY DEF Threads
  <2>1. CASE q = p
    BY <1>1, <2>1 DEF Threads, WorkerOnly, Stopped, Interrupted
  <2>2. CASE q # p
    BY <1>1, <2>2 DEF Threads, WorkerOnly, Stopped, Interrupted
  <2>3. QED
    BY <2>1, <2>2
<1>3. Done'
  <2>1. ASSUME NEW q \in Probe, Over(q)' PROVE Idles(q)'
    <3>1. Over(q) /\ Idles(q)
      BY <1>1, <2>1 DEF WorkerOnly, Over, Done
    <3>2. QED
      BY <1>1, <3>1 DEF WorkerOnly, Idles, Stopped
  <2>2. pc = "grace" /\ now > since => worker'[at] \notin {"asked", "helper"}
    BY <1>1, AtIsAProbe DEF Done, Stopped
  <2>3. QED
    BY <1>1, <2>1, <2>2 DEF WorkerOnly, Done
<1>4. Times'
  BY <1>1 DEF WorkerOnly, Times, Interrupted
<1>5. QED
  BY <1>1, <1>2, <1>3, <1>4

LEMMA TickKeeps ==
  ASSUME BatchInv, Tick
  PROVE  BatchInv'
<1> USE DEF BatchInv
<1>1. /\ pc \in {"watch", "grace"} /\ now' = now + 1
      /\ UNCHANGED <<mainVars, interrupt, workerVars>>
  BY DEF Tick, CommandDue, TypeOK
<1>2. TypeOK'
  <2>1. now' \in Nat
    BY <1>1, Clocks
  <2>2. QED
    BY <1>1, <2>1 DEF TypeOK
<1>3. Threads'
  BY <1>1 DEF Threads, Stopped, Interrupted
<1>4. Done'
  <2>1. pc = "grace" => worker[at] \notin {"asked", "helper"}
    BY AtIsAProbe DEF Tick, WorkerDue, Stopped, Done
  <2>2. QED
    BY <1>1, <2>1 DEF Done, Over, Idles
<1>5. Times'
  <2>1. CASE pc = "watch"
    <3>1. ~Interrupted /\ ~(now >= since + Deadline)
      BY <2>1 DEF Tick, CommandDue, InterruptSeen, DeadlineSeen
    <3>2. now + 1 <= since + Deadline
      BY <3>1, Clocks, Bounds
    <3>3. since <= now + 1
      BY Clocks DEF Times
    <3>4. QED
      BY <1>1, <2>1, <3>1, <3>2, <3>3 DEF Times, Interrupted
  <2>2. CASE pc = "grace"
    <3>1. ~(now >= since + Grace)
      BY <2>2 DEF Tick, CommandDue, GraceEnds
    <3>2. now + 1 <= since + Grace
      BY <3>1, Clocks, Bounds
    <3>3. since <= now + 1 /\ (Interrupted => interrupt <= now + 1)
      <4>1. since <= now /\ (Interrupted => interrupt <= now)
        BY DEF Times
      <4>2. QED
        BY <4>1, Clocks
    <3>4. QED
      BY <1>1, <2>2, <3>2, <3>3 DEF Times, Interrupted
  <2>3. QED
    BY <1>1, <2>1, <2>2
<1>6. QED
  BY <1>2, <1>3, <1>4, <1>5

LEMMA InterruptKeeps ==
  ASSUME BatchInv, Interrupt
  PROVE  BatchInv'
<1> USE DEF BatchInv
<1>1. ~Interrupted /\ interrupt' = now /\ UNCHANGED <<mainVars, now, workerVars>>
  BY DEF Interrupt
<1>2. TypeOK' /\ Threads' /\ Done'
  BY <1>1 DEF TypeOK, Threads, Done, Over, Idles, Stopped, Interrupted
<1>3. Times'
  <2>1. /\ now <= now /\ now <= now + Grace
        /\ since <= now => since <= now + Grace
    BY Clocks, Bounds
  <2>2. QED
    BY <1>1, <2>1 DEF Times, Interrupted
<1>4. QED
  BY <1>2, <1>3

-----------------------------------------------------------------------------
THEOREM BatchInvariant == Spec => []BatchInv
<1>1. Init => BatchInv
  BY Bounds DEF Init, BatchInv, TypeOK, Answer, Threads, Done, Over, Idles, Times, Interrupted,
                Never, Probe
<1>2. BatchInv /\ [Next]_vars => BatchInv'
  <2>1. CASE UNCHANGED vars
    BY <2>1 DEF vars, BatchInv, TypeOK, Threads, Done, Over, Idles, Times, Stopped, Interrupted
  <2>2. QED
    BY <2>1, CommandKeeps, WorkerKeeps, TickKeeps, InterruptKeeps DEF Next, Exited
<1>3. QED
  BY <1>1, <1>2, PTL DEF Spec

(* TypeOK of the run.                                                         *)
THEOREM BatchTypes == Spec => []TypeOK
BY BatchInvariant, PTL DEF BatchInv

(* AnswersAreWhole: no provider is shown what its probe had when it was cut   *)
(* short.                                                                     *)
THEOREM ShownIsWhole == Spec => []AnswersAreWhole
<1>1. BatchInv => AnswersAreWhole
  BY DEF BatchInv, Threads, AnswersAreWhole
<1>2. QED
  BY <1>1, BatchInvariant, PTL

(* NoOrphans: when the command exits no helper is left that was not told.     *)
THEOREM NoHelperIsLeft == Spec => []NoOrphans
<1>1. BatchInv => NoOrphans
  <2> SUFFICES ASSUME BatchInv, pc = "exited", NEW p \in Probe PROVE helper[p] # "runs"
    BY DEF NoOrphans
  <2>1. CASE p > at
    BY <2>1 DEF BatchInv, Threads
  <2>2. CASE p < at \/ p = at
    BY <2>2 DEF BatchInv, Done, Over, Idles, Threads
  <2>3. QED
    BY <2>1, <2>2, Positions DEF BatchInv
<1>2. QED
  BY <1>1, BatchInvariant, PTL

(* TurnBounded: no provider takes longer than its timeout and the time of     *)
(* grace.                                                                     *)
THEOREM TurnsAreBounded == Spec => []TurnBounded
<1>1. BatchInv => TurnBounded
  <2> SUFFICES ASSUME BatchInv, pc \in {"watch", "grace"}
               PROVE  now <= bornAt[at] + Deadline + Grace
    BY DEF TurnBounded
  <2>1. bornAt[at] \in Nat /\ since \in Nat /\ now \in Nat
    BY AtIsAProbe, Clocks, Dated DEF BatchInv
  <2>2. QED
    BY <2>1, Bounds DEF BatchInv, Times
<1>2. QED
  BY <1>1, BatchInvariant, PTL

(* InterruptEnds: an interrupted command exits within two times of grace.     *)
THEOREM InterruptsEnd == Spec => []InterruptEnds
<1>1. BatchInv => InterruptEnds
  <2> SUFFICES ASSUME BatchInv, pc # "exited", Interrupted
               PROVE  now <= interrupt + 2 * Grace
    BY DEF InterruptEnds
  <2>1. CASE pc \in {"next", "watch"}
    <3>1. now <= interrupt + Grace
      BY <2>1 DEF BatchInv, Times
    <3>2. QED
      BY <3>1, Clocks, Bounds DEF BatchInv
  <2>2. CASE pc = "grace"
    <3>1. now <= since + Grace /\ since <= interrupt + Grace
      BY <2>2 DEF BatchInv, Times
    <3>2. QED
      BY <3>1, Clocks, Bounds DEF BatchInv
  <2>3. QED
    BY <2>1, <2>2 DEF BatchInv, TypeOK
<1>2. QED
  BY <1>1, BatchInvariant, PTL

(* GivenUpStartsNothing: a provider that was given up starts no helper beside *)
(* those of the next one.                                                     *)
THEOREM GivenUpIsQuiet == Spec => GivenUpStartsNothing
<1>1. BatchInv /\ [Next]_vars =>
        [\A p \in Probe : told[p] = "timed out" /\ helper'[p] = "runs" => helper[p] = "runs"]_vars
  <2> SUFFICES ASSUME BatchInv, Next, NEW p \in Probe, told[p] = "timed out",
                      helper'[p] = "runs"
               PROVE  helper[p] = "runs"
    OBVIOUS
  <2>1. Idles(p)
    <3>1. p < at \/ p = at
      BY Positions DEF BatchInv, Threads
    <3>2. Over(p)
      BY <3>1 DEF BatchInv, Done, Over, TypeOK
    <3>3. QED
      BY <3>2 DEF BatchInv, Done
  <2>2. CASE \E q \in Probe : Worker(q)
    <3>1. PICK q \in Probe : Worker(q)
      BY <2>2
    <3>2. CASE StartHelper(q)
      BY <2>1, <3>2 DEF StartHelper, At, Idles, BatchInv, TypeOK
    <3>3. CASE AskHelper(q) \/ HelperEnds(q) \/ StopHelper(q) \/ LeaveHelper(q)
      BY <3>3 DEF AskHelper, HelperEnds, StopHelper, LeaveHelper, BatchInv, TypeOK
    <3>4. CASE Request(q) \/ Response(q) \/ Send(q) \/ Panic(q)
      BY <3>4 DEF Request, Response, Send, Panic
    <3>5. QED
      BY <3>1, <3>2, <3>3, <3>4 DEF Worker
  <2>3. CASE Command \/ Interrupt \/ Tick \/ Exited
    BY <2>3 DEF Command, Ask, Finish, SeeInterrupt, SeeDeadline, Cancels, Take, Miss, GraceOver,
                Shows, Exits, Interrupt, Tick, Exited, vars
  <2>4. QED
    BY <2>2, <2>3 DEF Next
<1>2. QED
  BY <1>1, BatchInvariant, PTL DEF Spec, GivenUpStartsNothing

-----------------------------------------------------------------------------
(* The command within MCProbeRuntime                                          *)

(* Looked at or not, the command takes its own steps: the run time implements *)
(* it, so that all that was proved of it holds there.                         *)
THEOREM RuntimeRunsTheCommand == RuntimeSpec => Spec
<1>1. RuntimeInit => Init
  BY DEF RuntimeInit
<1>2. [RuntimeNext]_allVars => [Next]_vars
  BY DEF RuntimeNext, CommandSide, HelperSide, GoodHelper, GoodRunner, allVars
<1>3. QED
  BY <1>1, <1>2, PTL DEF RuntimeSpec, Spec

(* The three invariants of the command, in the run time that TLC checks.      *)
THEOREM RuntimeAnswersAreWhole == RuntimeSpec => [](AnswersAreWhole /\ NoOrphans /\ TurnBounded)
BY RuntimeRunsTheCommand, ShownIsWhole, NoHelperIsLeft, TurnsAreBounded, PTL

-----------------------------------------------------------------------------
(* The runner of a helper, in HelperRun                                       *)

(* What a helper of any kind does, however much it writes: bounds are the      *)
(* model's own.                                                               *)
Enters(p, call) ==
  /\ H!Runs(p) /\ busy[p] = "none" /\ busy' = [busy EXCEPT ![p] = call]
  /\ UNCHANGED <<H!runnerVars, pipe, stdin, tree, killed, wrote, took, cancelledAt>>
Writes(p, s) ==
  /\ H!Runs(p) /\ busy[p] = s /\ busy' = [busy EXCEPT ![p] = "none"]
  /\ \/ /\ pipe[s] < Capacity
        /\ pipe' = [pipe EXCEPT ![s] = @ + 1] /\ wrote' = [wrote EXCEPT ![s] = @ + 1]
     \/ UNCHANGED <<pipe, wrote>>
  /\ UNCHANGED <<H!runnerVars, stdin, tree, killed, took, cancelledAt>>
Moves(p) ==
  \/ \E call \in H!Stream \cup {"in"} : Enters(p, call)
  \/ \E s \in H!Stream : Writes(p, s)
  \/ p = "helper" /\ H!Read
  \/ p # "helper" /\ H!Fork(p)
  \/ H!Exit(p)

Typed ==
  /\ runnerPc \in H!Phase /\ elapsed \in Nat /\ runnerUntil \in Nat
  /\ result \in {"none", "ok", "interrupted", "timed out", "failed"}
  /\ remaining \in 0..Input /\ open \in BOOLEAN
  /\ eof \in [H!Stream -> BOOLEAN] /\ kept \in [H!Stream -> 0..Limit]
  /\ pipe \in [H!Stream -> 0..Capacity] /\ stdin \in 0..Capacity
  /\ tree \in [H!Process -> {"none", "runs", "gone"}] /\ killed \in BOOLEAN
  /\ wrote \in [H!Stream -> Nat] /\ took \in 0..Input
  /\ busy \in [H!Process -> H!Call]
  /\ cancelledAt \in Nat \cup {H!Never}

(* What the helper is fed is in its hands, in its pipe or still to be written. *)
Fed == took + stdin + remaining = Input

(* Nothing runs before the start; the group is told to end on the way back.   *)
Unstarted == \A p \in H!Process : tree[p] = "none"
ToldToEnd ==
  /\ runnerPc = "start" => Unstarted
  /\ runnerPc \in {"reap", "late"} => killed
  /\ runnerPc = "done" => killed \/ Unstarted

(* What was written is in the pipe or was read, and the end of a stream is     *)
(* seen when nobody is left that could write to it.                            *)
Counted ==
  /\ \A s \in H!Stream : pipe[s] <= wrote[s] /\ kept[s] = H!Lower(Limit, wrote[s] - pipe[s])
  /\ \A s \in H!Stream : eof[s] => runnerPc # "start" /\ ~H!Held /\ pipe[s] = 0
  /\ runnerPc = "done" /\ result = "ok" => \A s \in H!Stream : eof[s]

(* The clock in each phase, against the timeout and against the cancellation.  *)
Timed ==
  /\ H!Cancelled => cancelledAt <= elapsed
  /\ runnerPc = "start" => elapsed = 0
  /\ runnerPc \in {"out", "err", "feed", "wait", "nap"} =>
       elapsed < Timeout /\ (H!Cancelled => elapsed <= cancelledAt)
  /\ runnerPc \in {"head", "kill"} =>
       elapsed <= Timeout /\ (H!Cancelled => elapsed <= cancelledAt + 1)
  /\ runnerPc = "reap" =>
       /\ elapsed <= runnerUntil /\ runnerUntil <= elapsed + Cleanup
       /\ runnerUntil <= Timeout + Cleanup
       /\ H!Cancelled => runnerUntil <= cancelledAt + 1 + Cleanup
  /\ runnerPc = "late" =>
       /\ elapsed <= runnerUntil /\ runnerUntil <= elapsed + Cleanup
       /\ runnerUntil <= Timeout + 2 * Cleanup
       /\ H!Cancelled => runnerUntil <= cancelledAt + 1 + 2 * Cleanup
  /\ runnerPc = "done" => elapsed <= Timeout + 2 * Cleanup

RunInv == Typed /\ Fed /\ ToldToEnd /\ Counted /\ Timed

-----------------------------------------------------------------------------
(* Numbers and parts                                                         *)

LEMMA RunSizes ==
  /\ Timeout \in Nat /\ Timeout > 0 /\ Cleanup \in Nat /\ Cleanup > 0
  /\ Limit \in Nat /\ Capacity \in Nat /\ Capacity > 0 /\ Input \in Nat
BY RunnerAssumption DEF H!HelperAssumption

LEMMA LowerIsANumber ==
  \A a, b \in Nat : H!Lower(a, b) \in Nat /\ H!Lower(a, b) <= a /\ H!Lower(a, b) <= b
BY DEF H!Lower

(* What is kept of what came in two parts is what is kept of the whole.       *)
LEMMA LowerAdds ==
  \A l, a, b \in Nat : H!Lower(l, H!Lower(l, a) + b) = H!Lower(l, a + b)
BY DEF H!Lower

LEMMA RunNumbers ==
  ASSUME Typed
  PROVE  /\ elapsed \in Nat /\ runnerUntil \in Nat /\ remaining \in Nat
         /\ stdin \in Nat /\ took \in Nat
         /\ H!Cancelled => cancelledAt \in Nat
         /\ stdin <= Capacity /\ remaining <= Input /\ took <= Input
<1>1. /\ elapsed \in Nat /\ runnerUntil \in Nat /\ cancelledAt \in Nat \cup {H!Never}
      /\ remaining \in 0..Input /\ stdin \in 0..Capacity /\ took \in 0..Input
  BY DEF Typed
<1> QED  BY <1>1, RunSizes DEF H!Cancelled

LEMMA OfStreams ==
  ASSUME Typed, NEW s \in H!Stream
  PROVE  /\ pipe[s] \in Nat /\ pipe[s] <= Capacity /\ kept[s] \in Nat /\ kept[s] <= Limit
         /\ wrote[s] \in Nat /\ eof[s] \in BOOLEAN
<1>1. /\ pipe[s] \in 0..Capacity /\ kept[s] \in 0..Limit /\ wrote[s] \in Nat
      /\ eof[s] \in BOOLEAN
  BY DEF Typed
<1> QED  BY <1>1, RunSizes

-----------------------------------------------------------------------------
(* The start                                                                 *)

LEMMA InitRuns == ASSUME H!Init PROVE RunInv
<1>1. Typed
  <2>1. /\ 0 \in 0..Input /\ Input \in 0..Input /\ 0 \in 0..Capacity /\ 0 \in 0..Limit
    BY RunSizes
  <2>2. /\ eof \in [H!Stream -> BOOLEAN] /\ kept \in [H!Stream -> 0..Limit]
        /\ pipe \in [H!Stream -> 0..Capacity] /\ wrote \in [H!Stream -> Nat]
        /\ tree \in [H!Process -> {"none", "runs", "gone"}] /\ busy \in [H!Process -> H!Call]
    BY <2>1 DEF H!Init, H!Call
  <2>3. cancelledAt \in Nat \cup {H!Never}
    BY DEF H!Init
  <2> QED  BY <2>1, <2>2, <2>3 DEF H!Init, Typed, H!Phase
<1>2. Fed
  BY RunSizes DEF H!Init, Fed
<1>3. ToldToEnd
  BY DEF H!Init, ToldToEnd, Unstarted
<1>4. Counted
  <2>1. \A s \in H!Stream : pipe[s] = 0 /\ wrote[s] = 0 /\ kept[s] = 0 /\ ~eof[s]
    BY DEF H!Init
  <2>2. H!Lower(Limit, 0 - 0) = 0
    BY RunSizes DEF H!Lower
  <2> QED  BY <2>1, <2>2 DEF H!Init, Counted
<1>5. Timed
  BY RunSizes DEF H!Init, Timed, H!Cancelled, H!Never
<1> QED  BY <1>1, <1>2, <1>3, <1>4, <1>5 DEF RunInv

-----------------------------------------------------------------------------
(* Types                                                                     *)

LEMMA RunnerTypes ==
  ASSUME RunInv, H!Runner
  PROVE  Typed'
<1> USE RunSizes DEF H!Phase, H!Call
<1>0. Typed
  BY DEF RunInv
<1>n. elapsed \in Nat /\ runnerUntil \in Nat /\ elapsed + 1 \in Nat /\ elapsed + Cleanup \in Nat
  BY <1>0, RunNumbers
<1>1. CASE H!Start
  BY <1>0, <1>1 DEF H!Start, Typed
<1>2. CASE H!Head
  BY <1>0, <1>2 DEF H!Head, Typed
<1>3. CASE H!Feed
  <2>1. CASE open /\ remaining > 0 /\ ~H!Held
    BY <1>0, <1>3, <2>1 DEF H!Feed, Typed
  <2>2. CASE ~(open /\ remaining > 0 /\ ~H!Held)
    <3> DEFINE some == IF open THEN H!Lower(remaining, Capacity - stdin) ELSE 0
    <3>1. some \in Nat /\ some <= remaining /\ some <= Capacity - stdin
      <4>1. Capacity - stdin \in Nat /\ remaining \in Nat
        BY <1>0, RunNumbers
      <4>2. /\ H!Lower(remaining, Capacity - stdin) \in Nat
            /\ H!Lower(remaining, Capacity - stdin) <= remaining
            /\ H!Lower(remaining, Capacity - stdin) <= Capacity - stdin
        BY <4>1, LowerIsANumber
      <4> QED  BY <4>1, <4>2
    <3>2. /\ remaining' = remaining - some /\ stdin' = stdin + some
          /\ open' = (open /\ remaining' > 0) /\ runnerPc' = "wait"
          /\ UNCHANGED <<elapsed, runnerUntil, result, eof, kept, pipe, killed,
                        H!treeVars, cancelledAt>>
      BY <1>3, <2>2 DEF H!Feed
    <3>3. remaining' \in 0..Input /\ stdin' \in 0..Capacity
      BY <1>0, <3>1, <3>2, RunNumbers
    <3> QED  BY <1>0, <3>2, <3>3 DEF Typed
  <2> QED  BY <2>1, <2>2
<1>4. CASE H!Wait
  BY <1>0, <1>4 DEF H!Wait, Typed
<1>5. CASE H!Nap
  BY <1>0, <1>n, <1>5 DEF H!Nap, H!Sleeps, Typed
<1>6. CASE H!Kill
  BY <1>0, <1>n, <1>6 DEF H!Kill, Typed
<1>7. CASE H!Reap
  BY <1>0, <1>n, <1>7 DEF H!Reap, H!Sleeps, Typed
<1>d. ASSUME NEW S \in SUBSET H!Stream, H!Drained(S)
      PROVE  /\ pipe' \in [H!Stream -> 0..Capacity] /\ eof' \in [H!Stream -> BOOLEAN]
             /\ kept' \in [H!Stream -> 0..Limit]
  <2>1. \A s \in H!Stream : H!Lower(Limit, kept[s] + pipe[s]) \in 0..Limit
    <3> TAKE s \in H!Stream
    <3>1. kept[s] + pipe[s] \in Nat
      BY <1>0, OfStreams
    <3> QED  BY <3>1, LowerIsANumber
  <2>z. 0 \in 0..Capacity
    BY RunSizes
  <2>2. /\ kept \in [H!Stream -> 0..Limit] /\ pipe \in [H!Stream -> 0..Capacity]
        /\ eof \in [H!Stream -> BOOLEAN]
    BY <1>0 DEF Typed
  <2>3. pipe' \in [H!Stream -> 0..Capacity]
    BY <1>d, <2>z, <2>2 DEF H!Drained
  <2>4. eof' \in [H!Stream -> BOOLEAN]
    BY <1>d, <2>2 DEF H!Drained
  <2>5. kept' \in [H!Stream -> 0..Limit]
    BY <1>d, <2>1, <2>2 DEF H!Drained
  <2> QED  BY <2>3, <2>4, <2>5
<1>8. CASE H!Late
  <2>1. CASE (\A s \in H!Stream : eof[s]) \/ elapsed >= runnerUntil
    BY <1>0, <1>8, <2>1 DEF H!Late, Typed
  <2>2. CASE ~((\A s \in H!Stream : eof[s]) \/ elapsed >= runnerUntil)
    <3>1. /\ H!Drained(H!Stream) /\ elapsed' \in Nat
          /\ UNCHANGED <<runnerPc, result, runnerUntil, remaining, open, stdin,
                         killed, H!treeVars, cancelledAt>>
      BY <1>n, <1>8, <2>2 DEF H!Late, H!Sleeps
    <3> QED  BY <1>0, <1>d, <3>1 DEF Typed
  <2> QED  BY <2>1, <2>2
<1>9. ASSUME NEW s \in H!Stream, H!Drain(s)  PROVE Typed'
  BY <1>0, <1>9, <1>d DEF H!Drain, Typed
<1> QED  BY <1>1, <1>2, <1>3, <1>4, <1>5, <1>6, <1>7, <1>8, <1>9 DEF H!Runner

-----------------------------------------------------------------------------
(* The runner's steps                                                        *)

(* What is written to the helper leaves what remains by as much.              *)
LEMMA RunnerFeeds ==
  ASSUME RunInv, H!Runner
  PROVE  Fed'
<1>0. Typed /\ Fed
  BY DEF RunInv
<1>1. CASE H!Feed
  <2>1. CASE open /\ remaining > 0 /\ ~H!Held
    BY <1>0, <1>1, <2>1 DEF H!Feed, Fed
  <2>2. CASE ~(open /\ remaining > 0 /\ ~H!Held)
    <3> DEFINE some == IF open THEN H!Lower(remaining, Capacity - stdin) ELSE 0
    <3>1. some \in Nat
      <4>1. Capacity - stdin \in Nat /\ remaining \in Nat
        BY <1>0, RunNumbers, RunSizes
      <4> QED  BY <4>1, LowerIsANumber
    <3>2. remaining' = remaining - some /\ stdin' = stdin + some /\ took' = took
      BY <1>1, <2>2 DEF H!Feed
    <3>3. remaining \in Nat /\ stdin \in Nat /\ took \in Nat
      BY <1>0, RunNumbers
    <3> HIDE DEF some
    <3> QED  BY <1>0, <3>1, <3>2, <3>3, RunSizes DEF Fed
  <2> QED  BY <2>1, <2>2
<1>2. CASE ~H!Feed
  <2>1. UNCHANGED <<took, stdin, remaining>>
    BY <1>2 DEF H!Runner, H!Start, H!Head, H!Drain, H!Drained, H!Wait, H!Nap, H!Kill, H!Reap, H!Late
  <2> QED  BY <1>0, <2>1 DEF Fed
<1> QED  BY <1>1, <1>2

LEMMA RunnerTells ==
  ASSUME RunInv, H!Runner
  PROVE  ToldToEnd'
<1>0. ToldToEnd
  BY DEF RunInv
<1>1. CASE H!Start
  BY <1>0, <1>1 DEF H!Start, ToldToEnd, Unstarted
<1>2. CASE H!Head \/ H!Feed \/ H!Wait \/ H!Nap
  BY <1>0, <1>2 DEF H!Head, H!Feed, H!Wait, H!Nap, ToldToEnd, Unstarted
<1>3. CASE H!Kill \/ H!Reap \/ H!Late
  <2>1. killed'
    BY <1>0, <1>3 DEF H!Kill, H!Reap, H!Late, ToldToEnd
  <2>2. runnerPc' # "start"
    BY <1>3 DEF H!Kill, H!Reap, H!Late
  <2> QED  BY <2>1, <2>2 DEF ToldToEnd
<1>4. CASE \E s \in H!Stream : H!Drain(s)
  BY <1>0, <1>4 DEF H!Drain, H!Drained, ToldToEnd, Unstarted, H!Stream
<1> QED  BY <1>1, <1>2, <1>3, <1>4 DEF H!Runner

(* Draining keeps count: what left the pipe is kept or beyond the limit.       *)
LEMMA DrainedCounts ==
  ASSUME Typed, Counted, NEW S \in SUBSET H!Stream, H!Drained(S),
         UNCHANGED <<wrote, tree>>
  PROVE  \A s \in H!Stream :
           /\ pipe'[s] <= wrote'[s] /\ kept'[s] = H!Lower(Limit, wrote'[s] - pipe'[s])
           /\ eof'[s] => ~H!Held' /\ pipe'[s] = 0
<1> SUFFICES ASSUME NEW s \in H!Stream
             PROVE  /\ pipe'[s] <= wrote'[s] /\ kept'[s] = H!Lower(Limit, wrote'[s] - pipe'[s])
                    /\ eof'[s] => ~H!Held' /\ pipe'[s] = 0
  OBVIOUS
<1>1. pipe[s] \in Nat /\ wrote[s] \in Nat /\ kept[s] \in Nat
  BY OfStreams
<1>2. /\ pipe[s] <= wrote[s] /\ kept[s] = H!Lower(Limit, wrote[s] - pipe[s])
      /\ eof[s] => ~H!Held /\ pipe[s] = 0
  BY DEF Counted
<1>3. H!Held' <=> H!Held
  BY DEF H!Held, H!Runs
<1>4. CASE s \in S
  <2>1. pipe'[s] = 0 /\ kept'[s] = H!Lower(Limit, kept[s] + pipe[s])
    BY <1>4 DEF H!Drained
  <2>2. H!Lower(Limit, H!Lower(Limit, wrote[s] - pipe[s]) + pipe[s])
          = H!Lower(Limit, (wrote[s] - pipe[s]) + pipe[s])
    <3>1. wrote[s] - pipe[s] \in Nat /\ Limit \in Nat
      BY <1>1, <1>2, RunSizes
    <3> QED  BY <1>1, <3>1, LowerAdds
  <2>3. (wrote[s] - pipe[s]) + pipe[s] = wrote[s] /\ wrote[s] - 0 = wrote[s]
    BY <1>1
  <2>4. kept'[s] = H!Lower(Limit, wrote[s] - 0)
    BY <1>2, <2>1, <2>2, <2>3
  <2>5. eof'[s] => ~H!Held
    BY <1>2, <1>4 DEF H!Drained
  <2> QED  BY <1>1, <1>3, <2>1, <2>4, <2>5
<1>5. CASE s \notin S
  <2>1. pipe'[s] = pipe[s] /\ kept'[s] = kept[s] /\ (eof'[s] => eof[s])
    BY <1>5 DEF H!Drained, Typed
  <2> QED  BY <1>2, <1>3, <2>1
<1> QED  BY <1>4, <1>5

LEMMA RunnerCounts ==
  ASSUME RunInv, H!Runner
  PROVE  Counted'
<1>0. Typed /\ Counted
  BY DEF RunInv
<1>1. ASSUME UNCHANGED <<pipe, wrote, kept, eof, tree>>, runnerPc' # "start",
             ~(runnerPc' = "done" /\ result' = "ok")
      PROVE  Counted'
  BY <1>0, <1>1 DEF Counted, H!Held, H!Runs
<1>2. CASE H!Start
  <2>1. \A s \in H!Stream : ~eof[s]
    BY <1>0, <1>2 DEF Counted, H!Start
  <2> QED  BY <1>0, <1>2, <2>1 DEF H!Start, Counted
<1>3. CASE H!Head \/ H!Feed \/ H!Wait \/ H!Nap \/ H!Kill
  BY <1>1, <1>3 DEF H!Head, H!Feed, H!Wait, H!Nap, H!Kill
<1>4. CASE H!Reap
  BY <1>1, <1>4 DEF H!Reap
<1>5. CASE \E s \in H!Stream : H!Drain(s)
  <2>1. PICK s \in H!Stream : H!Drain(s)
    BY <1>5
  <2>2. {s} \in SUBSET H!Stream /\ H!Drained({s}) /\ UNCHANGED <<wrote, tree>>
    BY <2>1 DEF H!Drain
  <2>3. runnerPc' # "start" /\ runnerPc' # "done"
    BY <2>1 DEF H!Drain
  <2> QED  BY <1>0, <2>2, <2>3, DrainedCounts DEF Counted
<1>6. CASE H!Late
  <2>1. CASE (\A s \in H!Stream : eof[s]) \/ elapsed >= runnerUntil
    <3>1. UNCHANGED <<pipe, wrote, kept, eof, tree>> /\ runnerPc' = "done"
      BY <1>6, <2>1 DEF H!Late
    <3>2. result' = "ok" => \A s \in H!Stream : eof[s]
      BY <1>6, <2>1 DEF H!Late
    <3> QED  BY <1>0, <3>1, <3>2 DEF Counted, H!Held, H!Runs
  <2>2. CASE ~((\A s \in H!Stream : eof[s]) \/ elapsed >= runnerUntil)
    <3>1. H!Drained(H!Stream) /\ UNCHANGED <<runnerPc, wrote, tree>> /\ runnerPc' = "late"
      BY <1>6, <2>2 DEF H!Late
    <3> QED  BY <1>0, <3>1, DrainedCounts DEF Counted
  <2> QED  BY <2>1, <2>2
<1> QED  BY <1>2, <1>3, <1>4, <1>5, <1>6 DEF H!Runner

(* The clock moves in a nap, which begins before the timeout, and while a      *)
(* phase of cleaning up has not come to its end.                               *)
LEMMA RunnerInTime ==
  ASSUME RunInv, H!Runner
  PROVE  Timed'
<1>0. Typed /\ Timed /\ cancelledAt' = cancelledAt
  BY DEF RunInv, H!Runner, H!Start, H!Head, H!Drain, H!Feed, H!Wait, H!Nap, H!Kill, H!Reap, H!Late
<1>n. /\ elapsed \in Nat /\ runnerUntil \in Nat /\ Timeout \in Nat /\ Timeout > 0 /\ Cleanup \in Nat
      /\ H!Cancelled => cancelledAt \in Nat
      /\ H!Cancelled' <=> H!Cancelled
  BY <1>0, RunNumbers, RunSizes DEF H!Cancelled
<1>1. CASE H!Start
  BY <1>0, <1>n, <1>1 DEF H!Start, Timed
<1>2. CASE H!Head
  <2>1. elapsed' = elapsed /\ runnerPc = "head" /\ runnerPc' \in {"kill", "out"}
    BY <1>2 DEF H!Head
  <2>2. runnerPc' = "out" => elapsed < Timeout /\ ~H!Cancelled
    BY <1>2, <1>n DEF H!Head
  <2> QED  BY <1>0, <1>n, <2>1, <2>2 DEF Timed
<1>3. CASE H!Feed \/ H!Wait
  <2>1. elapsed' = elapsed /\ runnerPc \in {"feed", "wait"} /\ runnerPc' \in {"wait", "nap", "kill"}
    BY <1>3 DEF H!Feed, H!Wait
  <2> QED  BY <1>0, <1>n, <2>1 DEF Timed
<1>4. CASE \E s \in H!Stream : H!Drain(s)
  <2>1. elapsed' = elapsed /\ runnerPc \in {"out", "err"} /\ runnerPc' \in {"err", "feed"}
    BY <1>4 DEF H!Drain, H!Stream
  <2> QED  BY <1>0, <1>n, <2>1 DEF Timed
<1>5. CASE H!Nap
  <2>1. elapsed' \in {elapsed, elapsed + 1} /\ runnerPc = "nap" /\ runnerPc' = "head"
    BY <1>5 DEF H!Nap, H!Sleeps
  <2> QED  BY <1>0, <1>n, <2>1 DEF Timed
<1>6. CASE H!Kill
  <2>1. /\ elapsed' = elapsed /\ runnerUntil' = elapsed + Cleanup
        /\ runnerPc = "kill" /\ runnerPc' = "reap"
    BY <1>6 DEF H!Kill
  <2> QED  BY <1>0, <1>n, <2>1 DEF Timed
<1>7. CASE H!Reap
  <2>1. CASE tree["helper"] = "gone" \/ elapsed >= runnerUntil
    <3>1. /\ elapsed' = elapsed /\ runnerPc = "reap"
          /\ \/ runnerPc' = "late" /\ runnerUntil' = elapsed + Cleanup
             \/ runnerPc' = "done"
      BY <1>7, <2>1 DEF H!Reap
    <3> QED  BY <1>0, <1>n, <3>1 DEF Timed
  <2>2. CASE ~(tree["helper"] = "gone" \/ elapsed >= runnerUntil)
    <3>1. /\ elapsed' \in {elapsed, elapsed + 1} /\ elapsed < runnerUntil
          /\ runnerPc = "reap" /\ runnerPc' = "reap"
          /\ runnerUntil' = runnerUntil
      BY <1>7, <1>n, <2>2 DEF H!Reap, H!Sleeps
    <3>2. /\ runnerUntil <= elapsed + Cleanup /\ runnerUntil <= Timeout + Cleanup
          /\ H!Cancelled => runnerUntil <= cancelledAt + 1 + Cleanup
          /\ H!Cancelled => cancelledAt <= elapsed
      BY <1>0, <3>1 DEF Timed
    <3>3. /\ elapsed' <= runnerUntil' /\ runnerUntil' <= elapsed' + Cleanup
          /\ H!Cancelled => cancelledAt <= elapsed'
      <4>1. CASE elapsed' = elapsed
        BY <1>n, <3>1, <3>2, <4>1
      <4>2. CASE elapsed' = elapsed + 1
        BY <1>n, <3>1, <3>2, <4>2
      <4> QED  BY <3>1, <4>1, <4>2
    <3> QED  BY <1>0, <1>n, <3>1, <3>2, <3>3 DEF Timed
  <2> QED  BY <2>1, <2>2
<1>8. CASE H!Late
  <2>p. runnerPc = "late"
    BY <1>8 DEF H!Late
  <2>0. /\ elapsed <= runnerUntil /\ runnerUntil <= elapsed + Cleanup
        /\ runnerUntil <= Timeout + 2 * Cleanup
        /\ H!Cancelled => runnerUntil <= cancelledAt + 1 + 2 * Cleanup
        /\ H!Cancelled => cancelledAt <= elapsed
    BY <1>0, <2>p DEF Timed
  <2>1. CASE (\A s \in H!Stream : eof[s]) \/ elapsed >= runnerUntil
    <3>1. elapsed' = elapsed /\ runnerPc' = "done"
      BY <1>8, <2>1 DEF H!Late
    <3>2. elapsed <= Timeout + 2 * Cleanup
      BY <1>n, <2>0
    <3> QED  BY <1>0, <1>n, <2>0, <3>1, <3>2 DEF Timed
  <2>2. CASE ~((\A s \in H!Stream : eof[s]) \/ elapsed >= runnerUntil)
    <3>1. elapsed < runnerUntil
      BY <1>n, <2>2
    <3>2. elapsed' \in {elapsed, elapsed + 1} /\ runnerPc' = runnerPc
      BY <1>8, <2>2 DEF H!Late, H!Sleeps
    <3>3. runnerUntil' = runnerUntil
      BY <1>8 DEF H!Late
    <3>4. /\ elapsed' <= runnerUntil' /\ runnerUntil' <= elapsed' + Cleanup
          /\ H!Cancelled => cancelledAt <= elapsed'
      <4>1. CASE elapsed' = elapsed
        BY <1>n, <2>0, <3>1, <3>3, <4>1
      <4>2. CASE elapsed' = elapsed + 1
        BY <1>n, <2>0, <3>1, <3>3, <4>2
      <4> QED  BY <3>2, <4>1, <4>2
    <3>5. runnerPc' = "late"
      BY <2>p, <3>2
    <3> QED  BY <1>0, <1>n, <2>0, <3>3, <3>4, <3>5 DEF Timed
  <2> QED  BY <2>1, <2>2
<1> QED  BY <1>1, <1>2, <1>3, <1>4, <1>5, <1>6, <1>7, <1>8 DEF H!Runner

LEMMA RunnerKeeps ==
  ASSUME RunInv, H!Runner
  PROVE  RunInv'
BY RunnerTypes, RunnerFeeds, RunnerTells, RunnerCounts, RunnerInTime DEF RunInv

-----------------------------------------------------------------------------
(* The helper's steps, and the token's                                       *)

LEMMA HelperTypes ==
  ASSUME RunInv, NEW p \in H!Process, Moves(p)
  PROVE  Typed'
<1>0. Typed /\ Fed
  BY DEF RunInv
<1>1. ASSUME NEW call \in H!Stream \cup {"in"}, Enters(p, call)  PROVE Typed'
  BY <1>0, <1>1 DEF Enters, Typed, H!Call
<1>2. ASSUME NEW s \in H!Stream, Writes(p, s)  PROVE Typed'
  <2>1. busy' \in [H!Process -> H!Call]
    BY <1>0, <1>2 DEF Writes, Typed, H!Call
  <2>2. pipe' \in [H!Stream -> 0..Capacity] /\ wrote' \in [H!Stream -> Nat]
    <3>1. CASE ~UNCHANGED <<pipe, wrote>>
      <4>1. pipe[s] + 1 \in 0..Capacity /\ wrote[s] + 1 \in Nat
        BY <1>0, <1>2, <3>1, OfStreams, RunSizes DEF Writes
      <4>2. /\ pipe' = [pipe EXCEPT ![s] = @ + 1] /\ pipe \in [H!Stream -> 0..Capacity]
            /\ wrote' = [wrote EXCEPT ![s] = @ + 1] /\ wrote \in [H!Stream -> Nat]
        BY <1>0, <1>2, <3>1 DEF Writes, Typed
      <4> QED  BY <4>1, <4>2
    <3>2. CASE UNCHANGED <<pipe, wrote>>
      BY <1>0, <1>2, <3>2 DEF Writes, Typed
    <3> QED  BY <3>1, <3>2
  <2> QED  BY <1>0, <1>2, <2>1, <2>2 DEF Writes, Typed
<1>3. CASE H!Read
  <2>1. busy' \in [H!Process -> H!Call]
    BY <1>0, <1>3 DEF H!Read, Typed, H!Call
  <2>2. stdin' \in 0..Capacity /\ took' \in 0..Input
    <3>1. /\ stdin \in Nat /\ took \in Nat /\ remaining \in Nat /\ stdin <= Capacity /\ took <= Input
          /\ took + stdin + remaining = Input
      BY <1>0, RunNumbers DEF Fed
    <3>2. CASE stdin > 0
      <4>1. stdin' = stdin - 1 /\ took' = took + 1
        BY <1>3, <3>2 DEF H!Read
      <4> QED  BY <3>1, <3>2, <4>1, RunSizes
    <3>3. CASE ~(stdin > 0)
      BY <1>0, <1>3, <3>3 DEF H!Read, Typed
    <3> QED  BY <3>2, <3>3
  <2> QED  BY <1>0, <1>3, <2>1, <2>2 DEF H!Read, Typed
<1>4. CASE H!Fork(p) \/ H!Exit(p)
  BY <1>0, <1>4 DEF H!Fork, H!Exit, Typed, H!Call
<1> QED  BY <1>1, <1>2, <1>3, <1>4 DEF Moves

LEMMA HelperFeeds ==
  ASSUME RunInv, NEW p \in H!Process, Moves(p)
  PROVE  Fed'
<1>0. Typed /\ Fed /\ stdin \in Nat /\ took \in Nat /\ remaining \in Nat
  BY RunNumbers DEF RunInv
<1>1. CASE H!Read
  BY <1>0, <1>1, RunSizes DEF H!Read, Fed
<1>2. CASE ~H!Read
  BY <1>0, <1>2 DEF Moves, Enters, Writes, H!Fork, H!Exit, Fed
<1> QED  BY <1>1, <1>2

(* Only a process that runs does anything, and only a helper that runs starts  *)
(* another one: what nobody holds stays that way.                              *)
LEMMA HelperHolds ==
  ASSUME RunInv, NEW p \in H!Process, Moves(p)
  PROVE  H!Held /\ ~Unstarted
<1>1. "helper" \in H!Process /\ (H!Runs(p) \/ H!Runs("helper"))
  BY DEF Moves, Enters, Writes, H!Read, H!Fork, H!Exit, H!Process
<1> QED  BY <1>1 DEF H!Held, Unstarted, H!Runs

LEMMA HelperTells ==
  ASSUME RunInv, NEW p \in H!Process, Moves(p)
  PROVE  ToldToEnd'
<1>1. UNCHANGED <<runnerPc, killed>>
  BY DEF Moves, Enters, Writes, H!Read, H!Fork, H!Exit
<1>2. ToldToEnd /\ ~Unstarted
  BY HelperHolds DEF RunInv
<1> QED  BY <1>1, <1>2 DEF ToldToEnd

LEMMA HelperCounts ==
  ASSUME RunInv, NEW p \in H!Process, Moves(p)
  PROVE  Counted'
<1>0. Typed /\ Counted
  BY DEF RunInv
<1>1. \A s \in H!Stream : ~eof[s]
  BY <1>0, HelperHolds DEF Counted
<1>2. UNCHANGED <<runnerPc, result, eof, kept>>
  BY DEF Moves, Enters, Writes, H!Read, H!Fork, H!Exit
<1>3. ~(runnerPc = "done" /\ result = "ok")
  BY <1>0, <1>1 DEF Counted, H!Stream
<1>4. \A s \in H!Stream : pipe'[s] <= wrote'[s] /\ wrote'[s] - pipe'[s] = wrote[s] - pipe[s]
  <2>1. CASE UNCHANGED <<pipe, wrote>>
    BY <1>0, <2>1 DEF Counted
  <2>2. ASSUME NEW s \in H!Stream, Writes(p, s), ~UNCHANGED <<pipe, wrote>>
        PROVE  \A r \in H!Stream : /\ pipe'[r] <= wrote'[r]
                                 /\ wrote'[r] - pipe'[r] = wrote[r] - pipe[r]
    <3> TAKE r \in H!Stream
    <3>1. /\ pipe' = [pipe EXCEPT ![s] = @ + 1] /\ wrote' = [wrote EXCEPT ![s] = @ + 1]
          /\ pipe \in [H!Stream -> 0..Capacity] /\ wrote \in [H!Stream -> Nat]
      BY <1>0, <2>2 DEF Writes, Typed
    <3>2. pipe[r] \in Nat /\ wrote[r] \in Nat /\ pipe[r] <= wrote[r]
      BY <1>0, OfStreams DEF Counted
    <3>3. CASE r = s
      <4>1. pipe'[r] = pipe[r] + 1 /\ wrote'[r] = wrote[r] + 1
        BY <3>1, <3>3
      <4> QED  BY <3>2, <4>1
    <3>4. CASE r # s
      BY <3>1, <3>2, <3>4
    <3> QED  BY <3>3, <3>4
  <2>3. UNCHANGED <<pipe, wrote>> \/ \E s \in H!Stream : Writes(p, s)
    BY DEF Moves, Enters, H!Read, H!Fork, H!Exit
  <2> QED  BY <2>1, <2>2, <2>3
<1> QED  BY <1>0, <1>1, <1>2, <1>3, <1>4 DEF Counted

LEMMA HelperKeeps ==
  ASSUME RunInv, NEW p \in H!Process, Moves(p)
  PROVE  RunInv'
<1>1. UNCHANGED <<runnerPc, elapsed, runnerUntil, cancelledAt>>
  BY DEF Moves, Enters, Writes, H!Read, H!Fork, H!Exit
<1>2. Timed'
  BY <1>1 DEF RunInv, Timed, H!Cancelled
<1> QED  BY <1>2, HelperTypes, HelperFeeds, HelperTells, HelperCounts DEF RunInv

LEMMA TokenKeeps ==
  ASSUME RunInv, H!Cancel
  PROVE  RunInv'
<1>0. Typed /\ Fed /\ ToldToEnd /\ Counted /\ Timed
  BY DEF RunInv
<1>1. Typed'
  BY <1>0 DEF H!Cancel, Typed
<1>2. Fed' /\ ToldToEnd' /\ Counted'
  BY <1>0 DEF H!Cancel, Fed, ToldToEnd, Unstarted, Counted, H!Held, H!Runs
<1>3. Timed'
  <2>1. /\ elapsed \in Nat /\ runnerUntil \in Nat /\ Cleanup \in Nat /\ 2 * Cleanup \in Nat
        /\ 2 * Cleanup >= Cleanup
    BY <1>0, RunNumbers, RunSizes
  <2>2. cancelledAt' = elapsed /\ UNCHANGED <<runnerPc, elapsed, runnerUntil>>
    BY DEF H!Cancel
  <2> QED  BY <1>0, <2>1, <2>2 DEF Timed
<1> QED  BY <1>1, <1>2, <1>3 DEF RunInv

LEMMA NothingKeeps == ASSUME RunInv, UNCHANGED H!vars PROVE RunInv'
<1>0. Typed /\ Fed /\ ToldToEnd /\ Counted /\ Timed
  BY DEF RunInv
<1>1. Typed'
  BY <1>0 DEF H!vars, Typed
<1>2. Fed' /\ ToldToEnd' /\ Counted' /\ Timed'
  BY <1>0 DEF H!vars, Fed, ToldToEnd, Unstarted, Counted, H!Held, H!Runs, Timed, H!Cancelled
<1> QED  BY <1>1, <1>2 DEF RunInv

-----------------------------------------------------------------------------
(* The theorems                                                              *)

(* The helpers of MCProbeRuntime, the one that does what it likes and the      *)
(* talkative one, do what any helper does.                                    *)
LEMMA HelpersMove ==
  /\ \A p \in H!Process : H!Helper(p) => Moves(p)
  /\ G!Does("helper") => "helper" \in H!Process /\ Moves("helper")
BY DEF H!Helper, H!Enter, H!Write, H!Read, H!Fork, H!Exit, H!Stream, H!Process, H!Runs,
       H!runnerVars, H!treeVars, G!Does, G!Enter, G!Write, G!Read, G!Exit, G!Stream, G!Runs,
       G!runnerVars, G!treeVars, Moves, Enters, Writes

LEMMA StepRuns == ASSUME RunInv, [H!Next]_H!vars PROVE RunInv'
<1>1. CASE \E p \in H!Process : H!Helper(p)
  BY <1>1, HelpersMove, HelperKeeps
<1>2. CASE H!Runner \/ H!Cancel
  BY <1>2, RunnerKeeps, TokenKeeps
<1>3. CASE UNCHANGED H!vars
  BY <1>3, NothingKeeps
<1> QED  BY <1>1, <1>2, <1>3 DEF H!Next

(* The invariant holds of every run, whatever its helper does.                 *)
THEOREM RunInvariant == H!Spec => []RunInv
<1>1. H!Init => RunInv
  BY InitRuns
<1>2. RunInv /\ [H!Next]_H!vars => RunInv'
  BY StepRuns
<1> QED  BY <1>1, <1>2, PTL DEF H!Spec

(* In every state of the invariant: nothing of the helper's group runs untold *)
(* once the run has returned, its output is whole, and it returns in time,    *)
(* sooner once cancelled.                                                      *)
LEMMA RunInvSettles ==
  ASSUME RunInv
  PROVE  H!NoOrphan /\ H!OutputWhole /\ H!Bounded /\ H!CancelledPromptly
<1>0. Typed /\ ToldToEnd /\ Counted /\ Timed
  BY DEF RunInv
<1>1. H!NoOrphan
  BY <1>0 DEF H!NoOrphan, ToldToEnd, Unstarted, H!Process
<1>2. H!OutputWhole
  <2> SUFFICES ASSUME runnerPc = "done", result = "ok", NEW s \in H!Stream
               PROVE  kept[s] = H!Lower(Limit, wrote[s])
    BY DEF H!OutputWhole
  <2>1. pipe[s] = 0 /\ kept[s] = H!Lower(Limit, wrote[s] - pipe[s])
    BY <1>0 DEF Counted
  <2>2. wrote[s] \in Nat
    BY <1>0, OfStreams
  <2> QED  BY <2>1, <2>2
<1>n. /\ elapsed \in Nat /\ runnerUntil \in Nat /\ Timeout \in Nat /\ Timeout > 0 /\ Cleanup \in Nat
      /\ 2 * Cleanup \in Nat /\ 2 * Cleanup >= Cleanup
      /\ H!Cancelled => cancelledAt \in Nat
  BY <1>0, RunNumbers, RunSizes
<1>3. H!Bounded
  <2>1. runnerPc \in H!Phase
    BY <1>0 DEF Typed
  <2>2. CASE runnerPc \in {"start", "head", "out", "err", "feed", "wait", "nap", "kill"}
    BY <1>0, <1>n, <2>2 DEF Timed, H!Bounded
  <2>3. CASE runnerPc \in {"reap", "late", "done"}
    BY <1>0, <1>n, <2>3 DEF Timed, H!Bounded
  <2> QED  BY <2>1, <2>2, <2>3 DEF H!Phase
<1>4. H!CancelledPromptly
  <2> SUFFICES ASSUME H!Cancelled, runnerPc # "done"
               PROVE  elapsed <= cancelledAt + 1 + 2 * Cleanup
    BY DEF H!CancelledPromptly
  <2>1. runnerPc \in H!Phase
    BY <1>0 DEF Typed
  <2>2. CASE runnerPc \in {"start", "head", "out", "err", "feed", "wait", "nap", "kill"}
    BY <1>0, <1>n, <2>2 DEF Timed
  <2>3. CASE runnerPc \in {"reap", "late"}
    BY <1>0, <1>n, <2>3 DEF Timed
  <2> QED  BY <2>1, <2>2, <2>3 DEF H!Phase
<1> QED  BY <1>1, <1>2, <1>3, <1>4

(* A helper run leaves no process of its group running untold (process.rs).    *)
THEOREM RunLeavesNoOrphan == H!Spec => []H!NoOrphan
BY RunInvariant, RunInvSettles, PTL

(* Its output is all that was written, up to the limit.                        *)
THEOREM RunOutputIsWhole == H!Spec => []H!OutputWhole
BY RunInvariant, RunInvSettles, PTL

(* It returns within its timeout and twice the time of cleaning up, and within *)
(* a sleep and twice that time of its cancellation.                            *)
THEOREM RunIsBounded == H!Spec => [](H!Bounded /\ H!CancelledPromptly)
BY RunInvariant, RunInvSettles, PTL

-----------------------------------------------------------------------------
(* The runner within MCProbeRuntime                                           *)

(* Either way of looking at it, the runner takes the same steps.              *)
LEMMA SameRunner == G!Runner => H!Runner
BY DEF H!Runner, H!Start, H!Head, H!Feed, H!Wait, H!Nap, H!Kill, H!Reap, H!Late, H!Drain,
       H!Stream, H!Process, H!Never, H!Cancelled, H!Held, H!Runs, H!Lower, H!Sleeps,
       H!Drained, H!runnerVars, H!treeVars, G!Runner, G!Start, G!Head, G!Feed, G!Wait, G!Nap,
       G!Kill, G!Reap, G!Late, G!Drain, G!Stream, G!Process, G!Never, G!Cancelled, G!Held,
       G!Runs, G!Lower, G!Sleeps, G!Drained, G!runnerVars, G!treeVars

(* Its invariant holds as long as it is looked at.                            *)
RuntimeInv ==
  /\ side \in {"command", "helper", "good"}
  /\ side # "command" => RunInv

LEMMA RuntimeSteps == RuntimeInv /\ [RuntimeNext]_allVars => RuntimeInv'
<1> SUFFICES ASSUME RuntimeInv, [RuntimeNext]_allVars PROVE RuntimeInv'
  OBVIOUS
<1>1. CASE CommandSide
  BY <1>1 DEF CommandSide, RuntimeInv
<1>2. CASE HelperSide \/ GoodHelper \/ GoodRunner
  <2>1. side # "command" /\ side' = side /\ RunInv
    BY <1>2 DEF HelperSide, GoodHelper, GoodRunner, RuntimeInv
  <2>2. H!Runner \/ H!Cancel \/ \E p \in H!Process : Moves(p)
    BY <1>2, SameRunner, HelpersMove DEF HelperSide, GoodHelper, GoodRunner, H!Next
  <2>3. RunInv'
    BY <2>1, <2>2, RunnerKeeps, TokenKeeps, HelperKeeps
  <2>4. QED
    BY <2>1, <2>3 DEF RuntimeInv
<1>3. CASE UNCHANGED allVars
  <2>1. UNCHANGED side /\ UNCHANGED H!vars
    BY <1>3 DEF allVars, helperVars, H!vars
  <2>2. QED
    BY <2>1, NothingKeeps DEF RuntimeInv
<1>4. QED
  BY <1>1, <1>2, <1>3 DEF RuntimeNext

(* RunsAreSettled: a run of a helper returns in its time, leaves nothing of    *)
(* its group running untold and returns all of its output (process.rs).       *)
THEOREM RunsSettle == RuntimeSpec => []RunsAreSettled
<1>1. RuntimeInit => RuntimeInv
  BY InitRuns DEF RuntimeInit, RuntimeInv
<1>2. RuntimeInv /\ [RuntimeNext]_allVars => RuntimeInv'
  BY RuntimeSteps
<1>3. RuntimeInv => RunsAreSettled
  BY RunInvSettles DEF RuntimeInv, RunsAreSettled
<1>4. QED
  BY <1>1, <1>2, <1>3, PTL DEF RuntimeSpec
================================================================================
