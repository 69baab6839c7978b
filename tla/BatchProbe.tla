------------------------------ MODULE BatchProbe ------------------------------
(***************************************************************************)
(* `usagestat usage` (crates/ai-usage-cli/src/main.rs) asks its providers   *)
(* one after the other, each in a thread of its own with a deadline         *)
(* (batch_probe.rs).  The thread runs a plugin, which computes, waits for   *)
(* helpers and waits for the network; only the first two can be cut short.  *)
(* When the deadline passes, or the user interrupts, the command cancels    *)
(* the thread, gives it time to clean up, and goes on or exits.             *)
(* Time is in seconds; a thread that polls acts within the second.          *)
(***************************************************************************)
EXTENDS Integers

CONSTANTS
  Probes,    \* how many providers are asked
  Deadline,  \* USAGESTAT_PROBE_TIMEOUT_SEC
  Grace,     \* how long a cancelled thread is waited for
  Cleanup,   \* process::CLEANUP, how long a helper that was signalled is waited for
  Transport  \* the deadline of an HTTP request

ASSUME ProbeAssumption ==
  /\ {Probes, Deadline, Grace, Transport} \subseteq Nat \ {0}
  /\ Cleanup \in Nat /\ Cleanup < Grace

Probe == 1..Probes
Never == -1

VARIABLES
  pc, at,       \* where the command is, and which provider it asks
  why,          \* why it cancelled the thread
  told,         \* what it shows for each provider
  status,       \* what it exits with, or Never
  now, since,   \* the clock; when the provider's turn or the time of grace began
  interrupt,    \* when the user interrupted, or Never
  cancelled,    \* the token of each probe
  worker,       \* where each thread is
  until,        \* the end of its wait
  helper,       \* the helper it started
  sent,         \* its answer: in the channel and cut short or not
  bornAt        \* when each provider's turn began (history)

mainVars   == <<pc, at, why, told, status, since, cancelled, bornAt>>
workerVars == <<worker, until, helper, sent>>
vars == <<pc, at, why, told, status, now, since, interrupt, cancelled, worker, until,
          helper, sent, bornAt>>

Answer == {"none", "whole", "cut"}
TypeOK ==
  /\ pc \in {"next", "watch", "grace", "exited"} /\ at \in 0..Probes
  /\ why \in {"deadline", "interrupt"}
  /\ told \in [Probe -> {"nothing", "answer", "timed out", "lost"}]
  /\ status \in {Never, 0, 130}
  /\ now \in Nat /\ since \in Nat /\ interrupt \in Nat \cup {Never}
  /\ cancelled \in [Probe -> BOOLEAN]
  /\ worker \in [Probe -> {"none", "runs", "asked", "helper", "stopping", "http", "ended"}]
  /\ until \in [Probe -> Nat]
  /\ helper \in [Probe -> {"none", "runs", "signalled", "gone"}]
  /\ sent \in [Probe -> Answer]
  /\ bornAt \in [Probe -> Nat]

Init ==
  /\ pc = "next" /\ at = 0 /\ why = "deadline"
  /\ told = [p \in Probe |-> "nothing"] /\ status = Never
  /\ now = 0 /\ since = 0 /\ interrupt = Never
  /\ cancelled = [p \in Probe |-> FALSE]
  /\ worker = [p \in Probe |-> "none"] /\ until = [p \in Probe |-> 0]
  /\ helper = [p \in Probe |-> "none"] /\ sent = [p \in Probe |-> "none"]
  /\ bornAt = [p \in Probe |-> 0]

Interrupted == interrupt # Never

\* CancellationToken: the probe's own flag, or the process's.
Stopped(p) == cancelled[p] \/ Interrupted

-----------------------------------------------------------------------------
(* The command *)

\* The next provider in a new thread with a token and a deadline of its own.
Ask ==
  /\ pc = "next" /\ at < Probes
  /\ at' = at + 1 /\ pc' = "watch" /\ since' = now
  /\ worker' = [worker EXCEPT ![at'] = "runs"]
  /\ bornAt' = [bornAt EXCEPT ![at'] = now]
  /\ UNCHANGED <<why, told, status, now, interrupt, cancelled, until, helper, sent>>

\* All were asked: their usage is printed.
Finish ==
  /\ pc = "next" /\ at = Probes
  /\ pc' = "exited" /\ status' = 0
  /\ UNCHANGED <<at, why, told, now, since, interrupt, cancelled, workerVars, bornAt>>

Cancels(reason) ==
  /\ cancelled' = [cancelled EXCEPT ![at] = TRUE]
  /\ why' = reason /\ pc' = "grace" /\ since' = now
  /\ UNCHANGED <<at, told, status, now, interrupt, workerVars, bornAt>>

\* (mutant: interrupted, the command exits at once)
SeeInterruptAtOnce ==
  /\ pc = "watch" /\ Interrupted
  /\ pc' = "exited" /\ status' = 130
  /\ UNCHANGED <<at, why, told, now, since, interrupt, cancelled, workerVars, bornAt>>

InterruptSeen == pc = "watch" /\ Interrupted
SeeInterrupt  == InterruptSeen /\ Cancels("interrupt")

DeadlineSeen == pc = "watch" /\ ~Interrupted /\ now >= since + Deadline
SeeDeadline  == DeadlineSeen /\ Cancels("deadline")

Arrived == sent[at] # "none"
Ended   == worker[at] = "ended"

Shows(what) ==
  /\ told' = [told EXCEPT ![at] = what] /\ pc' = "next"
  /\ UNCHANGED <<at, why, status, now, since, interrupt, cancelled, workerVars, bornAt>>

Exits(code) ==
  /\ pc' = "exited" /\ status' = code
  /\ UNCHANGED <<at, why, told, now, since, interrupt, cancelled, workerVars, bornAt>>

\* (mutant: an answer is an answer)
TakeUnasked == pc = "watch" /\ Arrived /\ Shows("answer")

\* The thread may have seen the interrupt before the command did.
Take ==
  /\ pc = "watch" /\ Arrived
  /\ IF Interrupted THEN Exits(130) ELSE Shows("answer")

Miss == pc = "watch" /\ Ended /\ ~Arrived /\ Shows("lost")

\* (mutant: the thread is waited for)
GraceEndsWithIt == pc = "grace" /\ Ended

\* Whatever comes in the time of grace is dropped.
GraceEnds == pc = "grace" /\ (Ended \/ now >= since + Grace)
GraceOver ==
  /\ GraceEnds
  /\ IF why = "interrupt" THEN Exits(130) ELSE Shows("timed out")

Command == Ask \/ Finish \/ SeeInterrupt \/ SeeDeadline \/ Take \/ Miss \/ GraceOver

-----------------------------------------------------------------------------
(* A thread, as long as the process lives *)

At(p, where) == pc # "exited" /\ worker[p] = where
Goes(p, where) == worker' = [worker EXCEPT ![p] = where]
WorkerOnly == UNCHANGED <<mainVars, now, interrupt>>

\* run_inner: the token is looked at, then the helper is started.
AskHelper(p) ==
  /\ At(p, "runs") /\ ~Stopped(p) /\ Goes(p, "asked")
  /\ WorkerOnly /\ UNCHANGED <<until, helper, sent>>

StartHelper(p) ==
  /\ At(p, "asked") /\ Goes(p, "helper")
  /\ helper' = [helper EXCEPT ![p] = "runs"]
  /\ WorkerOnly /\ UNCHANGED <<until, sent>>

HelperEnds(p) ==
  /\ At(p, "helper") \/ At(p, "stopping")
  /\ worker' = [worker EXCEPT ![p] = "runs"]
  /\ helper' = [helper EXCEPT ![p] = "gone"]
  /\ WorkerOnly /\ UNCHANGED <<until, sent>>

StopHelper(p) ==
  /\ At(p, "helper") /\ Stopped(p) /\ Goes(p, "stopping")
  /\ helper' = [helper EXCEPT ![p] = "signalled"]
  /\ until' = [until EXCEPT ![p] = now + Cleanup]
  /\ WorkerOnly /\ UNCHANGED sent

\* One that does not end is left to the system.
LeaveHelper(p) ==
  /\ At(p, "stopping") /\ now >= until[p] /\ Goes(p, "runs")
  /\ WorkerOnly /\ UNCHANGED <<until, helper, sent>>

\* A host call that is not cut short; a plugin that was cancelled may still reach one.
Request(p) ==
  /\ At(p, "runs") /\ Goes(p, "http")
  /\ until' = [until EXCEPT ![p] = now + Transport]
  /\ WorkerOnly /\ UNCHANGED <<helper, sent>>

Response(p) ==
  /\ At(p, "http") /\ Goes(p, "runs")
  /\ WorkerOnly /\ UNCHANGED <<until, helper, sent>>

\* The plugin's result; once cancelled, the interrupt handler or the refusal of a helper
\* makes it an error.
Send(p) ==
  /\ At(p, "runs") /\ Goes(p, "ended")
  /\ sent' = [sent EXCEPT ![p] = IF Stopped(p) THEN "cut" ELSE "whole"]
  /\ WorkerOnly /\ UNCHANGED <<until, helper>>

Panic(p) ==
  /\ At(p, "runs") /\ Goes(p, "ended")
  /\ WorkerOnly /\ UNCHANGED <<until, helper, sent>>

Worker(p) ==
  \/ AskHelper(p) \/ StartHelper(p) \/ HelperEnds(p) \/ StopHelper(p) \/ LeaveHelper(p)
  \/ Request(p) \/ Response(p) \/ Send(p) \/ Panic(p)

-----------------------------------------------------------------------------
(* The user and the clock *)

Interrupt ==
  /\ pc # "exited" /\ ~Interrupted /\ interrupt' = now
  /\ UNCHANGED <<mainVars, now, workerVars>>

\* What is not left for another second: any step of the command, and these of a thread.
CommandDue ==
  \/ pc = "next" \/ InterruptSeen \/ DeadlineSeen \/ GraceEnds
  \/ pc = "watch" /\ (Arrived \/ Ended)

WorkerDue(p) ==
  \/ worker[p] = "asked"
  \/ worker[p] \in {"runs", "helper"} /\ Stopped(p)
  \/ worker[p] \in {"stopping", "http"} /\ now >= until[p]

Tick ==
  /\ pc # "exited" /\ ~CommandDue /\ \A p \in Probe : ~WorkerDue(p)
  /\ now' = now + 1
  /\ UNCHANGED <<mainVars, interrupt, workerVars>>

Exited == pc = "exited" /\ UNCHANGED vars

Next == Command \/ (\E p \in Probe : Worker(p)) \/ Interrupt \/ Tick \/ Exited

Spec == Init /\ [][Next]_vars

-----------------------------------------------------------------------------
(* Properties *)

\* What is shown as a provider's usage is never what a probe had when it was cut short:
\* not for its own deadline, not for another one's, and not for an interrupt that its
\* thread saw before the command did ("Preserve the CLI interrupt exit", batch_probe.rs).
AnswersAreWhole == \A p \in Probe : told[p] = "answer" => sent[p] = "whole"

\* "Give helper runners time to terminate and reap their trees before process::exit
\* bypasses Rust destructors": no helper outlives the command untold.
NoOrphans == pc = "exited" => \A p \in Probe : helper[p] # "runs"

\* A provider that was given up starts no more helpers beside those of the next one,
\* though its thread goes on as long as its requests.
GivenUpStartsNothing ==
  [][\A p \in Probe : told[p] = "timed out" /\ helper'[p] = "runs" => helper[p] = "runs"]_vars

\* "Each provider has its own timeout" (docs/cli.md): none takes longer than that and the
\* time of grace, whatever its plugin waits for, so that the next one has its turn.
TurnBounded ==
  pc \in {"watch", "grace"} => now <= bornAt[at] + Deadline + Grace

\* An interrupted command exits: after the time of grace, or two of them if it was
\* giving a provider up.
InterruptEnds == pc # "exited" /\ Interrupted => now <= interrupt + 2 * Grace
=============================================================================
