------------------------------ MODULE HelperRun ------------------------------
(***************************************************************************)
(* process::run and run_with_input (crates/ai-usage-core/src/process.rs):   *)
(* a thread that starts a helper in a process group of its own, feeds it    *)
(* and drains its two pipes without ever blocking on one of them, until it  *)
(* exits, the time is over or the probe is cancelled.  The helper may start *)
(* others, which hold its pipes open, and which may leave its group.        *)
(* Pipes carry chunks; the clock is the runner's and runs while it sleeps.  *)
(***************************************************************************)
EXTENDS Integers

CONSTANTS
  Timeout,   \* the run's timeout, in the units in which the runner sleeps
  Cleanup,   \* CLEANUP
  Limit,     \* chunks of a stream that are kept
  Capacity,  \* chunks a pipe holds
  Input,     \* chunks the runner feeds
  Words      \* bound of the model: chunks written to a stream

HelperAssumption ==
  /\ Timeout \in Nat \ {0} /\ Cleanup \in Nat \ {0}
  /\ Limit \in Nat /\ Capacity \in Nat \ {0} /\ Input \in Nat /\ Words \in Nat

Stream  == {"out", "err"}
Process == {"helper", "child", "detached"}
Never   == -1

VARIABLES
  pc,          \* where the runner is
  elapsed,     \* its clock since the helper was started
  until,       \* the end of the phase of cleaning up
  result,      \* what it will return
  remaining,   \* input not written yet
  open,        \* its end of the helper's stdin
  eof, kept,   \* of each stream
  pipe,        \* chunks in each stream's pipe
  stdin,       \* chunks in the helper's stdin
  tree,        \* which processes run
  killed,      \* the group was signalled
  wrote,       \* chunks written to each stream
  took,        \* chunks the helper has read
  busy,        \* the call a process is blocked in, if any
  cancelledAt  \* the clock when the token was cancelled, or Never

runnerVars == <<pc, elapsed, until, result, remaining, open, eof, kept>>
treeVars   == <<tree, wrote, took, busy>>
vars == <<pc, elapsed, until, result, remaining, open, eof, kept, pipe, stdin,
          tree, killed, wrote, took, busy, cancelledAt>>

Phase == {"start", "head", "out", "err", "feed", "wait", "nap", "kill", "reap", "late", "done"}
Call  == Stream \cup {"in", "none"}

TypeOK ==
  /\ pc \in Phase /\ elapsed \in Nat /\ until \in Nat
  /\ result \in {"none", "ok", "interrupted", "timed out", "failed"}
  /\ remaining \in 0..Input /\ open \in BOOLEAN
  /\ eof \in [Stream -> BOOLEAN] /\ kept \in [Stream -> 0..Limit]
  /\ pipe \in [Stream -> 0..Capacity] /\ stdin \in 0..Capacity
  /\ tree \in [Process -> {"none", "runs", "gone"}] /\ killed \in BOOLEAN
  /\ wrote \in [Stream -> 0..Words] /\ took \in 0..Input
  /\ busy \in [Process -> Call]
  /\ cancelledAt \in Nat \cup {Never}

Init ==
  /\ pc = "start" /\ elapsed = 0 /\ until = 0 /\ result = "none"
  /\ remaining = Input /\ open = TRUE
  /\ eof = [s \in Stream |-> FALSE] /\ kept = [s \in Stream |-> 0]
  /\ pipe = [s \in Stream |-> 0] /\ stdin = 0
  /\ tree = [p \in Process |-> "none"] /\ killed = FALSE
  /\ wrote = [s \in Stream |-> 0] /\ took = 0
  /\ busy = [p \in Process |-> "none"]
  /\ cancelledAt \in {Never, 0}

Cancelled == cancelledAt # Never
Runs(p)   == tree[p] = "runs"
Held      == \E p \in Process : Runs(p)
Lower(a, b) == IF a < b THEN a ELSE b

-----------------------------------------------------------------------------
(* The runner *)

\* The token is asked before anything is started; starting may fail.
Start ==
  /\ pc = "start"
  /\ \/ /\ ~Cancelled
        /\ pc' = "head" /\ tree' = [tree EXCEPT !["helper"] = "runs"] /\ UNCHANGED result
     \/ /\ pc' = "done" /\ result' = IF Cancelled THEN "interrupted" ELSE "failed"
        /\ UNCHANGED tree
  /\ UNCHANGED <<elapsed, until, remaining, open, eof, kept, pipe, stdin, killed,
                 wrote, took, busy, cancelledAt>>

Head ==
  /\ pc = "head"
  /\ IF Cancelled THEN pc' = "kill" /\ result' = "interrupted"
     ELSE IF elapsed >= Timeout THEN pc' = "kill" /\ result' = "timed out"
     ELSE pc' = "out" /\ UNCHANGED result
  /\ UNCHANGED <<elapsed, until, remaining, open, eof, kept, pipe, stdin, killed,
                 treeVars, cancelledAt>>

\* Pipe::drain: what exceeds the limit is read and dropped; the end of a stream is
\* seen when no process holds its other end.
Drained(S) ==
  /\ pipe' = [s \in Stream |-> IF s \in S THEN 0 ELSE pipe[s]]
  /\ eof'  = [s \in Stream |-> eof[s] \/ (s \in S /\ ~Held)]
  /\ kept' = [s \in Stream |-> IF s \in S THEN Lower(Limit, kept[s] + pipe[s]) ELSE kept[s]]

Drain(s) ==
  /\ pc = s
  /\ Drained({s})
  /\ pc' = IF s = "out" THEN "err" ELSE "feed"
  /\ UNCHANGED <<elapsed, until, result, remaining, open, stdin, killed, treeVars, cancelledAt>>

\* (mutant: the whole input is written before anything else goes on)
FeedBlocking ==
  /\ pc = "feed"
  /\ IF ~open THEN pc' = "wait" /\ UNCHANGED <<remaining, stdin, open, result>>
     ELSE /\ remaining > 0 => stdin < Capacity
          /\ LET some == Lower(remaining, Capacity - stdin)
             IN remaining' = remaining - some /\ stdin' = stdin + some
          /\ open' = (remaining' > 0)
          /\ pc' = IF open' THEN "feed" ELSE "wait"
          /\ UNCHANGED result
  /\ UNCHANGED <<elapsed, until, eof, kept, pipe, killed, treeVars, cancelledAt>>

\* What fits; the pipe is closed after the last of it.  Nobody left to read is an error.
Feed ==
  /\ pc = "feed"
  /\ IF open /\ remaining > 0 /\ ~Held
     THEN pc' = "kill" /\ result' = "failed" /\ UNCHANGED <<remaining, stdin, open>>
     ELSE LET some == IF open THEN Lower(remaining, Capacity - stdin) ELSE 0
          IN  /\ remaining' = remaining - some /\ stdin' = stdin + some
              /\ open' = (open /\ remaining' > 0)
              /\ pc' = "wait" /\ UNCHANGED result
  /\ UNCHANGED <<elapsed, until, eof, kept, pipe, killed, treeVars, cancelledAt>>

Wait ==
  /\ pc = "wait"
  /\ IF tree["helper"] = "gone" THEN pc' = "kill" /\ result' = "ok"
     ELSE pc' = "nap" /\ UNCHANGED result
  /\ UNCHANGED <<elapsed, until, remaining, open, eof, kept, pipe, stdin, killed,
                 treeVars, cancelledAt>>

Sleeps == elapsed' \in {elapsed, elapsed + 1}

Nap ==
  /\ pc = "nap" /\ Sleeps /\ pc' = "head"
  /\ UNCHANGED <<until, result, remaining, open, eof, kept, pipe, stdin, killed,
                 treeVars, cancelledAt>>

\* OwnedChild::stop, also when the run fails or returns (drop).
Kill ==
  /\ pc = "kill"
  /\ killed' = TRUE /\ until' = elapsed + Cleanup /\ pc' = "reap"
  /\ UNCHANGED <<elapsed, result, remaining, open, eof, kept, pipe, stdin, treeVars, cancelledAt>>

\* The helper that exited is reaped already; another one is given CLEANUP.
Reap ==
  /\ pc = "reap"
  /\ IF tree["helper"] = "gone" \/ elapsed >= until
     THEN IF result = "ok" /\ remaining = 0
          THEN pc' = "late" /\ until' = elapsed + Cleanup /\ UNCHANGED <<result, elapsed>>
          ELSE /\ pc' = "done" /\ result' = (IF result = "ok" THEN "failed" ELSE result)
               /\ UNCHANGED <<elapsed, until>>
     ELSE Sleeps /\ UNCHANGED <<pc, until, result>>
  /\ UNCHANGED <<remaining, open, eof, kept, pipe, stdin, killed, treeVars, cancelledAt>>

\* (mutant: what the helper wrote last is left behind)
LateUnread ==
  /\ pc = "late" /\ pc' = "done"
  /\ UNCHANGED <<elapsed, until, result, remaining, open, eof, kept, pipe, stdin,
                 killed, treeVars, cancelledAt>>

\* What is left in the pipes, until their ends or for CLEANUP.
Late ==
  /\ pc = "late"
  /\ IF \A s \in Stream : eof[s]
     THEN pc' = "done" /\ UNCHANGED <<elapsed, eof, kept, pipe, result>>
     ELSE IF elapsed >= until
     THEN pc' = "done" /\ result' = "timed out" /\ UNCHANGED <<elapsed, eof, kept, pipe>>
     ELSE /\ Drained(Stream)
          /\ IF \A s \in Stream : eof'[s] THEN UNCHANGED elapsed ELSE Sleeps
          /\ UNCHANGED <<pc, result>>
  /\ UNCHANGED <<until, remaining, open, stdin, killed, treeVars, cancelledAt>>

Runner ==
  \/ Start \/ Head \/ Feed \/ Wait \/ Nap \/ Kill \/ Reap \/ Late
  \/ \E s \in Stream : Drain(s)

-----------------------------------------------------------------------------
(* The helper and what it starts: external programs *)

\* A process enters a call that may block.
Enter(p, call) ==
  /\ Runs(p) /\ busy[p] = "none"
  /\ IF call = "in" THEN p = "helper" /\ took < Input ELSE wrote[call] < Words
  /\ busy' = [busy EXCEPT ![p] = call]
  /\ UNCHANGED <<runnerVars, pipe, stdin, tree, killed, wrote, took, cancelledAt>>

Write(p, s) ==
  /\ Runs(p) /\ busy[p] = s
  /\ IF wrote[s] < Words
     THEN /\ pipe[s] < Capacity
          /\ pipe' = [pipe EXCEPT ![s] = @ + 1] /\ wrote' = [wrote EXCEPT ![s] = @ + 1]
     ELSE UNCHANGED <<pipe, wrote>>
  /\ busy' = [busy EXCEPT ![p] = "none"]
  /\ UNCHANGED <<runnerVars, stdin, tree, killed, took, cancelledAt>>

\* A chunk, or the end of the input.
Read ==
  /\ Runs("helper") /\ busy["helper"] = "in"
  /\ stdin > 0 \/ ~open
  /\ IF stdin > 0 THEN stdin' = stdin - 1 /\ took' = took + 1
     ELSE UNCHANGED <<stdin, took>>
  /\ busy' = [busy EXCEPT !["helper"] = "none"]
  /\ UNCHANGED <<runnerVars, pipe, tree, killed, wrote, cancelledAt>>

Fork(p) ==
  /\ Runs("helper") /\ busy["helper"] = "none" /\ tree[p] = "none"
  /\ tree' = [tree EXCEPT ![p] = "runs"]
  /\ UNCHANGED <<runnerVars, pipe, stdin, killed, wrote, took, busy, cancelledAt>>

\* By itself, or because its group was signalled, in whatever call it is.
Exit(p) ==
  /\ Runs(p)
  /\ busy[p] = "none" \/ (killed /\ p # "detached")
  /\ tree' = [tree EXCEPT ![p] = "gone"] /\ busy' = [busy EXCEPT ![p] = "none"]
  /\ UNCHANGED <<runnerVars, pipe, stdin, killed, wrote, took, cancelledAt>>

Cancel ==
  /\ ~Cancelled /\ pc # "done"
  /\ cancelledAt' = elapsed
  /\ UNCHANGED <<runnerVars, pipe, stdin, treeVars, killed>>

Helper(p) ==
  \/ \E call \in Stream \cup {"in"} : Enter(p, call)
  \/ \E s \in Stream : Write(p, s)
  \/ p = "helper" /\ Read
  \/ p # "helper" /\ Fork(p)
  \/ Exit(p)

Next == Runner \/ Cancel \/ \E p \in Process : Helper(p)

Spec == Init /\ [][Next]_vars

\* Threads are scheduled and clocks go on: a runner that sleeps again and again does not
\* do so within one instant for ever.
Advances == elapsed' > elapsed
FairSpec == Spec /\ WF_vars(Runner) /\ SF_vars(Runner /\ Advances)

\* A helper that writes all it has, reads all it is given, in the order it likes, and
\* exits; in time and wanted.
Does(p) ==
  \/ \E call \in Stream \cup {"in"} : Enter(p, call)
  \/ \E s \in Stream : Write(p, s)
  \/ Read
  \/ took = Input /\ (\A s \in Stream : wrote[s] = Words) /\ Exit(p)

Ready == Init /\ ~Cancelled
Prompt == [](elapsed = 0)
-----------------------------------------------------------------------------
(* Properties *)

\* "The child and its ordinary descendants are terminated on cancellation, timeout,
\* errors, and parent exit" (process.rs): when a run has returned, no process of the
\* helper's group runs that was not told to end.
NoOrphan ==
  pc = "done" /\ ~killed => tree["helper"] # "runs" /\ tree["child"] # "runs"

\* What is returned as the output of a helper is all that was written to each stream, up
\* to the limit: also what came after the last look at the pipe, from whichever process.
OutputWhole ==
  pc = "done" /\ result = "ok" => \A s \in Stream : kept[s] = Lower(Limit, wrote[s])

\* "Polling and pipe draining have bounded cleanup intervals" (docs/helper-processes.md),
\* whatever the helper or what it left behind does: it is given its time, and CLEANUP to
\* end and again to let go of its pipes.
Bounded == elapsed <= Timeout + 2 * Cleanup

\* The same for a run that is cancelled, after the sleep it is in: the command line waits
\* two seconds for it (batch_probe.rs) and then goes on or exits.
CancelledPromptly ==
  Cancelled /\ pc # "done" => elapsed <= cancelledAt + 1 + 2 * Cleanup

\* "Excess output is drained so a full pipe cannot deadlock the helper": one that writes
\* and reads as much as it likes, in any order, ends before any time is over.
GoodHelperSucceeds ==
  Prompt => <>(pc = "done" /\ (result = "ok" \/ tree["helper"] = "none"))

\* Every run comes to its end, though a helper never reads, never exits or leaves its
\* pipes to a process that nobody ends.
RunEnds == <>(pc = "done")
=============================================================================
