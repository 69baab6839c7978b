---------------------------- MODULE MCProbeRuntime ----------------------------
(***************************************************************************)
(* A probe's run time from both sides: the command that asks its providers  *)
(* in turn (BatchProbe) and, inside one of its threads, the runner of a     *)
(* helper process (HelperRun).  One of them is looked at in a behaviour:    *)
(* the command, which counts in seconds and takes a helper as one that ends *)
(* or does not, or the runner, which counts its naps and sees each chunk of *)
(* the helper's pipes, with a helper that does what it likes or with one    *)
(* that is well-behaved and talkative.                                      *)
(***************************************************************************)
EXTENDS BatchProbe

CONSTANTS Timeout, Limit, Capacity, Input, Words, ManyWords

VARIABLES
  side,   \* which is looked at: "command", "helper" or "good"
  runnerPc, elapsed, runnerUntil, result, remaining, open, eof, kept,
  pipe, stdin, tree, killed, wrote, took, busy, cancelledAt

helperVars == <<runnerPc, elapsed, runnerUntil, result, remaining, open, eof, kept,
                pipe, stdin, tree, killed, wrote, took, busy, cancelledAt>>
allVars == <<side, vars, helperVars>>

H == INSTANCE HelperRun WITH pc <- runnerPc, until <- runnerUntil
G == INSTANCE HelperRun WITH pc <- runnerPc, until <- runnerUntil, Words <- ManyWords

ASSUME RunnerAssumption == H!HelperAssumption /\ G!HelperAssumption

RuntimeInit ==
  /\ side \in {"command", "helper", "good"}
  /\ Init /\ H!Init /\ (side # "helper" => H!Ready)

CommandSide == side = "command" /\ Next /\ UNCHANGED <<side, helperVars>>
HelperSide  == side = "helper" /\ H!Next /\ UNCHANGED <<side, vars>>
GoodHelper  == side = "good" /\ G!Does("helper") /\ UNCHANGED <<side, vars>>
GoodRunner  == side = "good" /\ G!Runner /\ UNCHANGED <<side, vars>>
RuntimeNext == CommandSide \/ HelperSide \/ GoodHelper \/ GoodRunner

\* Threads are scheduled, and a runner that sleeps does not do so within one instant for
\* ever; the good helper does what it has to.
RuntimeSpec ==
  /\ RuntimeInit /\ [][RuntimeNext]_allVars
  /\ WF_allVars(side = "helper" /\ H!Runner /\ UNCHANGED <<side, vars>>)
  /\ SF_allVars(side = "helper" /\ H!Runner /\ H!Advances /\ UNCHANGED <<side, vars>>)
  /\ WF_allVars(GoodRunner) /\ WF_allVars(GoodHelper)

\* run and run_with_input return in the time given and twice CLEANUP, sooner once
\* cancelled; no process of the helper's group then runs untold, and what is returned as
\* its output is all it wrote, up to the limit (process.rs).
RunsAreSettled ==
  side # "command" => H!NoOrphan /\ H!OutputWhole /\ H!Bounded /\ H!CancelledPromptly

\* No run waits for ever, whatever the helper and what it started hold or refuse; and one
\* that reads and writes as much as it likes, in any order, is not blocked by its runner.
RunsEnd ==
  /\ side = "helper" => H!RunEnds
  /\ side = "good" => G!GoodHelperSucceeds
=============================================================================
