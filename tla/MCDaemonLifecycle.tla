------------------------- MODULE MCDaemonLifecycle -------------------------
(***************************************************************************)
(* Small instances of DaemonLifecycle: two retained versions of one package *)
(* (as under a Homebrew Cellar), which it may remove and bring back.         *)
(***************************************************************************)
EXTENDS DaemonLifecycle, TLC

CONSTANTS b1, b2, pkg, v1, v2

TwoKegs  == {b1, b2}
OneOwner == [b \in TwoKegs |-> pkg]

TwoBuilds == {v1, v2}
Cellar   == (b1 :> {v1, Gone}) @@ (b2 :> {v2, Gone})
Numbered == (v1 :> 1) @@ (v2 :> 2)

(* A daemon enabled before: running or paused, starting at login or not.    *)
(* What it may do from there but reconfigure.                               *)
Installed ==
  /\ saved = [t3 |-> "auto", install |-> b1] /\ unit = b1
  /\ enabled \in BOOLEAN /\ wish = {enabled}
  /\ content = (b1 :> v1) @@ (b2 :> v2)
  /\ active \in {Stopped, [unit |-> b1, build |-> v1, install |-> b1, t3 |-> "auto"]}
  /\ journal = NoJournal /\ cmd = Idle /\ last = Idle /\ interrupts = 0 /\ whole = TRUE

Moves ==
  \/ Effects \/ World
  \/ \E cli \in Version : Recover(cli) \/ \E b \in Binary : Relocate(b, cli)

MoveSpec == Installed /\ [][Moves]_vars /\ RecoverFairness
============================================================================
