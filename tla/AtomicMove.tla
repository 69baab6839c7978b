----------------------------- MODULE AtomicMove -----------------------------
(***************************************************************************)
(* What relocating a managed daemon promises (docs/cli.md): the profile the *)
(* operator chose (which executable, which T3 mode, login startup or not)   *)
(* changes at one instant, in nothing but the executable, or not at all;    *)
(* while a relocation is pending no other command changes it.               *)
(***************************************************************************)
CONSTANT Profile            \* the profiles an operator can choose

VARIABLES profile, moving

(* q is p, but for the executable. *)
Moved(p, q) == q.t3 = p.t3 /\ q.autostart = p.autostart

MoveInit == profile \in Profile /\ moving = FALSE

Configure == ~moving /\ profile' \in Profile /\ moving' = FALSE
Begin     == ~moving /\ moving' = TRUE /\ profile' = profile
Commit    == moving /\ moving' = FALSE /\ profile' \in Profile /\ Moved(profile, profile')
RollBack  == moving /\ moving' = FALSE /\ profile' = profile

Move == MoveInit /\ [][Configure \/ Begin \/ Commit \/ RollBack]_<<profile, moving>>
=============================================================================
