---------------------------- MODULE MCCollection ----------------------------
(***************************************************************************)
(* Small instances of Collection: two providers, visited in order.          *)
(***************************************************************************)
EXTENDS Collection, TLC

CONSTANTS p1, p2, c1, c2

OneTarget    == <<p1>>
TwoClients   == {c1, c2}
Alike        == Permutations(TwoClients)
TwoProviders == {p1, p2}
InOrder      == <<p1, p2>>
=============================================================================
