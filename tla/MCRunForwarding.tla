--------------------------- MODULE MCRunForwarding ---------------------------
(***************************************************************************)
(* Instances of RunForwarding for TLC: the values of its constants.         *)
(***************************************************************************)
EXTENDS RunForwarding, TLC

CONSTANTS k1, k2, r1, r2, r1x, t1, t2, c1, c2

(* Two events, three records: r1 finishes at 0 and expires by retention,    *)
(* r1x is another record under r1's identity, r2 names its own expiry.      *)
MCKey       == {k1, k2}
MCEventRank == k1 :> 1 @@ k2 :> 2
ThreeRecord     == {r1, r2, r1x}
ThreeKeyOf      == r1 :> k1 @@ r2 :> k2 @@ r1x :> k1
ThreeFinishedAt == r1 :> 0 @@ r2 :> 1 @@ r1x :> 1
ThreeExpiresAt  == r1 :> NoExpiry @@ r2 :> 2 @@ r1x :> NoExpiry
ThreeSize       == r1 :> 1 @@ r2 :> 2 @@ r1x :> 1
ThreePermits    == c1 :> {r1} @@ c2 :> {r1x, r2}

(* Two events, one record each: r1 expires while the clock of the instance  *)
(* runs, r2 does not.                                                       *)
TwoRecord     == {r1, r2}
TwoKeyOf      == r1 :> k1 @@ r2 :> k2
TwoFinishedAt == r1 :> 0 @@ r2 :> 1
TwoExpiresAt  == r1 :> 1 @@ r2 :> NoExpiry
TwoSize       == r1 :> 1 @@ r2 :> 2
TwoPermits    == c1 :> {r1} @@ c2 :> {r1, r2}

(* One event, two different records under its identity. *)
OneKey          == {k1}
OneEventRank    == k1 :> 1
AliasRecord     == {r1, r1x}
AliasKeyOf      == r1 :> k1 @@ r1x :> k1
AliasFinishedAt == r1 :> 0 @@ r1x :> 1
AliasExpiresAt  == r1 :> NoExpiry @@ r1x :> NoExpiry
AliasSize       == r1 :> 1 @@ r1x :> 1
AliasPermits    == c1 :> {r1} @@ c2 :> {r1x}

Roomy(days)   == [retention |-> days, maxRecords |-> 2, maxBytes |-> 4]
Tight(days)   == [retention |-> days, maxRecords |-> 1, maxBytes |-> 4]
Narrow(days)  == [retention |-> days, maxRecords |-> 2, maxBytes |-> 2]

To(t, policy) == [forward |-> t, policy |-> policy]

OutboxConfig  == {To(t1, Roomy(1)), To(t1, Narrow(2))}
RebindConfig  == {To(NoTarget, Roomy(2)), To(t1, Roomy(2)), To(t2, Tight(2))}
ShortConfig   == {To(t1, Roomy(1))}

OneTarget    == {t1}
LongPeerPolicy == t1 :> Roomy(9)
TightPeerPolicy == t1 :> Tight(3)
TwoTarget    == {t1, t2}
TwoPeerPolicy == t1 :> Roomy(3) @@ t2 :> Roomy(1)
NoSkew       == [t \in Target |-> 0]
FastPeer     == [t \in Target |-> 1]
=============================================================================
