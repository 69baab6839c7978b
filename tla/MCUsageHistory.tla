---------------------------- MODULE MCUsageHistory ----------------------------
(***************************************************************************)
(* Instances of UsageHistory for TLC: two transcripts with requests of two  *)
(* days, the rows they give and one row of another source.                  *)
(***************************************************************************)
EXTENDS UsageHistory, TLC

CONSTANTS a, b, e1, e2, e3, v1, bill, poller, cli

MCEventsOf == a :> {e1, e3} @@ b :> {e2}
MCDayOf    == e1 :> 1 @@ e2 :> 1 @@ e3 :> 2
MCKey      == {<<1, "local">>, <<2, "local">>, <<1, bill>>}
MCRank     == <<1, bill>> :> 1 @@ <<1, "local">> :> 2 @@ <<2, "local">> :> 3
MCLocalKey == 1 :> <<1, "local">> @@ 2 :> <<2, "local">>
BillKey    == {<<1, bill>>}
KeysOfBoth == "local" :> {} @@ poller :> BillKey
DaemonOnly == "local" :> "daemon" @@ poller :> "daemon"
=============================================================================
