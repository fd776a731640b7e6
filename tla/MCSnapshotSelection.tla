------------------------ MODULE MCSnapshotSelection ------------------------
(* Two claims of two clusters; words above 10 are names, 40 is a name that *)
(* sorts after those of times.                                             *)
EXTENDS SnapshotSelection, TLC

MCClaims   == "data0" :> <<20>> @@ "data1" :> <<21>>
MCClusters == <<{"data0"}, {"data1"}>>
MCPlan     == <<30>>

\* "daily", which the plan is named after, and "weekly"; "daily" and "daily-full".
TwoSchedules    == <<30>> :> {"data0", "data1"} @@ <<31>> :> {"data0"}
NestedSchedules == <<30>> :> {"data0", "data1"} @@ <<30, 40>> :> {"data0", "data1"}
=============================================================================
