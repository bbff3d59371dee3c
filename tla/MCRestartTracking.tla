------------------------- MODULE MCRestartTracking -------------------------
(* Restart tracking on a policy of one path rule, one rule without encoding   *)
(* and one class rule whose group has a sibling to expand.                   *)
EXTENDS RestartTracking, SamplePolicy

TrackedOrder ==
    {<<Allow("path", "/app/a", "FileRead"), [tier |-> "other", verdict |-> "Allow"],
       Allow("class", "ProcGlobal", "FileRead")>>}
=============================================================================
