--------------------------- MODULE MCPolicyLoader ---------------------------
(* The loader on the sample policy. *)
EXTENDS PolicyLoader, SamplePolicy

CONSTANTS c1, c2, c3

ThreeCgroups == {c1, c2, c3}
TwoCgroups == {c1, c2}
=============================================================================
