----------------------------- MODULE MCHookRace -----------------------------
(* A hook call against the loader, on the sample policy. *)
EXTENDS HookRace, SamplePolicy

CONSTANTS c1, c2, c3

ThreeCgroups == {c1, c2, c3}

Symmetry == Permutations(ThreeCgroups)
=============================================================================
