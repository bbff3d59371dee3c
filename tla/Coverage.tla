------------------------------- MODULE Coverage -------------------------------
(***************************************************************************)
(* What enforcement promises across container restarts, with no loader, no *)
(* maps and no rules: the set of cgroups the whole policy is in force for. *)
(* A cgroup is covered at one instant, never by halves; coverage moves to  *)
(* a new cgroup before it is taken from the old one, so that, once the     *)
(* first load has succeeded, some cgroup is covered at every instant.      *)
(***************************************************************************)
CONSTANT CgroupIds

VARIABLE covered

Init == covered = {}

Cover(c) == covered' = covered \cup {c}

Release(c) ==
    /\ c \in covered
    /\ covered # {c}
    /\ covered' = covered \ {c}

Next == \E c \in CgroupIds : Cover(c) \/ Release(c)

Spec == Init /\ [][Next]_covered
=============================================================================
