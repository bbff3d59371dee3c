---------------------------- MODULE MCFsTracking ----------------------------
(* An overlay file and the file behind it, two files of one pattern, a second *)
(* path of the first of them, a sensitive file, and a pipe.                  *)
EXTENDS FsTracking, TLC

CONSTANTS t1, t2, a1, a2

File(ino, kind, pattern, behind) ==
    [ino |-> ino, kind |-> kind, pattern |-> pattern, behind |-> behind,
     sensitive |-> pattern = "ProcPidEnviron"]

SampleFiles ==
    ("/data" :> File(1, "regular", "Regular", "/layer")) @@
    ("/layer" :> File(2, "regular", "Regular", NONE)) @@
    ("/tmp/a" :> File(3, "regular", "TmpOther", NONE)) @@
    ("/tmp/b" :> File(4, "regular", "TmpOther", NONE)) @@
    ("/hard" :> File(3, "regular", "Regular", NONE)) @@
    ("/proc/1/environ" :> File(6, "regular", "ProcPidEnviron", NONE)) @@
    ("pipe" :> File(5, "pipe", "Regular", NONE))

Symmetry == Permutations(Tasks) \cup Permutations(Addrs)
=============================================================================
