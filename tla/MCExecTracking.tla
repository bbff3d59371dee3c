--------------------------- MODULE MCExecTracking ---------------------------
(* Two processes.  The file names: two absolute ones; a relative one that may *)
(* mean either program; a long one that reads as the first when it is cut.   *)
(* The command lines: with two secrets behind one flag, with flags that are  *)
(* missed, with an argument that is too long.  Of two calls something cannot *)
(* be read.                                                                  *)
EXTENDS ExecTracking, TLC

CONSTANTS p1, p2

Names == ("/bin/a" :> {"/bin/a"}) @@ ("/bin/b" :> {"/bin/b"})
         @@ ("./run" :> {"/bin/a", "/bin/b"}) @@ ("/bin/a-long" :> {"/bin/b"})

Encrypt == <<"x", "--encrypt", "secret-of-user", "--key", "y">>

Exec(name, argv) == [at |-> FALSE, filename |-> name, argv |-> argv,
                     nameless |-> FALSE, blank |-> {}, last |-> MAX_ARGS]

SampleCalls ==
    {Exec("/bin/a", <<"x">>), Exec("/bin/b", <<"x">>), Exec("/bin/a-long", <<"x">>),
     [Exec("/bin/a", <<"x">>) EXCEPT !.nameless = TRUE],
     Exec("./run", <<"an-argument-too-long">>),
     Exec("/bin/a", Encrypt),
     [Exec("/bin/a", Encrypt) EXCEPT !.blank = {2}, !.last = 4],
     Exec("/bin/a", <<"x", "-p", "y", "--password", "z">>),
     [Exec("./run", <<"x">>) EXCEPT !.at = TRUE, !.last = 2]}

Symmetry == Permutations(Procs)
=============================================================================
