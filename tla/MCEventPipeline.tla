-------------------------- MODULE MCEventPipeline --------------------------
(* Three connections, two of them equal but hashed differently and one that   *)
(* differs only in a field that is not hashed, and a file access.            *)
EXTENDS EventPipeline

CONSTANTS p1, p2

Conn(src, dir) == [kind |-> "Network", src_ip |-> src, dst_ip |-> 9, dst_port |-> 80,
                   direction |-> dir]

SampleEvents == {Conn(1, "egress"), Conn(2, "egress"), Conn(1, "ingress"),
                 [kind |-> "Fs", path |-> "/etc/a", inode |-> 7, r_w |-> 0]}
=============================================================================
