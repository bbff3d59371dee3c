------------------------------ MODULE MCNetwork ------------------------------
(* Packets for the packet path: two UDP flows that differ only in which end   *)
(* has which port, one of them to a blocked destination, its answer, a SYN   *)
(* to a blocked destination, and a packet the program does not look at.      *)
EXTENDS NetworkMonitor, TLC

CONSTANTS p1, p2

Packet(proto, syn, dir, src, sport, dst, dport) ==
    [proto |-> proto, syn |-> syn, direction |-> dir, src_ip |-> src, src_port |-> sport,
     dst_ip |-> dst, dst_port |-> dport, conn |-> 0]

Query == Packet("udp", FALSE, "egress", 2, 9, 1, 5)
Answer == Packet("udp", FALSE, "ingress", 1, 5, 2, 9)
Crossed == Packet("udp", FALSE, "egress", 2, 5, 1, 9)
Syn == Packet("tcp", TRUE, "egress", 2, 9, 1, 8)
Ack == Packet("tcp", FALSE, "egress", 2, 9, 1, 8)

SampleBlocked == {<<1, 5>>, <<1, 8>>}

MixedPackets == {Query, Crossed, Syn}
UdpPackets == {Query, Answer, Ack}

Symmetry == Permutations(Cpus)
=============================================================================
