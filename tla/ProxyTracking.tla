---------------------------- MODULE ProxyTracking ----------------------------
(***************************************************************************)
(* The docker-proxy probes of network.rs, and how they meet the packet     *)
(* path.  docker-proxy accepts a client's connection and dials the         *)
(* container for it; the container then sees a SYN whose source is the     *)
(* gateway.  The probe on inet_accept stores the client under the thread   *)
(* id; the probe on the return of tcp_v4_connect moves it under the        *)
(* container's address and port, or completes the packet parked there.     *)
(* The SYN leaves before tcp_v4_connect returns, so the packet and the     *)
(* probe run in either order.                                              *)
(*                                                                         *)
(* docker-proxy is a Go program: the goroutine of a client may accept on   *)
(* one thread and dial on another.                                         *)
(***************************************************************************)
EXTENDS NetworkMonitor

CONSTANTS
    Clients,       \* clients, each named by its (nonzero) port
    ClientIp,      \* the clients' address
    HostIp,        \* the address of the host's end of the clients' connections,
                   \* a gateway's when the client dials one
    GatewayIp,     \* the address docker-proxy dials from
    ContainerIp, ContainerPort

ASSUME ProxyAssumption ==
    /\ Clients \subseteq Nat \ {0}
    /\ {HostIp, GatewayIp, ContainerIp, ContainerPort} \subseteq Nat
    /\ GatewayIp \in ProxyIps

VARIABLES
    client,          \* client -> how far its connection is
    PROXY_TEMP_MAP,  \* thread -> client accepted on it
    dialing,         \* history: thread -> client it dialed for last, 0 before
    disturbed        \* history: clients that were not served alone and in order

ghosts == <<dialing, disturbed>>
proxyVars == <<netVars, client, PROXY_TEMP_MAP, ghosts>>

\* The socket docker-proxy accepts for a client.
AcceptedSock(c) == [skc_rcv_saddr |-> HostIp, skc_daddr |-> ClientIp, skc_dport |-> c]

\* The packet that opens docker-proxy's connection to the container.
SynOf(c) ==
    [proto |-> "tcp", syn |-> TRUE, direction |-> "ingress", src_ip |-> GatewayIp,
     src_port |-> 100 + c, dst_ip |-> ContainerIp, dst_port |-> ContainerPort, conn |-> c]

ProxyInit ==
    /\ NetInit
    /\ client = [c \in Clients |-> "new"]
    /\ PROXY_TEMP_MAP = NoEntry
    /\ dialing = [t \in Threads |-> 0] /\ disturbed = {}

-----------------------------------------------------------------------------
\* docker_proxy_accept.
track_proxy_accept(c, t) ==
    /\ client[c] = "new"
    /\ Free(t)
    /\ client' = [client EXCEPT ![c] = "accepted"]
    /\ LET sk == AcceptedSock(c)
       IN  PROXY_TEMP_MAP' \in
               LruPuts(PROXY_TEMP_MAP, t,
                       [real_ip |-> sk.skc_rcv_saddr, real_port |-> sk.skc_dport], ProxyMapSize)
    /\ UNCHANGED <<clock, tables, frame, reports, opened, dialing>>

\* The proxy dials: the SYN is on its way, and the probe is due on thread t.
Dial(c, t) ==
    /\ client[c] = "accepted"
    /\ Free(t)
    /\ client' = [client EXCEPT ![c] = "dialed"]
    /\ frame' = [frame EXCEPT ![t] = At("conn_parked", SynOf(c), 1)]
    /\ dialing' = [dialing EXCEPT ![t] = c]
    /\ UNCHANGED <<clock, tables, reports, opened, PROXY_TEMP_MAP>>

SynArrives(c, cpu) ==
    /\ client[c] = "dialed"
    /\ client' = [client EXCEPT ![c] = "arrived"]
    /\ Arrive(cpu, SynOf(c))
    /\ UNCHANGED <<PROXY_TEMP_MAP, dialing>>

-----------------------------------------------------------------------------
(* docker_proxy_connect: the key is the destination of the dialed socket. *)

ConnLookupParked(t) ==
    /\ frame[t].pc = "conn_parked"
    /\ LET key == ConnectionKey(frame[t].pkt)
       IN  frame' = [frame EXCEPT ![t] =
              IF key \in DOMAIN INCOMPLETE_PACKETS
              THEN [@ EXCEPT !.pc = "conn_source", !.pkt = INCOMPLETE_PACKETS[key]]
              ELSE [@ EXCEPT !.pc = "conn_learn"]]
    /\ UNCHANGED <<clock, tables, reports, opened, client, PROXY_TEMP_MAP>>

\* Mutant: the parked packet is reported with the gateway as its source.
ConnLookupSourceKept(t) ==
    /\ frame[t].pc = "conn_source"
    /\ Goto(t, IF t \in DOMAIN PROXY_TEMP_MAP THEN "conn_unpark" ELSE "conn_learn")
    /\ UNCHANGED <<clock, tables, reports, opened, client, PROXY_TEMP_MAP>>

\* The parked packet is read through the map again here: another CPU may have
\* replaced it, and if it was removed the memory still holds it.
ConnLookupSource(t) ==
    /\ frame[t].pc = "conn_source"
    /\ LET key    == ConnectionKey(frame[t].pkt)
           parked == IF key \in DOMAIN INCOMPLETE_PACKETS
                     THEN INCOMPLETE_PACKETS[key] ELSE frame[t].pkt
       IN  IF t \in DOMAIN PROXY_TEMP_MAP
           THEN frame' = [frame EXCEPT
                   ![t].pc = "conn_unpark",
                   ![t].pkt = [parked EXCEPT !.src_ip = PROXY_TEMP_MAP[t].real_ip,
                                             !.src_port = PROXY_TEMP_MAP[t].real_port]]
           ELSE Goto(t, "conn_learn")
    /\ UNCHANGED <<clock, tables, reports, opened, client, PROXY_TEMP_MAP>>

\* Mutant: the parked packet is reported and stays parked.
ConnUnparkKept(t) ==
    /\ frame[t].pc = "conn_unpark"
    /\ PROXY_TEMP_MAP' = Drop(PROXY_TEMP_MAP, t)
    /\ frame' = [frame EXCEPT ![t] = DedupFrame(frame[t].pkt)]
    /\ UNCHANGED <<clock, tables, reports, opened, client>>

\* Both are used up, and the event goes to deduplicate_and_send, unless the
\* allocator, which this program does not reset, has no memory left for it.
\* (A parked packet found here is TCP, so is_new_udp_flow is not asked.)
ConnUnpark(t) ==
    /\ frame[t].pc = "conn_unpark"
    /\ INCOMPLETE_PACKETS' = Drop(INCOMPLETE_PACKETS, ConnectionKey(frame[t].pkt))
    /\ PROXY_TEMP_MAP' = Drop(PROXY_TEMP_MAP, t)
    /\ \/ frame' = [frame EXCEPT ![t] = DedupFrame(frame[t].pkt)]
       \/ Return(t, "unallocated")
    /\ UNCHANGED <<clock, UDP_FLOWS, NETWORK_EVENT_DEDUP, REAL_SOURCE_MAP, reports, opened,
                   client>>

\* Nothing to complete: the client is stored for packets still to come.
ConnLearn(t) ==
    /\ frame[t].pc = "conn_learn"
    /\ IF t \in DOMAIN PROXY_TEMP_MAP
       THEN /\ REAL_SOURCE_MAP' \in LruPuts(REAL_SOURCE_MAP, ConnectionKey(frame[t].pkt),
                                            PROXY_TEMP_MAP[t], ProxyMapSize)
            /\ PROXY_TEMP_MAP' = Drop(PROXY_TEMP_MAP, t)
       ELSE UNCHANGED <<REAL_SOURCE_MAP, PROXY_TEMP_MAP>>
    /\ Return(t, "learned")
    /\ UNCHANGED <<clock, UDP_FLOWS, NETWORK_EVENT_DEDUP, INCOMPLETE_PACKETS, reports, opened,
                   client>>

ProbeStep(t) ==
    ConnLookupParked(t) \/ ConnLookupSource(t) \/ ConnUnpark(t) \/ ConnLearn(t)

-----------------------------------------------------------------------------
(* What disturbs the tracking of a client: the history is written here. *)

InProbe == {"conn_parked", "conn_source", "conn_unpark", "conn_learn"}

\* docker-proxy has accepted c, and its probe or its SYN is still to come or
\* under way.
Open(c) ==
    \/ client[c] \in {"accepted", "dialed"}
    \/ \E t \in Threads : frame[t].pc \in InProbe /\ dialing[t] = c
    \/ \E cpu \in Cpus : frame[cpu].pc \in {"proxy", "park"} /\ frame[cpu].pkt.conn = c

Overlapping == {c \in Clients : Open(c) /\ \E d \in Clients \ {c} : Open(d)}

\* The probe on thread t ends, and not by completing the packet of the client
\* the thread dialed for with that client's own address and port.
Strays(t) ==
    /\ frame[t].pc \in {"conn_unpark", "conn_learn"}
    /\ frame'[t].pc \notin InProbe
    /\ ~(/\ frame[t].pc = "conn_unpark"
         /\ frame[t].pkt.conn = dialing[t] /\ frame[t].pkt.src_port = dialing[t])

ProxyNext ==
    /\ \/ \E c \in Clients, t \in Threads : track_proxy_accept(c, t) \/ Dial(c, t)
       \/ \E c \in Clients, cpu \in Cpus : SynArrives(c, cpu)
       \/ \E t \in Threads : ProbeStep(t) /\ UNCHANGED dialing
       \/ NetStep /\ UNCHANGED <<client, PROXY_TEMP_MAP, dialing>>
    /\ raced' = raced \cup Racing'
    /\ disturbed' = disturbed \cup Overlapping' \cup {dialing[t] : t \in {u \in Threads : Strays(u)}}

ProxySpec == ProxyInit /\ [][ProxyNext]_proxyVars

-----------------------------------------------------------------------------
\* Frames whose event carries a source taken from the proxy maps.
Resolved(who) ==
    /\ frame[who].pc \in {"dedup_insert", "dedup_lookup", "dedup_update", "send", "done"}
    /\ frame[who].pc = "done" => frame[who].fate \in {"sent", "suppressed", "dedup_missed"}

(* Whatever way packet and probe race, on whatever thread the proxy dials,    *)
(* and whatever was evicted, a proxied connection is reported with the       *)
(* address and port that docker_proxy_accept read from one accepted socket.  *)
(* The address is the host's end of that socket (skc_rcv_saddr), not the     *)
(* client's, and may itself be a gateway's; the port is the client's.        *)
SourceWasAccepted ==
    \A who \in Cpus \cup Threads :
        Resolved(who) =>
            /\ frame[who].pkt.src_ip = HostIp
            /\ frame[who].pkt.src_port \in {c \in Clients : client[c] # "new"}

(* A connection is reported under another client only if the tracking of that *)
(* other client was disturbed: it was open together with another one, or its *)
(* probe ended without completing its own packet (the probe was faster than  *)
(* the packet, the proxy dialed from another thread, an entry was evicted).  *)
(* If a probe made the report, the connection's own tracking was disturbed   *)
(* as well.  So clients that come one at a time, each dialed for on the      *)
(* thread that accepted it, with the SYN parked first, are told apart.       *)
OwnUnlessDisturbed ==
    \A who \in Cpus \cup Threads :
        LET pkt == frame[who].pkt
        IN  Resolved(who) /\ pkt.src_port # pkt.conn =>
                /\ pkt.src_port \in disturbed
                /\ who \in Threads => pkt.conn \in disturbed
=============================================================================
