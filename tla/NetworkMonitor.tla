---------------------------- MODULE NetworkMonitor ----------------------------
(***************************************************************************)
(* process_skb, the program behind cgroup_skb_egress, cgroup_skb_ingress   *)
(* and cgroup_skb_egress_enforce: which packets it looks at, the verdict,  *)
(* and the two LRU maps with expiry times that decide whether a UDP packet *)
(* opens a flow and whether an event is reported.                          *)
(*                                                                         *)
(* Every CPU runs the program on its own packet; each map operation is a   *)
(* step, and so is the passing of time.  The maps are partial functions.   *)
(* A program copies the clock on entry to a helper, so that its `now` may  *)
(* be older than what other CPUs have written since.                       *)
(***************************************************************************)
EXTENDS Integers, BpfMaps

CONSTANTS
    Cpus,               \* CPUs handling packets
    Threads,            \* threads running the docker-proxy probes
    Packets,            \* packets that may cross the cgroup's boundary
    ProxyIps,           \* DOCKER_PROXY_IPS, filled once at start-up
    Enforce,            \* the enforcing egress program is attached
    Blocked,            \* <<ip, port>> destinations skb_egress_verdict drops
    UDP_FLOW_TTL,       \* lifetime of a flow entry (5 s in the code)
    NETWORK_DEDUP_TTL,  \* lifetime of a dedup entry (60 s in the code)
    FlowSize,           \* max_entries of UDP_FLOWS (8192)
    DedupSize,          \* max_entries of NETWORK_EVENT_DEDUP (32768)
    ProxyMapSize,       \* max_entries of the docker-proxy maps
    MaxTime             \* bound on the clock

\* What process_skb reads of a packet.  conn is not in the packet: it says which
\* proxied connection the packet really belongs to.
SkBuff ==
    [proto : {"non_ip", "tcp", "udp"}, syn : BOOLEAN, direction : {"egress", "ingress"},
     src_ip : Nat, src_port : Nat, dst_ip : Nat, dst_port : Nat, conn : Nat]

ASSUME NetworkAssumption ==
    /\ Cpus \cap Threads = {}
    /\ Packets \subseteq SkBuff
    /\ Enforce \in BOOLEAN
    /\ UDP_FLOW_TTL \in Nat /\ NETWORK_DEDUP_TTL \in Nat
    /\ FlowSize \in Nat \ {0} /\ DedupSize \in Nat \ {0} /\ ProxyMapSize \in Nat \ {0}
    /\ MaxTime \in Nat

VARIABLES
    clock,
    UDP_FLOWS,            \* flow key -> expiry
    NETWORK_EVENT_DEDUP,  \* identity -> expiry
    REAL_SOURCE_MAP,      \* container address, port, protocol -> client
    INCOMPLETE_PACKETS,   \* container address, port, protocol -> parked packet
    frame,                \* what each CPU and each probe is doing
    reports,              \* history: identity -> latest time it was reported with
    opened,               \* history: UDP endpoints -> latest time they opened a flow
    raced                 \* history: identities that two CPUs deduplicated at once

tables == <<UDP_FLOWS, NETWORK_EVENT_DEDUP, REAL_SOURCE_MAP, INCOMPLETE_PACKETS>>
netVars == <<clock, tables, frame, reports, opened, raced>>

-----------------------------------------------------------------------------
PutLatest(m, k, t) == Put(m, k, IF k \in DOMAIN m /\ m[k] > t THEN m[k] ELSE t)

-----------------------------------------------------------------------------
(* Packets. *)

NetworkIdentity(pkt) == <<pkt.src_ip, pkt.dst_ip, pkt.dst_port, pkt.direction>>

ConnectionKey(pkt) == <<pkt.dst_ip, pkt.dst_port, pkt.proto>>

is_valid_event(pkt) ==
    /\ pkt.src_ip # 0 \/ pkt.dst_ip # 0
    /\ pkt.src_port # 0 \/ pkt.dst_port # 0

\* Mutant: addresses and ports are ordered separately.
normalize_separately(pkt) ==
    LET low(a, b)  == IF a <= b THEN a ELSE b
        high(a, b) == IF a <= b THEN b ELSE a
    IN  <<low(pkt.src_ip, pkt.dst_ip), high(pkt.src_ip, pkt.dst_ip),
          low(pkt.src_port, pkt.dst_port), high(pkt.src_port, pkt.dst_port)>>

\* Both directions of a flow have one key.
normalize_udp_key(pkt) ==
    IF \/ pkt.src_ip < pkt.dst_ip
       \/ pkt.src_ip = pkt.dst_ip /\ pkt.src_port <= pkt.dst_port
    THEN <<pkt.src_ip, pkt.dst_ip, pkt.src_port, pkt.dst_port>>
    ELSE <<pkt.dst_ip, pkt.src_ip, pkt.dst_port, pkt.src_port>>

\* Mutant: an error code where the program returns 0 to drop.
SkbVerdictErrno(pkt) ==
    IF Enforce /\ pkt.direction = "egress" /\ <<pkt.dst_ip, pkt.dst_port>> \in Blocked
    THEN -1 ELSE 1

Endpoints(pkt) == {<<pkt.src_ip, pkt.src_port>>, <<pkt.dst_ip, pkt.dst_port>>}

SkbVerdict(pkt) ==
    IF Enforce /\ pkt.direction = "egress" /\ <<pkt.dst_ip, pkt.dst_port>> \in Blocked
    THEN 0 ELSE 1

-----------------------------------------------------------------------------
(* Frames. *)

Idle == [pc |-> "idle"]

At(pc, pkt, rc) == [pc |-> pc, pkt |-> pkt, now |-> clock, rc |-> rc, fate |-> "open"]

Goto(who, pc) == frame' = [frame EXCEPT ![who].pc = pc]

\* No program is running; a finished one stays visible until the next starts.
Free(who) == frame[who].pc \in {"idle", "done"}

\* The program returns rc: 1 passes the packet, 0 drops it.
Return(who, fate) == frame' = [frame EXCEPT ![who].pc = "done", ![who].fate = fate]

\* The verdict is decided before deduplicate_and_send, which reads the clock.
DedupFrame(pkt) == At("dedup_insert", pkt, SkbVerdict(pkt))

\* The rest of process_skb, once the packet's source is settled.
ClassifyFrame(pkt) ==
    IF ~is_valid_event(pkt) THEN [At("done", pkt, 1) EXCEPT !.fate = "ignored"]
    ELSE IF pkt.proto = "udp" THEN At("flow_insert", pkt, 1)
    ELSE DedupFrame(pkt)

NetInit ==
    /\ clock = 0
    /\ UDP_FLOWS = NoEntry /\ NETWORK_EVENT_DEDUP = NoEntry
    /\ REAL_SOURCE_MAP = NoEntry /\ INCOMPLETE_PACKETS = NoEntry
    /\ frame = [who \in Cpus \cup Threads |-> Idle]
    /\ reports = NoEntry /\ opened = NoEntry /\ raced = {}

\* A packet crosses the cgroup's boundary.  What is not IPv4, and every TCP
\* packet but the SYN of a connection, passes at once.
Arrive(cpu, pkt) ==
    /\ Free(cpu)
    /\ frame' = [frame EXCEPT ![cpu] =
          IF pkt.proto = "non_ip" \/ (pkt.proto = "tcp" /\ ~pkt.syn)
          THEN [At("done", pkt, 1) EXCEPT !.fate = "ignored"]
          ELSE IF pkt.src_ip \in ProxyIps THEN At("proxy", pkt, 1)
          ELSE ClassifyFrame(pkt)]
    /\ UNCHANGED <<clock, tables, reports, opened>>

\* The packet comes from docker-proxy: the client behind it is looked up.
LookupRealSource(cpu) ==
    /\ frame[cpu].pc = "proxy"
    /\ LET pkt == frame[cpu].pkt
           key == ConnectionKey(pkt)
       IN  IF key \in DOMAIN REAL_SOURCE_MAP
           THEN frame' = [frame EXCEPT ![cpu] =
                   ClassifyFrame([pkt EXCEPT !.src_ip = REAL_SOURCE_MAP[key].real_ip,
                                             !.src_port = REAL_SOURCE_MAP[key].real_port])]
           ELSE Goto(cpu, "park")
    /\ UNCHANGED <<clock, tables, reports, opened>>

\* No client yet: the packet is kept for docker_proxy_connect, and passes.
Park(cpu) ==
    /\ frame[cpu].pc = "park"
    /\ INCOMPLETE_PACKETS' \in LruPuts(INCOMPLETE_PACKETS, ConnectionKey(frame[cpu].pkt),
                                       frame[cpu].pkt, ProxyMapSize)
    /\ Return(cpu, "parked")
    /\ UNCHANGED <<clock, UDP_FLOWS, NETWORK_EVENT_DEDUP, REAL_SOURCE_MAP, reports, opened>>

-----------------------------------------------------------------------------
(* is_new_udp_flow *)

OpenFlow(cpu) ==
    LET f == frame[cpu]
    IN  /\ UDP_FLOWS' \in LruPuts(UDP_FLOWS, normalize_udp_key(f.pkt),
                                  f.now + UDP_FLOW_TTL, FlowSize)
        /\ opened' = PutLatest(opened, Endpoints(f.pkt), f.now)
        /\ frame' = [frame EXCEPT ![cpu] = DedupFrame(f.pkt)]

FlowInsert(cpu) ==
    /\ frame[cpu].pc = "flow_insert"
    /\ LET f == frame[cpu]
           k == normalize_udp_key(f.pkt)
       IN  IF k \in DOMAIN UDP_FLOWS
           THEN Goto(cpu, "flow_lookup") /\ UNCHANGED <<UDP_FLOWS, opened>>
           ELSE OpenFlow(cpu)
    /\ UNCHANGED <<clock, NETWORK_EVENT_DEDUP, REAL_SOURCE_MAP, INCOMPLETE_PACKETS, reports>>

\* Not new: the packet passes, with no verdict and no event.
FlowLookup(cpu) ==
    /\ frame[cpu].pc = "flow_lookup"
    /\ LET f == frame[cpu]
           k == normalize_udp_key(f.pkt)
       IN  IF k \notin DOMAIN UDP_FLOWS THEN Return(cpu, "flow_missed")
           ELSE IF f.now > UDP_FLOWS[k] THEN Goto(cpu, "flow_update")
           ELSE Return(cpu, "in_flow")
    /\ UNCHANGED <<clock, tables, reports, opened>>

FlowUpdate(cpu) ==
    /\ frame[cpu].pc = "flow_update"
    /\ OpenFlow(cpu)
    /\ UNCHANGED <<clock, NETWORK_EVENT_DEDUP, REAL_SOURCE_MAP, INCOMPLETE_PACKETS, reports>>

-----------------------------------------------------------------------------
(* deduplicate_and_send *)

DedupInsert(who) ==
    /\ frame[who].pc = "dedup_insert"
    /\ LET f  == frame[who]
           id == NetworkIdentity(f.pkt)
       IN  IF id \in DOMAIN NETWORK_EVENT_DEDUP
           THEN Goto(who, "dedup_lookup") /\ UNCHANGED NETWORK_EVENT_DEDUP
           ELSE /\ NETWORK_EVENT_DEDUP' \in
                      LruPuts(NETWORK_EVENT_DEDUP, id, f.now + NETWORK_DEDUP_TTL, DedupSize)
                /\ Goto(who, "send")
    /\ UNCHANGED <<clock, UDP_FLOWS, REAL_SOURCE_MAP, INCOMPLETE_PACKETS, reports, opened>>

\* Mutant: an entry counts as fresh for one more lifetime.
DedupLookupLate(who) ==
    /\ frame[who].pc = "dedup_lookup"
    /\ LET f  == frame[who]
           id == NetworkIdentity(f.pkt)
       IN  IF id \notin DOMAIN NETWORK_EVENT_DEDUP THEN Return(who, "dedup_missed")
           ELSE IF f.now > NETWORK_EVENT_DEDUP[id] + NETWORK_DEDUP_TTL
           THEN Goto(who, "dedup_update")
           ELSE Return(who, "suppressed")
    /\ UNCHANGED <<clock, tables, reports, opened>>

DedupLookup(who) ==
    /\ frame[who].pc = "dedup_lookup"
    /\ LET f  == frame[who]
           id == NetworkIdentity(f.pkt)
       IN  IF id \notin DOMAIN NETWORK_EVENT_DEDUP THEN Return(who, "dedup_missed")
           ELSE IF f.now > NETWORK_EVENT_DEDUP[id] THEN Goto(who, "dedup_update")
           ELSE Return(who, "suppressed")
    /\ UNCHANGED <<clock, tables, reports, opened>>

\* Mutant: an expired entry is reported and not renewed.
DedupUpdateForgotten(who) ==
    /\ frame[who].pc = "dedup_update"
    /\ Goto(who, "send")
    /\ UNCHANGED <<clock, tables, reports, opened>>

DedupUpdate(who) ==
    /\ frame[who].pc = "dedup_update"
    /\ LET f == frame[who]
       IN  NETWORK_EVENT_DEDUP' \in
               LruPuts(NETWORK_EVENT_DEDUP, NetworkIdentity(f.pkt),
                       f.now + NETWORK_DEDUP_TTL, DedupSize)
    /\ Goto(who, "send")
    /\ UNCHANGED <<clock, UDP_FLOWS, REAL_SOURCE_MAP, INCOMPLETE_PACKETS, reports, opened>>

Send(who) ==
    /\ frame[who].pc = "send"
    /\ reports' = PutLatest(reports, NetworkIdentity(frame[who].pkt), frame[who].now)
    /\ Return(who, "sent")
    /\ UNCHANGED <<clock, tables, opened>>

Tick ==
    /\ clock < MaxTime
    /\ clock' = clock + 1
    /\ UNCHANGED <<tables, frame, reports, opened>>

PacketStep(cpu) ==
    LookupRealSource(cpu) \/ Park(cpu) \/ FlowInsert(cpu) \/ FlowLookup(cpu) \/ FlowUpdate(cpu)

DedupStep(who) ==
    DedupInsert(who) \/ DedupLookup(who) \/ DedupUpdate(who) \/ Send(who)

\* Identities that two frames are deduplicating, the clock read and the map not
\* yet written.
Racing ==
    LET Busy == {who \in Cpus \cup Threads :
                    frame[who].pc \in {"dedup_insert", "dedup_lookup", "dedup_update"}}
    IN  {NetworkIdentity(frame[who].pkt) : who \in
            {w \in Busy : \E v \in Busy \ {w} :
                NetworkIdentity(frame[v].pkt) = NetworkIdentity(frame[w].pkt)}}

NetStep ==
    \/ \E cpu \in Cpus : PacketStep(cpu)
    \/ \E who \in Cpus \cup Threads : DedupStep(who)
    \/ Tick

NetNext ==
    /\ \/ \E cpu \in Cpus, pkt \in Packets : Arrive(cpu, pkt)
       \/ NetStep
    /\ raced' = raced \cup Racing'

NetSpec == NetInit /\ [][NetNext]_netVars

-----------------------------------------------------------------------------
Pcs == {"proxy", "park", "flow_insert", "flow_lookup", "flow_update", "dedup_insert",
        "dedup_lookup", "dedup_update", "send", "done", "conn_parked", "conn_source",
        "conn_unpark", "conn_learn"}

NetTypeOK ==
    /\ clock \in 0..MaxTime
    /\ \A k \in DOMAIN UDP_FLOWS : UDP_FLOWS[k] \in Nat
    /\ Cardinality(DOMAIN UDP_FLOWS) <= FlowSize
    /\ \A id \in DOMAIN NETWORK_EVENT_DEDUP : NETWORK_EVENT_DEDUP[id] \in Nat
    /\ Cardinality(DOMAIN NETWORK_EVENT_DEDUP) <= DedupSize
    /\ \A who \in Cpus \cup Threads :
          \/ frame[who] = Idle
          \/ /\ frame[who].pc \in Pcs
             /\ frame[who].now \in 0..clock
             /\ frame[who].rc \in {0, 1}

\* A report of an identity made, or about to be made, with a time in T.
ReportedIn(id, T) ==
    \/ id \in DOMAIN reports /\ reports[id] \in T
    \/ \E who \in Cpus \cup Threads :
          /\ frame[who].pc = "send"
          /\ NetworkIdentity(frame[who].pkt) = id /\ frame[who].now \in T

(* Deduplication hides nothing: an event is suppressed only if one of the     *)
(* same identity was reported, or is just being reported, no more than a     *)
(* lifetime before.  One exception is left: the entry is evicted between the *)
(* failed insert and the lookup; then the identity has been reported before, *)
(* though perhaps long ago.                                                  *)
SuppressedWasReported ==
    \A who \in Cpus \cup Threads :
        LET f == frame[who]
        IN  f.pc = "done" =>
                /\ f.fate = "suppressed" =>
                      ReportedIn(NetworkIdentity(f.pkt), (f.now - NETWORK_DEDUP_TTL)..MaxTime)
                /\ f.fate = "dedup_missed" => ReportedIn(NetworkIdentity(f.pkt), 0..MaxTime)

(* "Events with the same identity are deduplicated for NETWORK_DEDUP_TTL_NS": *)
(* while no entry is evicted and no two CPUs are ever inside the dedup of    *)
(* one identity together, its reports are more than a lifetime apart.  (When *)
(* they are, both may report, and one may write an older expiry over a newer *)
(* one, after which a third report comes early.)                             *)
SendIsSpaced ==
    \A who \in Cpus \cup Threads :
        LET id == NetworkIdentity(frame[who].pkt)
        IN  /\ frame[who].pc = "send" /\ frame'[who].pc = "done"
            /\ id \notin raced /\ id \in DOMAIN reports
            /\ Cardinality(DOMAIN NETWORK_EVENT_DEDUP) < DedupSize
            => \/ frame[who].now > reports[id] + NETWORK_DEDUP_TTL
               \/ reports[id] > frame[who].now + NETWORK_DEDUP_TTL

SpacedUnlessRaced == [][SendIsSpaced]_netVars

\* A packet to a blocked destination that the program judges.  Two kinds it does
\* not: a packet with a docker-proxy address as its source is parked and passes,
\* and so does one without an address or a port.
ToBlocked(pkt) ==
    /\ Enforce /\ pkt.direction = "egress"
    /\ <<pkt.dst_ip, pkt.dst_port>> \in Blocked
    /\ pkt.proto = "udp" \/ (pkt.proto = "tcp" /\ pkt.syn)
    /\ pkt.src_ip \notin ProxyIps /\ is_valid_event(pkt)

(* No connection to a blocked destination is let through because its event is *)
(* a duplicate: a SYN is dropped whatever the dedup map holds, and a datagram *)
(* passes only in a flow that another packet between the same two endpoints, *)
(* in either direction, opened no more than a lifetime before (or whose entry *)
(* was evicted under it).                                                    *)
BlockedPassesOnlyInFlow ==
    \A cpu \in Cpus :
        LET f == frame[cpu]
        IN  f.pc = "done" /\ f.rc = 1 /\ ToBlocked(f.pkt) =>
                /\ f.pkt.proto = "udp"
                /\ Endpoints(f.pkt) \in DOMAIN opened
                /\ \/ f.fate = "flow_missed"
                   \/ opened[Endpoints(f.pkt)] >= f.now - UDP_FLOW_TTL

(* "a repeated connection to a blocked destination is still dropped even      *)
(* after dedup" (network.rs, at the verdict).                                *)
RepeatedBlockedIsDropped ==
    \A cpu \in Cpus :
        frame[cpu].pc = "done" /\ ToBlocked(frame[cpu].pkt) => frame[cpu].rc = 0
=============================================================================
