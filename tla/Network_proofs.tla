----------------------------- MODULE Network_proofs -----------------------------
(***************************************************************************)
(* Theorems about the packet path and the docker-proxy probes, for every   *)
(* number of CPUs and threads, all packets, all lifetimes and every size   *)
(* of the LRU maps.                                                        *)
(***************************************************************************)
EXTENDS ProxyTracking, BpfMaps_proofs

Programs == Cpus \cup Threads

Fates == {"open", "ignored", "parked", "in_flow", "flow_missed", "suppressed",
          "dedup_missed", "sent", "learned", "unallocated"}

\* A frame that has a packet.
Running == [pc : Pcs, pkt : SkBuff, now : Nat, rc : {0, 1}, fate : Fates]

Source == [real_ip : Nat, real_port : Nat]

\* An LRU map of expiry times, no larger than it may be.
Expiries(m, size) ==
    /\ IsFiniteSet(DOMAIN m) /\ Cardinality(DOMAIN m) <= size
    /\ \A k \in DOMAIN m : m[k] \in Nat

FrameTypes ==
    /\ clock \in 0..MaxTime
    /\ frame \in [Programs -> {Idle} \cup Running]
    /\ \A who \in Programs : frame[who] # Idle => frame[who].now <= clock

TableTypes ==
    /\ Expiries(UDP_FLOWS, FlowSize)
    /\ Expiries(NETWORK_EVENT_DEDUP, DedupSize)
    /\ \A id \in DOMAIN reports : reports[id] \in 0..clock
    /\ \A ends \in DOMAIN opened : opened[ends] \in 0..clock
    /\ \A key \in DOMAIN REAL_SOURCE_MAP : REAL_SOURCE_MAP[key] \in Source
    /\ \A key \in DOMAIN INCOMPLETE_PACKETS : INCOMPLETE_PACKETS[key] \in SkBuff

NetTypes == FrameTypes /\ TableTypes

-----------------------------------------------------------------------------
(* One program moves at a time. *)

\* Program who gets a new frame, the others stay where they are.
Moves(who) ==
    /\ frame' \in [Programs -> {Idle} \cup Running]
    /\ frame'[who] \in Running /\ frame'[who] # Idle
    /\ \A w \in Programs : w # who => frame'[w] = frame[w]

\* It goes on with the packet, clock and verdict it has ...
Advances(who, pc) ==
    /\ Moves(who)
    /\ frame'[who].pc = pc /\ frame'[who].pkt = frame[who].pkt
    /\ frame'[who].now = frame[who].now /\ frame'[who].rc = frame[who].rc

\* ... or the verdict is decided and the clock read.
Judges(who, pkt) ==
    /\ Moves(who)
    /\ frame'[who].pc = "dedup_insert" /\ frame'[who].pkt = pkt
    /\ frame'[who].now = clock /\ frame'[who].rc = SkbVerdict(pkt)

LEMMA RunningPc ==
    ASSUME NetTypes, NEW who \in Programs, frame[who].pc \in Pcs
    PROVE  frame[who] \in Running /\ frame[who] # Idle /\ frame[who].now \in 0..clock
  BY DEF NetTypes, FrameTypes, TableTypes, Idle, Pcs, Running

LEMMA Replaces ==
    ASSUME NetTypes, NEW who \in Programs, NEW g \in Running,
           frame' = [frame EXCEPT ![who] = g]
    PROVE  Moves(who) /\ frame'[who] = g
  BY DEF NetTypes, FrameTypes, TableTypes, Moves, Running, Pcs, Idle

LEMMA Goes ==
    ASSUME NetTypes, NEW who \in Programs, frame[who].pc \in Pcs, NEW pc \in Pcs, Goto(who, pc)
    PROVE  Advances(who, pc) /\ frame'[who].fate = frame[who].fate
  <1> DEFINE g == [frame[who] EXCEPT !.pc = pc]
  <1>1. /\ g \in Running /\ g.pc = pc /\ g.pkt = frame[who].pkt /\ g.now = frame[who].now
        /\ g.rc = frame[who].rc /\ g.fate = frame[who].fate
    BY RunningPc DEF Running
  <1>2. frame' = [frame EXCEPT ![who] = g]
    BY DEF Goto
  <1> HIDE DEF g
  <1>3. Moves(who) /\ frame'[who] = g
    BY <1>1, <1>2, Replaces
  <1>4. QED BY <1>1, <1>3 DEF Advances

LEMMA Returns ==
    ASSUME NetTypes, NEW who \in Programs, frame[who].pc \in Pcs, NEW fate \in Fates,
           Return(who, fate)
    PROVE  Advances(who, "done") /\ frame'[who].fate = fate
  <1> DEFINE g == [frame[who] EXCEPT !.pc = "done", !.fate = fate]
  <1>1. /\ g \in Running /\ g.pc = "done" /\ g.pkt = frame[who].pkt /\ g.now = frame[who].now
        /\ g.rc = frame[who].rc /\ g.fate = fate
    BY RunningPc DEF Running, Pcs
  <1>2. frame' = [frame EXCEPT ![who] = g]
    BY DEF Return, NetTypes, FrameTypes, TableTypes
  <1> HIDE DEF g
  <1>3. Moves(who) /\ frame'[who] = g
    BY <1>1, <1>2, Replaces
  <1>4. QED BY <1>1, <1>3 DEF Advances

(* The frame of a packet that goes to deduplicate_and_send. *)
LEMMA DedupFrameFacts ==
    ASSUME NetTypes, NEW pkt \in SkBuff
    PROVE  LET g == DedupFrame(pkt)
           IN  /\ g \in Running /\ g # Idle
               /\ g.pc = "dedup_insert" /\ g.pkt = pkt /\ g.now = clock
               /\ g.rc = SkbVerdict(pkt) /\ g.fate = "open"
  BY DEF NetTypes, FrameTypes, TableTypes, DedupFrame, At, SkbVerdict, Running, Pcs, Fates, Idle

(* The frame of a packet whose source is settled. *)
LEMMA ClassifyFacts ==
    ASSUME NetTypes, NEW pkt \in SkBuff
    PROVE  LET g == ClassifyFrame(pkt)
           IN  /\ g \in Running
               /\ g.pkt = pkt /\ g.now = clock
               /\ g.pc \in {"done", "flow_insert", "dedup_insert"}
               /\ g.pc = "done" => g.fate = "ignored" /\ ~is_valid_event(pkt)
               /\ g.pc = "flow_insert" => pkt.proto = "udp"
               /\ g.pc = "dedup_insert" => pkt.proto # "udp" /\ g.rc = SkbVerdict(pkt)
  <1>1. CASE ~is_valid_event(pkt)
    BY <1>1 DEF NetTypes, FrameTypes, TableTypes, ClassifyFrame, At, Running, Pcs, Fates, Idle
  <1>2. CASE is_valid_event(pkt) /\ pkt.proto = "udp"
    BY <1>2 DEF NetTypes, FrameTypes, TableTypes, ClassifyFrame, At, Running, Pcs, Fates, Idle
  <1>3. CASE is_valid_event(pkt) /\ pkt.proto # "udp"
    <2>1. ClassifyFrame(pkt) = DedupFrame(pkt)
      BY <1>3 DEF ClassifyFrame
    <2>2. QED BY <1>3, <2>1, DedupFrameFacts
  <1>4. QED BY <1>1, <1>2, <1>3

-----------------------------------------------------------------------------
(* What each step does to the frame that takes it. *)

(* The packet's source is settled: it is judged, checked for a flow, or      *)
(* passes because it is not an event.                                        *)
Settles(who, pkt) ==
    /\ Moves(who)
    /\ frame'[who].pkt = pkt /\ frame'[who].now = clock
    /\ frame'[who].pc \in {"done", "flow_insert", "dedup_insert"}
    /\ frame'[who].pc = "done" => frame'[who].fate = "ignored" /\ ~ToBlocked(pkt)
    /\ frame'[who].pc = "flow_insert" => pkt.proto = "udp"
    /\ frame'[who].pc = "dedup_insert" => pkt.proto # "udp" /\ frame'[who].rc = SkbVerdict(pkt)

LEMMA ArriveStep ==
    ASSUME NetTypes, NEW cpu \in Cpus, NEW pkt \in SkBuff, Arrive(cpu, pkt)
    PROVE  /\ frame[cpu].pc \in {"idle", "done"}
           /\ UNCHANGED <<clock, tables, reports, opened>>
           /\ \/ Settles(cpu, pkt) /\ (frame'[cpu].pc # "done" => pkt.src_ip \notin ProxyIps)
              \/ /\ Moves(cpu) /\ frame'[cpu].pc = "proxy" /\ frame'[cpu].rc = 1
                 /\ frame'[cpu].pkt = pkt /\ frame'[cpu].now = clock
                 /\ pkt.src_ip \in ProxyIps
  <1>0. cpu \in Programs
    BY DEF Programs
  <1>1. frame[cpu].pc \in {"idle", "done"} /\ UNCHANGED <<clock, tables, reports, opened>>
    BY DEF Arrive, Free
  <1>2. CASE pkt.proto = "non_ip" \/ (pkt.proto = "tcp" /\ ~pkt.syn)
    <2> DEFINE g == [At("done", pkt, 1) EXCEPT !.fate = "ignored"]
    <2>1. frame' = [frame EXCEPT ![cpu] = g]
      BY <1>2 DEF Arrive
    <2>2. g \in Running /\ g.pc = "done" /\ g.fate = "ignored" /\ g.pkt = pkt /\ g.now = clock
      BY DEF NetTypes, FrameTypes, TableTypes, At, Running, Pcs, Fates
    <2> HIDE DEF g
    <2>3. Moves(cpu) /\ frame'[cpu] = g
      BY <1>0, <2>1, <2>2, Replaces
    <2>4. ~ToBlocked(pkt)
      BY <1>2 DEF ToBlocked
    <2>5. QED BY <1>1, <2>2, <2>3, <2>4 DEF Settles
  <1>3. CASE ~(pkt.proto = "non_ip" \/ (pkt.proto = "tcp" /\ ~pkt.syn)) /\ pkt.src_ip \in ProxyIps
    <2> DEFINE g == At("proxy", pkt, 1)
    <2>1. frame' = [frame EXCEPT ![cpu] = g]
      BY <1>3 DEF Arrive
    <2>2. g \in Running /\ g.pc = "proxy" /\ g.pkt = pkt /\ g.now = clock /\ g.rc = 1
      BY DEF NetTypes, FrameTypes, TableTypes, At, Running, Pcs, Fates
    <2> HIDE DEF g
    <2>3. Moves(cpu) /\ frame'[cpu] = g
      BY <1>0, <2>1, <2>2, Replaces
    <2>4. QED BY <1>1, <1>3, <2>2, <2>3
  <1>4. CASE ~(pkt.proto = "non_ip" \/ (pkt.proto = "tcp" /\ ~pkt.syn)) /\ pkt.src_ip \notin ProxyIps
    <2> DEFINE g == ClassifyFrame(pkt)
    <2>1. frame' = [frame EXCEPT ![cpu] = g]
      BY <1>4 DEF Arrive
    <2>2. /\ g \in Running /\ g.pkt = pkt /\ g.now = clock
          /\ g.pc \in {"done", "flow_insert", "dedup_insert"}
          /\ g.pc = "done" => g.fate = "ignored" /\ ~is_valid_event(pkt)
          /\ g.pc = "flow_insert" => pkt.proto = "udp"
          /\ g.pc = "dedup_insert" => pkt.proto # "udp" /\ g.rc = SkbVerdict(pkt)
      BY ClassifyFacts
    <2> HIDE DEF g
    <2>3. Moves(cpu) /\ frame'[cpu] = g
      BY <1>0, <2>1, <2>2, Replaces
    <2>4. ~is_valid_event(pkt) => ~ToBlocked(pkt)
      BY DEF ToBlocked
    <2>5. QED BY <1>1, <1>4, <2>2, <2>3, <2>4 DEF Settles
  <1>5. QED BY <1>2, <1>3, <1>4

LEMMA LookupRealSourceStep ==
    ASSUME NetTypes, NEW cpu \in Cpus, LookupRealSource(cpu)
    PROVE  LET pkt == frame[cpu].pkt
               key == ConnectionKey(pkt)
               src == REAL_SOURCE_MAP[key]
           IN  /\ frame[cpu].pc = "proxy"
               /\ UNCHANGED <<clock, tables, reports, opened>>
               /\ \/ /\ key \in DOMAIN REAL_SOURCE_MAP
                     /\ [pkt EXCEPT !.src_ip = src.real_ip, !.src_port = src.real_port] \in SkBuff
                     /\ Settles(cpu, [pkt EXCEPT !.src_ip = src.real_ip,
                                                 !.src_port = src.real_port])
                  \/ Advances(cpu, "park") /\ frame'[cpu].fate = frame[cpu].fate
  <1> DEFINE pkt == frame[cpu].pkt
             key == ConnectionKey(pkt)
             src == REAL_SOURCE_MAP[key]
             new == [pkt EXCEPT !.src_ip = src.real_ip, !.src_port = src.real_port]
  <1>0. cpu \in Programs /\ frame[cpu].pc = "proxy" /\ frame[cpu].pc \in Pcs
    BY DEF Programs, LookupRealSource, Pcs
  <1>1. UNCHANGED <<clock, tables, reports, opened>>
    BY DEF LookupRealSource
  <1>2. pkt \in SkBuff
    BY <1>0, RunningPc DEF Running
  <1>3. CASE key \in DOMAIN REAL_SOURCE_MAP
    <2>1. src \in Source
      BY <1>3 DEF NetTypes, FrameTypes, TableTypes
    <2>2. new \in SkBuff
      <3> HIDE DEF pkt, src
      <3>1. QED BY <1>2, <2>1 DEF SkBuff, Source
    <2> DEFINE g == ClassifyFrame(new)
    <2>3. frame' = [frame EXCEPT ![cpu] = g]
      BY <1>3 DEF LookupRealSource
    <2> HIDE DEF new, src, key
    <2>4. /\ g \in Running /\ g.pkt = new /\ g.now = clock
          /\ g.pc \in {"done", "flow_insert", "dedup_insert"}
          /\ g.pc = "done" => g.fate = "ignored" /\ ~is_valid_event(new)
          /\ g.pc = "flow_insert" => new.proto = "udp"
          /\ g.pc = "dedup_insert" => new.proto # "udp" /\ g.rc = SkbVerdict(new)
      BY <2>2, ClassifyFacts
    <2>5. Moves(cpu) /\ frame'[cpu] = g
      <3> HIDE DEF g
      <3>1. QED BY <1>0, <2>3, <2>4, Replaces
    <2>6. ~is_valid_event(new) => ~ToBlocked(new)
      BY DEF ToBlocked
    <2>7. Settles(cpu, new)
      <3> HIDE DEF g
      <3>1. QED BY <2>4, <2>5, <2>6 DEF Settles
    <2>8. QED BY <1>0, <1>1, <1>3, <2>2, <2>7 DEF new, src, key
  <1>4. CASE key \notin DOMAIN REAL_SOURCE_MAP
    <2>1. Goto(cpu, "park")
      BY <1>4 DEF LookupRealSource
    <2>2. QED BY <1>0, <1>1, <2>1, Goes DEF Pcs
  <1>5. QED BY <1>3, <1>4

LEMMA ParkStep ==
    ASSUME NetTypes, NEW cpu \in Cpus, Park(cpu)
    PROVE  /\ frame[cpu].pc = "park" /\ frame[cpu].pkt \in SkBuff
           /\ INCOMPLETE_PACKETS' \in LruPuts(INCOMPLETE_PACKETS, ConnectionKey(frame[cpu].pkt),
                                              frame[cpu].pkt, ProxyMapSize)
           /\ Advances(cpu, "done") /\ frame'[cpu].fate = "parked"
           /\ UNCHANGED <<clock, UDP_FLOWS, NETWORK_EVENT_DEDUP, REAL_SOURCE_MAP, reports, opened>>
  <1>1. cpu \in Programs /\ frame[cpu].pc = "park" /\ frame[cpu].pc \in Pcs
    BY DEF Programs, Park, Pcs
  <1>2. frame[cpu].pkt \in SkBuff
    BY <1>1, RunningPc DEF Running
  <1>3. Return(cpu, "parked")
    BY DEF Park
  <1>4. Advances(cpu, "done") /\ frame'[cpu].fate = "parked"
    BY <1>1, <1>3, Returns DEF Fates
  <1>5. QED BY <1>1, <1>2, <1>4 DEF Park

(* The packet opens a flow, or re-opens an expired one, and is judged. *)
Opens(cpu) ==
    /\ UDP_FLOWS' \in LruPuts(UDP_FLOWS, normalize_udp_key(frame[cpu].pkt),
                              frame[cpu].now + UDP_FLOW_TTL, FlowSize)
    /\ opened' = PutLatest(opened, Endpoints(frame[cpu].pkt), frame[cpu].now)
    /\ Judges(cpu, frame[cpu].pkt)

LEMMA OpenFlowStep ==
    ASSUME NetTypes, NEW cpu \in Cpus, frame[cpu].pc \in Pcs, OpenFlow(cpu)
    PROVE  Opens(cpu)
  <1> DEFINE g == DedupFrame(frame[cpu].pkt)
  <1>1. cpu \in Programs /\ frame[cpu].pkt \in SkBuff
    BY RunningPc DEF Running, Programs
  <1>2. /\ g \in Running /\ g.pc = "dedup_insert" /\ g.pkt = frame[cpu].pkt /\ g.now = clock
        /\ g.rc = SkbVerdict(frame[cpu].pkt)
    BY <1>1, DedupFrameFacts
  <1>3. frame' = [frame EXCEPT ![cpu] = g]
    BY DEF OpenFlow
  <1> HIDE DEF g
  <1>4. Moves(cpu) /\ frame'[cpu] = g
    BY <1>1, <1>2, <1>3, Replaces
  <1>5. QED BY <1>2, <1>4 DEF Opens, Judges, OpenFlow

LEMMA FlowInsertStep ==
    ASSUME NetTypes, NEW cpu \in Cpus, FlowInsert(cpu)
    PROVE  /\ frame[cpu].pc = "flow_insert"
           /\ UNCHANGED <<clock, NETWORK_EVENT_DEDUP, REAL_SOURCE_MAP, INCOMPLETE_PACKETS, reports>>
           /\ \/ /\ normalize_udp_key(frame[cpu].pkt) \in DOMAIN UDP_FLOWS
                 /\ Advances(cpu, "flow_lookup") /\ UNCHANGED <<UDP_FLOWS, opened>>
              \/ Opens(cpu)
  <1>1. cpu \in Programs /\ frame[cpu].pc = "flow_insert" /\ frame[cpu].pc \in Pcs
    BY DEF Programs, FlowInsert, Pcs
  <1>2. CASE normalize_udp_key(frame[cpu].pkt) \in DOMAIN UDP_FLOWS
    <2>1. Goto(cpu, "flow_lookup") /\ UNCHANGED <<UDP_FLOWS, opened>>
      BY <1>2 DEF FlowInsert
    <2>2. Advances(cpu, "flow_lookup")
      BY <1>1, <2>1, Goes DEF Pcs
    <2>3. QED BY <1>1, <1>2, <2>1, <2>2 DEF FlowInsert
  <1>3. CASE normalize_udp_key(frame[cpu].pkt) \notin DOMAIN UDP_FLOWS
    <2>1. OpenFlow(cpu)
      BY <1>3 DEF FlowInsert
    <2>2. QED BY <1>1, <2>1, OpenFlowStep DEF FlowInsert
  <1>4. QED BY <1>2, <1>3

LEMMA FlowLookupStep ==
    ASSUME NetTypes, NEW cpu \in Cpus, FlowLookup(cpu)
    PROVE  LET k == normalize_udp_key(frame[cpu].pkt)
           IN  /\ frame[cpu].pc = "flow_lookup"
               /\ UNCHANGED <<clock, tables, reports, opened>>
               /\ \/ Advances(cpu, "flow_update")
                  \/ Advances(cpu, "done") /\ frame'[cpu].fate = "flow_missed"
                  \/ /\ Advances(cpu, "done") /\ frame'[cpu].fate = "in_flow"
                     /\ k \in DOMAIN UDP_FLOWS /\ frame[cpu].now <= UDP_FLOWS[k]
  <1> DEFINE k == normalize_udp_key(frame[cpu].pkt)
  <1>1. /\ cpu \in Programs /\ frame[cpu].pc = "flow_lookup" /\ frame[cpu].pc \in Pcs
        /\ UNCHANGED <<clock, tables, reports, opened>>
    BY DEF Programs, FlowLookup, Pcs
  <1>2. frame[cpu].now \in Nat
    BY <1>1, RunningPc DEF Running
  <1>3. CASE k \notin DOMAIN UDP_FLOWS
    <2>1. Return(cpu, "flow_missed")
      BY <1>3 DEF FlowLookup
    <2>2. QED BY <1>1, <2>1, Returns DEF Fates
  <1>4. CASE k \in DOMAIN UDP_FLOWS /\ frame[cpu].now > UDP_FLOWS[k]
    <2>1. Goto(cpu, "flow_update")
      BY <1>4 DEF FlowLookup
    <2>2. QED BY <1>1, <2>1, Goes DEF Pcs
  <1>5. CASE k \in DOMAIN UDP_FLOWS /\ ~(frame[cpu].now > UDP_FLOWS[k])
    <2>1. Return(cpu, "in_flow")
      BY <1>5 DEF FlowLookup
    <2>2. UDP_FLOWS[k] \in Nat
      BY <1>5 DEF NetTypes, FrameTypes, TableTypes, Expiries
    <2>3. frame[cpu].now <= UDP_FLOWS[k]
      BY <1>2, <1>5, <2>2
    <2>4. Advances(cpu, "done") /\ frame'[cpu].fate = "in_flow"
      BY <1>1, <2>1, Returns DEF Fates
    <2>5. QED BY <1>1, <1>5, <2>3, <2>4
  <1>6. QED BY <1>3, <1>4, <1>5

LEMMA FlowUpdateStep ==
    ASSUME NetTypes, NEW cpu \in Cpus, FlowUpdate(cpu)
    PROVE  /\ frame[cpu].pc = "flow_update"
           /\ UNCHANGED <<clock, NETWORK_EVENT_DEDUP, REAL_SOURCE_MAP, INCOMPLETE_PACKETS, reports>>
           /\ Opens(cpu)
  <1>1. frame[cpu].pc = "flow_update" /\ frame[cpu].pc \in Pcs /\ OpenFlow(cpu)
    BY DEF FlowUpdate, Pcs
  <1>2. QED BY <1>1, OpenFlowStep DEF FlowUpdate

(* The dedup map gets the identity with a new expiry, and the event is sent. *)
Renews(who) ==
    /\ NETWORK_EVENT_DEDUP' \in
          LruPuts(NETWORK_EVENT_DEDUP, NetworkIdentity(frame[who].pkt),
                  frame[who].now + NETWORK_DEDUP_TTL, DedupSize)
    /\ Advances(who, "send")

LEMMA DedupInsertStep ==
    ASSUME NetTypes, NEW who \in Programs, DedupInsert(who)
    PROVE  LET id == NetworkIdentity(frame[who].pkt)
           IN  /\ frame[who].pc = "dedup_insert"
               /\ UNCHANGED <<clock, UDP_FLOWS, REAL_SOURCE_MAP, INCOMPLETE_PACKETS, reports, opened>>
               /\ \/ /\ id \in DOMAIN NETWORK_EVENT_DEDUP
                     /\ Advances(who, "dedup_lookup") /\ UNCHANGED NETWORK_EVENT_DEDUP
                  \/ id \notin DOMAIN NETWORK_EVENT_DEDUP /\ Renews(who)
  <1> DEFINE id == NetworkIdentity(frame[who].pkt)
  <1>1. frame[who].pc = "dedup_insert" /\ frame[who].pc \in Pcs
    BY DEF DedupInsert, Pcs
  <1>2. CASE id \in DOMAIN NETWORK_EVENT_DEDUP
    <2>1. Goto(who, "dedup_lookup") /\ UNCHANGED NETWORK_EVENT_DEDUP
      BY <1>2 DEF DedupInsert
    <2>2. Advances(who, "dedup_lookup")
      BY <1>1, <2>1, Goes DEF Pcs
    <2>3. QED BY <1>1, <1>2, <2>1, <2>2 DEF DedupInsert
  <1>3. CASE id \notin DOMAIN NETWORK_EVENT_DEDUP
    <2>1. Goto(who, "send")
      BY <1>3 DEF DedupInsert
    <2>2. Advances(who, "send")
      BY <1>1, <2>1, Goes DEF Pcs
    <2>3. QED BY <1>1, <1>3, <2>2 DEF DedupInsert, Renews
  <1>4. QED BY <1>2, <1>3

LEMMA DedupLookupStep ==
    ASSUME NetTypes, NEW who \in Programs, DedupLookup(who)
    PROVE  LET id == NetworkIdentity(frame[who].pkt)
           IN  /\ frame[who].pc = "dedup_lookup"
               /\ UNCHANGED <<clock, tables, reports, opened>>
               /\ \/ /\ Advances(who, "dedup_update")
                     /\ id \in DOMAIN NETWORK_EVENT_DEDUP
                     /\ frame[who].now > NETWORK_EVENT_DEDUP[id]
                  \/ Advances(who, "done") /\ frame'[who].fate = "dedup_missed"
                  \/ /\ Advances(who, "done") /\ frame'[who].fate = "suppressed"
                     /\ id \in DOMAIN NETWORK_EVENT_DEDUP
                     /\ frame[who].now <= NETWORK_EVENT_DEDUP[id]
  <1> DEFINE id == NetworkIdentity(frame[who].pkt)
  <1>1. /\ frame[who].pc = "dedup_lookup" /\ frame[who].pc \in Pcs
        /\ UNCHANGED <<clock, tables, reports, opened>>
    BY DEF DedupLookup, Pcs
  <1>2. frame[who].now \in Nat
    BY <1>1, RunningPc DEF Running
  <1>3. CASE id \notin DOMAIN NETWORK_EVENT_DEDUP
    <2>1. Return(who, "dedup_missed")
      BY <1>3 DEF DedupLookup
    <2>2. QED BY <1>1, <2>1, Returns DEF Fates
  <1>4. CASE id \in DOMAIN NETWORK_EVENT_DEDUP /\ frame[who].now > NETWORK_EVENT_DEDUP[id]
    <2>1. Goto(who, "dedup_update")
      BY <1>4 DEF DedupLookup
    <2>2. Advances(who, "dedup_update")
      BY <1>1, <2>1, Goes DEF Pcs
    <2>3. QED BY <1>1, <1>4, <2>2
  <1>5. CASE id \in DOMAIN NETWORK_EVENT_DEDUP /\ ~(frame[who].now > NETWORK_EVENT_DEDUP[id])
    <2>1. Return(who, "suppressed")
      BY <1>5 DEF DedupLookup
    <2>2. NETWORK_EVENT_DEDUP[id] \in Nat
      BY <1>5 DEF NetTypes, FrameTypes, TableTypes, Expiries
    <2>3. frame[who].now <= NETWORK_EVENT_DEDUP[id]
      BY <1>2, <1>5, <2>2
    <2>4. Advances(who, "done") /\ frame'[who].fate = "suppressed"
      BY <1>1, <2>1, Returns DEF Fates
    <2>5. QED BY <1>1, <1>5, <2>3, <2>4
  <1>6. QED BY <1>3, <1>4, <1>5

LEMMA DedupUpdateStep ==
    ASSUME NetTypes, NEW who \in Programs, DedupUpdate(who)
    PROVE  /\ frame[who].pc = "dedup_update"
           /\ UNCHANGED <<clock, UDP_FLOWS, REAL_SOURCE_MAP, INCOMPLETE_PACKETS, reports, opened>>
           /\ Renews(who)
  <1>1. frame[who].pc = "dedup_update" /\ frame[who].pc \in Pcs /\ Goto(who, "send")
    BY DEF DedupUpdate, Pcs
  <1>2. Advances(who, "send")
    BY <1>1, Goes DEF Pcs
  <1>3. QED BY <1>1, <1>2 DEF DedupUpdate, Renews

LEMMA SendStep ==
    ASSUME NetTypes, NEW who \in Programs, Send(who)
    PROVE  /\ frame[who].pc = "send"
           /\ reports' = PutLatest(reports, NetworkIdentity(frame[who].pkt), frame[who].now)
           /\ Advances(who, "done") /\ frame'[who].fate = "sent"
           /\ UNCHANGED <<clock, tables, opened>>
  <1>1. frame[who].pc = "send" /\ frame[who].pc \in Pcs /\ Return(who, "sent")
    BY DEF Send, Pcs
  <1>2. Advances(who, "done") /\ frame'[who].fate = "sent"
    BY <1>1, Returns DEF Fates
  <1>3. QED BY <1>1, <1>2 DEF Send

(* The history maps remember the latest time. *)
LEMMA PutLatestFacts ==
    ASSUME NEW m, NEW k, NEW t \in Nat, \A x \in DOMAIN m : m[x] \in Nat
    PROVE  LET n == PutLatest(m, k, t)
           IN  /\ DOMAIN n = DOMAIN m \cup {k}
               /\ n[k] >= t /\ n[k] \in Nat
               /\ n[k] = t \/ (k \in DOMAIN m /\ n[k] = m[k])
               /\ \A x \in DOMAIN m : n[x] >= m[x] /\ n[x] \in Nat
               /\ \A x \in DOMAIN m : x # k => n[x] = m[x]
  <1>1. CASE k \in DOMAIN m /\ m[k] > t
    BY <1>1 DEF PutLatest, Put
  <1>2. CASE ~(k \in DOMAIN m /\ m[k] > t)
    <2>1. PutLatest(m, k, t) = Put(m, k, t)
      BY <1>2 DEF PutLatest
    <2>2. QED BY <1>2, <2>1 DEF Put
  <1>3. QED BY <1>1, <1>2

-----------------------------------------------------------------------------
(* Types. *)

LEMMA NetInitTypes == NetInit => NetTypes
  <1> SUFFICES ASSUME NetInit PROVE NetTypes OBVIOUS
  <1>1. \A size \in Nat : Expiries(NoEntry, size)
    BY NoEntryFacts, FS_EmptySet DEF Expiries
  <1>2. TableTypes
    BY <1>1, NoEntryFacts, NetworkAssumption DEF NetInit, TableTypes
  <1>3. FrameTypes
    BY NetworkAssumption DEF NetInit, FrameTypes, Programs
  <1>4. QED BY <1>2, <1>3 DEF NetTypes

(* A moving frame keeps its type, and so do tables that are not touched. *)
LEMMA MovesTyped ==
    ASSUME NetTypes, NEW who \in Programs, Moves(who), frame'[who].now <= clock, UNCHANGED clock
    PROVE  FrameTypes'
  BY DEF NetTypes, FrameTypes, Moves

LEMMA AdvancesTyped ==
    ASSUME NetTypes, NEW who \in Programs, frame[who].pc \in Pcs, NEW pc, Advances(who, pc),
           UNCHANGED clock
    PROVE  FrameTypes'
  <1>1. frame[who].now \in 0..clock /\ clock \in Nat
    BY RunningPc DEF NetTypes, FrameTypes
  <1>2. Moves(who) /\ frame'[who].now <= clock
    BY <1>1 DEF Advances
  <1>3. QED BY <1>2, MovesTyped

LEMMA NowTyped ==
    ASSUME NetTypes, NEW who \in Programs, Moves(who), frame'[who].now = clock, UNCHANGED clock
    PROVE  FrameTypes'
  <1>1. frame'[who].now <= clock
    BY DEF NetTypes, FrameTypes
  <1>2. QED BY <1>1, MovesTyped

LEMMA TablesTyped ==
    ASSUME NetTypes, UNCHANGED <<clock, tables, reports, opened>>
    PROVE  TableTypes'
  BY DEF NetTypes, TableTypes, tables, Expiries

LEMMA ExpiryPut ==
    ASSUME NEW m, NEW k, NEW t \in Nat, NEW size \in Nat, NEW n \in LruPuts(m, k, t, size),
           Expiries(m, size)
    PROVE  Expiries(n, size)
  <1>1. IsFiniteSet(DOMAIN n) /\ Cardinality(DOMAIN n) <= size
    BY LruPutsSize DEF Expiries
  <1>2. /\ n[k] = t
        /\ \A x \in DOMAIN n : x # k => x \in DOMAIN m /\ n[x] = m[x]
    BY LruPutsFacts
  <1>3. QED BY <1>1, <1>2 DEF Expiries

LEMMA HistoryPut ==
    ASSUME NEW m, NEW k, NEW now \in Nat, NEW t \in 0..now,
           \A x \in DOMAIN m : m[x] \in 0..now
    PROVE  \A x \in DOMAIN PutLatest(m, k, t) : PutLatest(m, k, t)[x] \in 0..now
  <1> DEFINE n == PutLatest(m, k, t)
  <1>1. t \in Nat /\ \A x \in DOMAIN m : m[x] \in Nat
    OBVIOUS
  <1>2. /\ DOMAIN n = DOMAIN m \cup {k}
        /\ n[k] = t \/ (k \in DOMAIN m /\ n[k] = m[k])
        /\ \A x \in DOMAIN m : x # k => n[x] = m[x]
    BY <1>1, PutLatestFacts
  <1> HIDE DEF n
  <1>3. \A x \in DOMAIN n : n[x] \in 0..now
    BY <1>2
  <1>4. QED BY <1>3 DEF n

LEMMA OpensTyped ==
    ASSUME NetTypes, NEW cpu \in Cpus, frame[cpu].pc \in Pcs, Opens(cpu),
           UNCHANGED <<clock, NETWORK_EVENT_DEDUP, REAL_SOURCE_MAP, INCOMPLETE_PACKETS, reports>>
    PROVE  NetTypes'
  <1>1. cpu \in Programs /\ frame[cpu].now \in 0..clock /\ clock \in Nat
    BY RunningPc DEF Programs, NetTypes, FrameTypes
  <1>2. FrameTypes'
    BY <1>1, NowTyped DEF Opens, Judges
  <1>3. Expiries(UDP_FLOWS, FlowSize)'
    <2>1. frame[cpu].now + UDP_FLOW_TTL \in Nat /\ FlowSize \in Nat
      BY <1>1, NetworkAssumption
    <2>2. QED BY <2>1, ExpiryPut DEF NetTypes, TableTypes, Opens
  <1>4. \A ends \in DOMAIN opened' : opened'[ends] \in 0..clock
    BY <1>1, HistoryPut DEF NetTypes, TableTypes, Opens
  <1>5. TableTypes'
    BY <1>3, <1>4 DEF NetTypes, TableTypes, Expiries
  <1>6. QED BY <1>2, <1>5 DEF NetTypes

LEMMA RenewsTyped ==
    ASSUME NetTypes, NEW who \in Programs, frame[who].pc \in Pcs, Renews(who),
           UNCHANGED <<clock, UDP_FLOWS, REAL_SOURCE_MAP, INCOMPLETE_PACKETS, reports, opened>>
    PROVE  NetTypes'
  <1>1. frame[who].now \in 0..clock /\ clock \in Nat
    BY RunningPc DEF NetTypes, FrameTypes
  <1>2. FrameTypes'
    BY AdvancesTyped DEF Renews
  <1>3. Expiries(NETWORK_EVENT_DEDUP, DedupSize)'
    <2>1. frame[who].now + NETWORK_DEDUP_TTL \in Nat /\ DedupSize \in Nat
      BY <1>1, NetworkAssumption
    <2>2. QED BY <2>1, ExpiryPut DEF NetTypes, TableTypes, Renews
  <1>4. TableTypes'
    BY <1>3 DEF NetTypes, TableTypes, Expiries
  <1>5. QED BY <1>2, <1>4 DEF NetTypes

LEMMA ArriveTyped ==
    ASSUME NetTypes, NEW cpu \in Cpus, NEW pkt \in SkBuff, Arrive(cpu, pkt) PROVE NetTypes'
  <1>1. cpu \in Programs /\ Moves(cpu) /\ frame'[cpu].now = clock
    BY ArriveStep DEF Programs, Settles
  <1>2. UNCHANGED <<clock, tables, reports, opened>>
    BY ArriveStep
  <1>3. QED BY <1>1, <1>2, NowTyped, TablesTyped DEF NetTypes

LEMMA NetStepTyped == ASSUME NetTypes, NetStep PROVE NetTypes'
  <1>1. ASSUME NEW who \in Programs, frame[who].pc \in Pcs, NEW pc, Advances(who, pc),
               UNCHANGED <<clock, tables, reports, opened>>
        PROVE  NetTypes'
    BY <1>1, AdvancesTyped, TablesTyped DEF NetTypes
  <1>2. ASSUME NEW cpu \in Cpus, PacketStep(cpu) PROVE NetTypes'
    <2>0. cpu \in Programs
      BY DEF Programs
    <2>1. CASE LookupRealSource(cpu)
      <3>1. /\ frame[cpu].pc \in Pcs
            /\ UNCHANGED <<clock, tables, reports, opened>>
            /\ \/ Moves(cpu) /\ frame'[cpu].now = clock
               \/ Advances(cpu, "park")
        BY <2>1, LookupRealSourceStep DEF Pcs, Settles
      <3>2. FrameTypes'
        BY <2>0, <3>1, NowTyped, AdvancesTyped
      <3>3. QED BY <3>1, <3>2, TablesTyped DEF NetTypes
    <2>2. CASE Park(cpu)
      <3>1. /\ frame[cpu].pc \in Pcs /\ frame[cpu].pkt \in SkBuff
            /\ INCOMPLETE_PACKETS' \in LruPuts(INCOMPLETE_PACKETS, ConnectionKey(frame[cpu].pkt),
                                               frame[cpu].pkt, ProxyMapSize)
            /\ Advances(cpu, "done")
            /\ UNCHANGED <<clock, UDP_FLOWS, NETWORK_EVENT_DEDUP, REAL_SOURCE_MAP, reports, opened>>
        BY <2>2, ParkStep DEF Pcs
      <3>2. \A key \in DOMAIN INCOMPLETE_PACKETS' : INCOMPLETE_PACKETS'[key] \in SkBuff
        <4> DEFINE k == ConnectionKey(frame[cpu].pkt)
        <4>1. /\ INCOMPLETE_PACKETS'[k] = frame[cpu].pkt
              /\ \A x \in DOMAIN INCOMPLETE_PACKETS' : x # k =>
                    x \in DOMAIN INCOMPLETE_PACKETS /\ INCOMPLETE_PACKETS'[x] = INCOMPLETE_PACKETS[x]
          BY <3>1, LruPutsFacts
        <4> HIDE DEF k
        <4>2. QED BY <3>1, <4>1 DEF NetTypes, TableTypes
      <3>3. TableTypes'
        BY <3>1, <3>2 DEF NetTypes, TableTypes, Expiries
      <3>4. FrameTypes'
        BY <2>0, <3>1, AdvancesTyped
      <3>5. QED BY <3>3, <3>4 DEF NetTypes
    <2>3. CASE FlowInsert(cpu)
      <3>1. frame[cpu].pc \in Pcs
        BY <2>3, FlowInsertStep DEF Pcs
      <3>2. CASE Opens(cpu)
        BY <2>3, <3>1, <3>2, FlowInsertStep, OpensTyped
      <3>3. CASE Advances(cpu, "flow_lookup") /\ UNCHANGED <<UDP_FLOWS, opened>>
        BY <1>1, <2>0, <2>3, <3>1, <3>3, FlowInsertStep DEF tables
      <3>4. QED BY <2>3, <3>2, <3>3, FlowInsertStep
    <2>4. CASE FlowLookup(cpu)
      <3>1. /\ frame[cpu].pc \in Pcs /\ UNCHANGED <<clock, tables, reports, opened>>
            /\ \E pc \in Pcs : Advances(cpu, pc)
        BY <2>4, FlowLookupStep DEF Pcs
      <3>2. QED BY <1>1, <2>0, <3>1
    <2>5. CASE FlowUpdate(cpu)
      BY <2>5, FlowUpdateStep, OpensTyped DEF Pcs
    <2>6. QED BY <1>2, <2>1, <2>2, <2>3, <2>4, <2>5 DEF PacketStep
  <1>3. ASSUME NEW who \in Programs, DedupStep(who) PROVE NetTypes'
    <2>1. CASE DedupInsert(who)
      <3>1. frame[who].pc \in Pcs
        BY <2>1, DedupInsertStep DEF Pcs
      <3>2. CASE Renews(who)
        BY <2>1, <3>1, <3>2, DedupInsertStep, RenewsTyped
      <3>3. CASE Advances(who, "dedup_lookup") /\ UNCHANGED NETWORK_EVENT_DEDUP
        BY <1>1, <2>1, <3>1, <3>3, DedupInsertStep DEF tables
      <3>4. QED BY <2>1, <3>2, <3>3, DedupInsertStep
    <2>2. CASE DedupLookup(who)
      <3>1. /\ frame[who].pc \in Pcs /\ UNCHANGED <<clock, tables, reports, opened>>
            /\ \E pc \in Pcs : Advances(who, pc)
        BY <2>2, DedupLookupStep DEF Pcs
      <3>2. QED BY <1>1, <3>1
    <2>3. CASE DedupUpdate(who)
      BY <2>3, DedupUpdateStep, RenewsTyped DEF Pcs
    <2>4. CASE Send(who)
      <3>1. /\ frame[who].pc \in Pcs /\ Advances(who, "done") /\ UNCHANGED <<clock, tables, opened>>
            /\ reports' = PutLatest(reports, NetworkIdentity(frame[who].pkt), frame[who].now)
        BY <2>4, SendStep DEF Pcs
      <3>2. frame[who].now \in 0..clock /\ clock \in Nat
        BY <3>1, RunningPc DEF NetTypes, FrameTypes
      <3>3. \A id \in DOMAIN reports' : reports'[id] \in 0..clock
        BY <3>1, <3>2, HistoryPut DEF NetTypes, TableTypes
      <3>4. TableTypes'
        BY <3>1, <3>3 DEF NetTypes, TableTypes, tables, Expiries
      <3>5. QED BY <3>1, <3>4, AdvancesTyped DEF NetTypes
    <2>5. QED BY <1>3, <2>1, <2>2, <2>3, <2>4 DEF DedupStep
  <1>4. CASE Tick
    <2>1. clock' \in 0..MaxTime /\ clock' = clock + 1 /\ clock \in Nat
      BY <1>4, NetworkAssumption DEF Tick, NetTypes, FrameTypes
    <2>2. UNCHANGED <<tables, frame, reports, opened>>
      BY <1>4 DEF Tick
    <2>3. FrameTypes'
      <3>1. ASSUME NEW who \in Programs, frame[who] # Idle PROVE frame[who].now <= clock'
        <4>1. frame[who].now \in Nat /\ frame[who].now <= clock
          BY <3>1 DEF NetTypes, FrameTypes, Running
        <4>2. QED BY <2>1, <4>1
      <3>2. QED BY <2>1, <2>2, <3>1 DEF NetTypes, FrameTypes
    <2>4. TableTypes'
      BY <2>1, <2>2 DEF NetTypes, TableTypes, tables, Expiries
    <2>5. QED BY <2>3, <2>4 DEF NetTypes
  <1>5. QED BY <1>2, <1>3, <1>4 DEF NetStep, Programs

LEMMA NetNextTypes == NetTypes /\ [NetNext]_netVars => NetTypes'
  <1> SUFFICES ASSUME NetTypes, [NetNext]_netVars PROVE NetTypes' OBVIOUS
  <1>1. CASE UNCHANGED netVars
    BY <1>1 DEF netVars, tables, NetTypes, FrameTypes, TableTypes, Expiries
  <1>2. QED BY <1>1, ArriveTyped, NetStepTyped, NetworkAssumption DEF NetNext

(* Frames, clock and LRU maps keep their types: no map outgrows its size and  *)
(* no program's `now` is ahead of the clock, on any number of CPUs.          *)
THEOREM NetTypeCorrect == NetSpec => []NetTypeOK
  <1>1. NetTypes => NetTypeOK
    BY DEF NetTypes, FrameTypes, TableTypes, Expiries, NetTypeOK, Programs, Running
  <1>2. QED BY <1>1, NetInitTypes, NetNextTypes, PTL DEF NetSpec

-----------------------------------------------------------------------------
(* Deduplication. *)

\* What suppresses an event in this frame has been reported.
Justified(who) ==
    LET f  == frame[who]
        id == NetworkIdentity(f.pkt)
    IN  /\ f.pc = "dedup_lookup" => ReportedIn(id, 0..MaxTime)
        /\ f.pc = "done" /\ f.fate = "suppressed" =>
              ReportedIn(id, (f.now - NETWORK_DEDUP_TTL)..MaxTime)
        /\ f.pc = "done" /\ f.fate = "dedup_missed" => ReportedIn(id, 0..MaxTime)

\* An entry of the dedup map stands for a report of its identity, made or about
\* to be made, a lifetime before it expires.
EntriesReported ==
    \A id \in DOMAIN NETWORK_EVENT_DEDUP :
        ReportedIn(id, (NETWORK_EVENT_DEDUP[id] - NETWORK_DEDUP_TTL)..MaxTime)

DedupInv == EntriesReported /\ \A who \in Programs : Justified(who)

\* A report may be followed by a later one, and is never taken back.
ReportsStay ==
    \A id : \A t \in Int : ReportedIn(id, t..MaxTime) => ReportedIn(id, t..MaxTime)'

LEMMA UnsentStay ==
    ASSUME NetTypes, NEW who \in Programs, Moves(who), frame[who].pc # "send", UNCHANGED reports
    PROVE  ReportsStay
  BY DEF ReportsStay, ReportedIn, Moves, Programs

LEMMA SentStay ==
    ASSUME NetTypes, NetTypes', NEW who \in Programs, Moves(who), frame[who].pc = "send",
           reports' = PutLatest(reports, NetworkIdentity(frame[who].pkt), frame[who].now)
    PROVE  ReportsStay
  <1> DEFINE mine == NetworkIdentity(frame[who].pkt)
  <1> SUFFICES ASSUME NEW id, NEW t \in Int, ReportedIn(id, t..MaxTime)
               PROVE  ReportedIn(id, t..MaxTime)'
    BY DEF ReportsStay
  <1>1. frame[who].now \in Nat /\ \A x \in DOMAIN reports : reports[x] \in Nat
    BY RunningPc DEF Pcs, Running, NetTypes, FrameTypes, TableTypes
  <1>2. /\ DOMAIN reports' = DOMAIN reports \cup {mine}
        /\ reports'[mine] >= frame[who].now
        /\ \A x \in DOMAIN reports : reports'[x] >= reports[x]
    BY <1>1, PutLatestFacts
  <1>3. \A x \in DOMAIN reports' : reports'[x] \in Nat /\ reports'[x] <= MaxTime
    BY NetworkAssumption DEF NetTypes, FrameTypes, TableTypes
  <1>4. CASE id \in DOMAIN reports /\ reports[id] \in t..MaxTime
    <2>1. id \in DOMAIN reports' /\ reports'[id] \in t..MaxTime
      BY <1>1, <1>2, <1>3, <1>4, NetworkAssumption
    <2>2. QED BY <2>1 DEF ReportedIn
  <1>5. CASE frame[who].pc = "send" /\ mine = id /\ frame[who].now \in t..MaxTime
    <2>1. id \in DOMAIN reports' /\ reports'[id] \in t..MaxTime
      BY <1>1, <1>2, <1>3, <1>5, NetworkAssumption
    <2>2. QED BY <2>1 DEF ReportedIn
  <1>6. ASSUME NEW w \in Programs, w # who, frame[w].pc = "send",
               NetworkIdentity(frame[w].pkt) = id, frame[w].now \in t..MaxTime
        PROVE  ReportedIn(id, t..MaxTime)'
    BY <1>6 DEF Moves, ReportedIn, Programs
  <1>7. QED BY <1>4, <1>5, <1>6 DEF ReportedIn, Programs

(* A step that leaves the dedup map alone keeps the invariant if the frame it *)
(* moves is justified.                                                       *)
LEMMA JustifiedStay ==
    ASSUME NetTypes, DedupInv, ReportsStay, NEW who \in Programs, Moves(who), Justified(who)',
           NEW w \in Programs
    PROVE  Justified(w)'
  <1>1. CASE w = who
    BY <1>1
  <1>2. CASE w # who
    <2>1. frame'[w] = frame[w] /\ Justified(w)
      BY <1>2 DEF Moves, DedupInv
    <2>2. PICK f : f = frame[w]
      OBVIOUS
    <2>3. PICK id : id = NetworkIdentity(f.pkt)
      OBVIOUS
    <2>4. ReportedIn(id, 0..MaxTime) => ReportedIn(id, 0..MaxTime)'
      BY DEF ReportsStay
    <2>5. CASE frame[w] = Idle
      BY <2>1, <2>5 DEF Justified, Idle
    <2>6. CASE frame[w] # Idle
      <3>1. f.now - NETWORK_DEDUP_TTL \in Int
        BY <2>2, <2>6, NetworkAssumption DEF NetTypes, FrameTypes, Running
      <3>2. ReportedIn(id, (f.now - NETWORK_DEDUP_TTL)..MaxTime)
               => ReportedIn(id, (f.now - NETWORK_DEDUP_TTL)..MaxTime)'
        BY <3>1 DEF ReportsStay
      <3>3. QED BY <2>1, <2>2, <2>3, <2>4, <3>2 DEF Justified
    <2>7. QED BY <2>5, <2>6
  <1>3. QED BY <1>1, <1>2

LEMMA EntriesStay ==
    ASSUME NetTypes, EntriesReported, ReportsStay, UNCHANGED NETWORK_EVENT_DEDUP
    PROVE  EntriesReported'
  <1> SUFFICES ASSUME NEW id \in DOMAIN NETWORK_EVENT_DEDUP
               PROVE  ReportedIn(id, (NETWORK_EVENT_DEDUP[id] - NETWORK_DEDUP_TTL)..MaxTime)'
    BY DEF EntriesReported
  <1>1. PICK t \in Int : t = NETWORK_EVENT_DEDUP[id] - NETWORK_DEDUP_TTL
    BY NetworkAssumption DEF NetTypes, TableTypes, Expiries
  <1>2. ReportedIn(id, t..MaxTime)
    BY <1>1 DEF EntriesReported
  <1>3. ReportedIn(id, t..MaxTime)'
    BY <1>2 DEF ReportsStay
  <1>4. QED BY <1>1, <1>3 DEF ReportedIn

LEMMA DedupStays ==
    ASSUME NetTypes, DedupInv, ReportsStay, NEW who \in Programs, Moves(who), Justified(who)',
           UNCHANGED NETWORK_EVENT_DEDUP
    PROVE  DedupInv'
  BY JustifiedStay, EntriesStay DEF DedupInv

(* The entry of an identity is renewed as its event goes out. *)
LEMMA RenewsKeeps ==
    ASSUME NetTypes, NetTypes', DedupInv, NEW who \in Programs,
           frame[who].pc \in {"dedup_insert", "dedup_update"},
           Renews(who), UNCHANGED <<clock, reports>>
    PROVE  DedupInv'
  <1> DEFINE mine == NetworkIdentity(frame[who].pkt)
             until == frame[who].now + NETWORK_DEDUP_TTL
  <1>1. /\ Moves(who) /\ frame'[who].pc = "send" /\ frame'[who].pkt = frame[who].pkt
        /\ frame'[who].now = frame[who].now
    BY DEF Renews, Advances
  <1>2. frame[who].now \in 0..clock /\ clock \in 0..MaxTime
    BY RunningPc DEF Pcs, NetTypes, FrameTypes
  <1>3. ReportsStay
    BY <1>1, UnsentStay
  <1>4. Justified(who)'
    BY <1>1 DEF Justified
  <1>5. /\ NETWORK_EVENT_DEDUP'[mine] = until
        /\ \A x \in DOMAIN NETWORK_EVENT_DEDUP' : x # mine =>
              /\ x \in DOMAIN NETWORK_EVENT_DEDUP
              /\ NETWORK_EVENT_DEDUP'[x] = NETWORK_EVENT_DEDUP[x]
    BY LruPutsFacts DEF Renews
  <1>6. ASSUME NEW id \in DOMAIN NETWORK_EVENT_DEDUP'
        PROVE  ReportedIn(id, (NETWORK_EVENT_DEDUP[id] - NETWORK_DEDUP_TTL)..MaxTime)'
    <2>1. CASE id = mine
      <3>1. NETWORK_EVENT_DEDUP'[id] - NETWORK_DEDUP_TTL = frame'[who].now
        BY <1>1, <1>2, <1>5, <2>1, NetworkAssumption
      <3>2. frame'[who].now \in frame'[who].now..MaxTime
        BY <1>1, <1>2, NetworkAssumption
      <3>3. QED BY <1>1, <2>1, <3>1, <3>2 DEF ReportedIn, Programs, NetworkIdentity
    <2>2. CASE id # mine
      <3>1. id \in DOMAIN NETWORK_EVENT_DEDUP /\ NETWORK_EVENT_DEDUP'[id] = NETWORK_EVENT_DEDUP[id]
        BY <1>5, <1>6, <2>2
      <3>2. PICK t \in Int : t = NETWORK_EVENT_DEDUP[id] - NETWORK_DEDUP_TTL
        BY <3>1, NetworkAssumption DEF NetTypes, TableTypes, Expiries
      <3>3. ReportedIn(id, t..MaxTime)
        BY <3>1, <3>2 DEF DedupInv, EntriesReported
      <3>4. ReportedIn(id, t..MaxTime)'
        BY <1>3, <3>3 DEF ReportsStay
      <3>5. QED BY <3>1, <3>2, <3>4 DEF ReportedIn
    <2>3. QED BY <2>1, <2>2
  <1>7. EntriesReported'
    BY <1>6 DEF EntriesReported
  <1>8. QED BY <1>1, <1>3, <1>4, <1>7, JustifiedStay DEF DedupInv

(* A frame outside the dedup lookup needs no justification. *)
LEMMA NothingToJustify ==
    ASSUME NEW who \in Programs,
           \/ frame'[who].pc \notin {"dedup_lookup", "done"}
           \/ frame'[who].pc = "done" /\ frame'[who].fate \notin {"suppressed", "dedup_missed"}
    PROVE  Justified(who)'
  BY DEF Justified

(* A step that sends nothing, leaves the dedup map alone and suppresses       *)
(* nothing keeps the invariant.                                              *)
LEMMA QuietKeeps ==
    ASSUME NetTypes, DedupInv, NEW who \in Programs, Moves(who), frame[who].pc # "send",
           UNCHANGED <<NETWORK_EVENT_DEDUP, reports>>,
           \/ frame'[who].pc \notin {"dedup_lookup", "done"}
           \/ frame'[who].pc = "done" /\ frame'[who].fate \notin {"suppressed", "dedup_missed"}
    PROVE  DedupInv'
  BY UnsentStay, NothingToJustify, DedupStays

LEMMA ArriveKeepsDedup ==
    ASSUME NetTypes, DedupInv, NEW cpu \in Cpus, NEW pkt \in SkBuff, Arrive(cpu, pkt)
    PROVE  DedupInv'
  <1>1. /\ cpu \in Programs /\ Moves(cpu) /\ frame[cpu].pc # "send"
        /\ UNCHANGED <<NETWORK_EVENT_DEDUP, reports>>
    BY ArriveStep DEF Programs, Settles, tables
  <1>2. \/ frame'[cpu].pc \in {"proxy", "flow_insert", "dedup_insert"}
        \/ frame'[cpu].pc = "done" /\ frame'[cpu].fate = "ignored"
    BY ArriveStep DEF Settles
  <1>3. QED BY <1>1, <1>2, QuietKeeps

(* An entry that is there says that its identity was reported at some time. *)
LEMMA EntryWasReported ==
    ASSUME NetTypes, EntriesReported, NEW id \in DOMAIN NETWORK_EVENT_DEDUP
    PROVE  ReportedIn(id, 0..MaxTime)
  <1>1. ReportedIn(id, (NETWORK_EVENT_DEDUP[id] - NETWORK_DEDUP_TTL)..MaxTime)
    BY DEF EntriesReported
  <1>2. NETWORK_EVENT_DEDUP[id] - NETWORK_DEDUP_TTL \in Int
    BY NetworkAssumption DEF NetTypes, TableTypes, Expiries
  <1>3. CASE id \in DOMAIN reports
              /\ reports[id] \in (NETWORK_EVENT_DEDUP[id] - NETWORK_DEDUP_TTL)..MaxTime
    <2>1. reports[id] \in 0..MaxTime
      BY <1>3, NetworkAssumption DEF NetTypes, FrameTypes, TableTypes
    <2>2. QED BY <1>3, <2>1 DEF ReportedIn
  <1>4. ASSUME NEW who \in Programs, frame[who].pc = "send", NetworkIdentity(frame[who].pkt) = id
        PROVE  ReportedIn(id, 0..MaxTime)
    <2>1. frame[who].now \in 0..MaxTime
      BY <1>4, RunningPc, NetworkAssumption DEF Pcs, NetTypes, FrameTypes
    <2>2. QED BY <1>4, <2>1 DEF ReportedIn, Programs
  <1>5. QED BY <1>1, <1>3, <1>4 DEF ReportedIn, Programs

LEMMA DedupStepKeeps ==
    ASSUME NetTypes, NetTypes', DedupInv, NEW who \in Programs, DedupStep(who)
    PROVE  DedupInv'
  <1> DEFINE id == NetworkIdentity(frame[who].pkt)
  <1>1. CASE DedupInsert(who)
    <2>1. /\ frame[who].pc = "dedup_insert" /\ UNCHANGED <<clock, reports>>
          /\ \/ /\ id \in DOMAIN NETWORK_EVENT_DEDUP
                /\ Advances(who, "dedup_lookup") /\ UNCHANGED NETWORK_EVENT_DEDUP
             \/ Renews(who)
      BY <1>1, DedupInsertStep
    <2>2. CASE Renews(who)
      BY <2>1, <2>2, RenewsKeeps
    <2>3. CASE /\ id \in DOMAIN NETWORK_EVENT_DEDUP
               /\ Advances(who, "dedup_lookup") /\ UNCHANGED NETWORK_EVENT_DEDUP
      <3>1. /\ Moves(who) /\ frame'[who].pc = "dedup_lookup" /\ frame'[who].pkt = frame[who].pkt
        BY <2>3 DEF Advances
      <3>2. ReportsStay
        BY <2>1, <3>1, UnsentStay
      <3>3. PICK i : i = id
        OBVIOUS
      <3>4. ReportedIn(i, 0..MaxTime)
        BY <2>3, <3>3, EntryWasReported DEF DedupInv
      <3>5. ReportedIn(i, 0..MaxTime)'
        BY <3>2, <3>4 DEF ReportsStay
      <3>6. Justified(who)'
        BY <3>1, <3>3, <3>5 DEF Justified
      <3>7. QED BY <2>3, <3>1, <3>2, <3>6, DedupStays
    <2>4. QED BY <2>1, <2>2, <2>3
  <1>2. CASE DedupLookup(who)
    <2>1. frame[who].pc = "dedup_lookup" /\ UNCHANGED <<clock, tables, reports, opened>>
      BY <1>2, DedupLookupStep
    <2>2. UNCHANGED NETWORK_EVENT_DEDUP
      BY <2>1 DEF tables
    <2>3. CASE Advances(who, "dedup_update")
      BY <2>1, <2>2, <2>3, QuietKeeps DEF Advances
    <2>4. CASE Advances(who, "done") /\ frame'[who].fate = "dedup_missed"
      <3>1. Moves(who) /\ frame'[who].pc = "done" /\ frame'[who].pkt = frame[who].pkt
        BY <2>4 DEF Advances
      <3>2. ReportsStay
        BY <2>1, <3>1, UnsentStay
      <3>3. PICK i : i = id
        OBVIOUS
      <3>4. ReportedIn(i, 0..MaxTime)
        BY <2>1, <3>3 DEF DedupInv, Justified
      <3>5. ReportedIn(i, 0..MaxTime)'
        BY <3>2, <3>4 DEF ReportsStay
      <3>6. Justified(who)'
        BY <2>4, <3>1, <3>3, <3>5 DEF Justified
      <3>7. QED BY <2>2, <3>1, <3>2, <3>6, DedupStays
    <2>5. CASE /\ Advances(who, "done") /\ frame'[who].fate = "suppressed"
               /\ id \in DOMAIN NETWORK_EVENT_DEDUP
               /\ frame[who].now <= NETWORK_EVENT_DEDUP[id]
      <3>1. /\ Moves(who) /\ frame'[who].pc = "done" /\ frame'[who].pkt = frame[who].pkt
            /\ frame'[who].now = frame[who].now
        BY <2>5 DEF Advances
      <3>2. ReportsStay
        BY <2>1, <3>1, UnsentStay
      <3>3. PICK i : i = id
        OBVIOUS
      <3>4. PICK t : t = frame[who].now - NETWORK_DEDUP_TTL
        OBVIOUS
      <3>5. /\ frame[who].now \in Nat /\ NETWORK_EVENT_DEDUP[i] \in Nat
            /\ t \in Int /\ NETWORK_DEDUP_TTL \in Nat
        BY <2>1, <2>5, <3>3, <3>4, RunningPc, NetworkAssumption
        DEF Pcs, Running, NetTypes, TableTypes, Expiries
      <3>6. ReportedIn(i, (NETWORK_EVENT_DEDUP[i] - NETWORK_DEDUP_TTL)..MaxTime)
        BY <2>5, <3>3 DEF DedupInv, EntriesReported
      <3>7. \A x \in (NETWORK_EVENT_DEDUP[i] - NETWORK_DEDUP_TTL)..MaxTime : x \in t..MaxTime
        BY <2>5, <3>3, <3>4, <3>5, NetworkAssumption
      <3>8. ReportedIn(i, t..MaxTime)
        BY <3>6, <3>7 DEF ReportedIn
      <3>9. ReportedIn(i, t..MaxTime)'
        BY <3>2, <3>5, <3>8 DEF ReportsStay
      <3>10. Justified(who)'
        BY <2>5, <3>1, <3>3, <3>4, <3>9 DEF Justified
      <3>11. QED BY <2>2, <3>1, <3>2, <3>10, DedupStays
    <2>6. QED BY <1>2, <2>3, <2>4, <2>5, DedupLookupStep
  <1>3. CASE DedupUpdate(who)
    BY <1>3, DedupUpdateStep, RenewsKeeps
  <1>4. CASE Send(who)
    <2>1. /\ frame[who].pc = "send" /\ UNCHANGED NETWORK_EVENT_DEDUP
          /\ reports' = PutLatest(reports, id, frame[who].now)
          /\ Moves(who) /\ frame'[who].pc = "done" /\ frame'[who].fate = "sent"
      BY <1>4, SendStep DEF tables, Advances
    <2>2. ReportsStay
      BY <2>1, SentStay
    <2>3. Justified(who)'
      BY <2>1, NothingToJustify
    <2>4. QED BY <2>1, <2>2, <2>3, DedupStays
  <1>5. QED BY <1>1, <1>2, <1>3, <1>4 DEF DedupStep

LEMMA PacketStepKeepsDedup ==
    ASSUME NetTypes, DedupInv, NEW cpu \in Cpus, PacketStep(cpu)
    PROVE  DedupInv'
  <1>0. cpu \in Programs
    BY DEF Programs
  <1>1. ASSUME Moves(cpu), frame[cpu].pc # "send", UNCHANGED <<NETWORK_EVENT_DEDUP, reports>>,
               \/ frame'[cpu].pc \notin {"dedup_lookup", "done"}
               \/ frame'[cpu].pc = "done" /\ frame'[cpu].fate \notin {"suppressed", "dedup_missed"}
        PROVE  DedupInv'
    BY <1>0, <1>1, QuietKeeps
  <1>2. CASE LookupRealSource(cpu)
    BY <1>1, <1>2, LookupRealSourceStep DEF Settles, Advances, tables
  <1>3. CASE Park(cpu)
    BY <1>1, <1>3, ParkStep DEF Advances
  <1>4. CASE FlowInsert(cpu)
    BY <1>1, <1>4, FlowInsertStep DEF Advances, Opens, Judges
  <1>5. CASE FlowLookup(cpu)
    BY <1>1, <1>5, FlowLookupStep DEF Advances, tables
  <1>6. CASE FlowUpdate(cpu)
    BY <1>1, <1>6, FlowUpdateStep DEF Opens, Judges
  <1>7. QED BY <1>2, <1>3, <1>4, <1>5, <1>6 DEF PacketStep

(* With the frames, the dedup map and the reports as they were, so is the     *)
(* invariant.                                                                *)
LEMMA DedupUnchanged ==
    ASSUME DedupInv, UNCHANGED <<frame, reports, NETWORK_EVENT_DEDUP>>
    PROVE  DedupInv'
  BY DEF DedupInv, EntriesReported, Justified, ReportedIn

LEMMA DedupInitInv == NetInit => DedupInv
  BY NoEntryFacts DEF NetInit, DedupInv, EntriesReported, Justified, Programs, Idle

LEMMA DedupNextInv ==
    NetTypes /\ NetTypes' /\ DedupInv /\ [NetNext]_netVars => DedupInv'
  <1> SUFFICES ASSUME NetTypes, NetTypes', DedupInv, [NetNext]_netVars PROVE DedupInv' OBVIOUS
  <1>1. CASE UNCHANGED netVars
    BY <1>1, DedupUnchanged DEF netVars, tables
  <1>2. CASE Tick
    BY <1>2, DedupUnchanged DEF Tick, tables
  <1>3. QED
    BY <1>1, <1>2, ArriveKeepsDedup, DedupStepKeeps, PacketStepKeepsDedup, NetworkAssumption
    DEF NetNext, NetStep, Programs

(* Deduplication hides nothing: whatever CPUs race on the two maps and        *)
(* whatever is evicted, a suppressed event has a report of the same identity *)
(* no more than a lifetime old, and one whose entry was evicted under it has *)
(* been reported at some time.                                               *)
THEOREM NothingSuppressedUnreported == NetSpec => []SuppressedWasReported
  <1>1. DedupInv => SuppressedWasReported
    BY DEF DedupInv, Justified, SuppressedWasReported, Programs
  <1>2. QED
    BY <1>1, NetInitTypes, NetNextTypes, DedupInitInv, DedupNextInv, PTL DEF NetSpec

-----------------------------------------------------------------------------
(* The verdict. *)

(* normalize_udp_key confuses no two flows: packets with the same key run     *)
(* between the same two endpoints ...                                        *)
LEMMA KeyIsFlow ==
    ASSUME NEW p \in SkBuff, NEW q \in SkBuff, normalize_udp_key(p) = normalize_udp_key(q)
    PROVE  Endpoints(p) = Endpoints(q)
  <1>1. \A r \in SkBuff :
           \/ normalize_udp_key(r) = <<r.src_ip, r.dst_ip, r.src_port, r.dst_port>>
           \/ normalize_udp_key(r) = <<r.dst_ip, r.src_ip, r.dst_port, r.src_port>>
    BY DEF normalize_udp_key
  <1>2. \/ /\ p.src_ip = q.src_ip /\ p.dst_ip = q.dst_ip
           /\ p.src_port = q.src_port /\ p.dst_port = q.dst_port
        \/ /\ p.src_ip = q.dst_ip /\ p.dst_ip = q.src_ip
           /\ p.src_port = q.dst_port /\ p.dst_port = q.src_port
    BY <1>1
  <1>3. QED BY <1>2 DEF Endpoints

(* ... and does not tell a packet from its answer: a UDP flow that the      *)
(* container opened lets the answers in. *)
THEOREM AnswerHasSameKey ==
    ASSUME NEW p \in SkBuff, NEW q \in SkBuff,
           q.src_ip = p.dst_ip, q.dst_ip = p.src_ip,
           q.src_port = p.dst_port, q.dst_port = p.src_port
    PROVE  normalize_udp_key(q) = normalize_udp_key(p)
  BY DEF normalize_udp_key, SkBuff

\* A flow entry stands for a packet between its endpoints that opened the flow a
\* lifetime before the entry expires.
FlowsOpened ==
    \A pkt \in SkBuff :
        normalize_udp_key(pkt) \in DOMAIN UDP_FLOWS =>
            /\ Endpoints(pkt) \in DOMAIN opened
            /\ opened[Endpoints(pkt)] + UDP_FLOW_TTL >= UDP_FLOWS[normalize_udp_key(pkt)]

\* How a frame may come to let its packet pass.
Passed(f) ==
    /\ f.pkt.proto = "udp"
    /\ Endpoints(f.pkt) \in DOMAIN opened
    /\ f.fate = "flow_missed" \/ opened[Endpoints(f.pkt)] >= f.now - UDP_FLOW_TTL

JudgedRight(cpu) ==
    LET f == frame[cpu]
    IN  /\ f.pc \in {"dedup_insert", "dedup_lookup", "dedup_update", "send"} =>
              f.rc = SkbVerdict(f.pkt)
        /\ f.pc \in {"flow_insert", "flow_lookup", "flow_update"} => f.pkt.proto = "udp"
        /\ f.pc \in {"flow_lookup", "flow_update"} => Endpoints(f.pkt) \in DOMAIN opened
        /\ f.pc \in {"proxy", "park"} => f.pkt.src_ip \in ProxyIps
        /\ f.pc = "done" /\ f.rc = 1 /\ ToBlocked(f.pkt) => Passed(f)

VerdictInv == FlowsOpened /\ \A cpu \in Cpus : JudgedRight(cpu)

\* A flow may be opened again, and is never forgotten.
OpenedStay ==
    /\ \A ends \in DOMAIN opened :
          ends \in DOMAIN opened' /\ opened'[ends] \in Nat /\ opened'[ends] >= opened[ends]

LEMMA OpenedUnchanged == ASSUME NetTypes, UNCHANGED opened PROVE OpenedStay
  BY DEF OpenedStay, NetTypes, FrameTypes, TableTypes

LEMMA OthersJudged ==
    ASSUME NetTypes, VerdictInv, OpenedStay, NEW cpu \in Cpus, frame'[cpu] = frame[cpu]
    PROVE  JudgedRight(cpu)'
  <1>0. JudgedRight(cpu) /\ cpu \in Programs
    BY DEF VerdictInv, Programs
  <1>1. CASE frame[cpu] = Idle
    BY <1>1 DEF JudgedRight, Idle
  <1>2. CASE frame[cpu] # Idle
    <2>1. frame[cpu].now \in Nat
      BY <1>0, <1>2 DEF NetTypes, FrameTypes, Running
    <2>2. ASSUME Passed(frame[cpu]) PROVE Passed(frame[cpu])'
      <3>1. Endpoints(frame[cpu].pkt) \in DOMAIN opened
        BY <2>2 DEF Passed
      <3>2. opened[Endpoints(frame[cpu].pkt)] \in Nat
        BY <3>1 DEF NetTypes, FrameTypes, TableTypes
      <3>3. /\ Endpoints(frame[cpu].pkt) \in DOMAIN opened'
            /\ opened'[Endpoints(frame[cpu].pkt)] \in Nat
            /\ opened'[Endpoints(frame[cpu].pkt)] >= opened[Endpoints(frame[cpu].pkt)]
        BY <3>1 DEF OpenedStay
      <3>4. QED BY <2>1, <2>2, <3>2, <3>3, NetworkAssumption DEF Passed
    <2>3. QED BY <1>0, <2>2 DEF JudgedRight, OpenedStay
  <1>3. QED BY <1>1, <1>2

LEMMA VerdictStays ==
    ASSUME NetTypes, VerdictInv, NEW cpu \in Cpus, Moves(cpu), OpenedStay,
           FlowsOpened', JudgedRight(cpu)'
    PROVE  VerdictInv'
  <1>1. ASSUME NEW c \in Cpus PROVE JudgedRight(c)'
    <2>1. CASE c = cpu
      BY <2>1
    <2>2. CASE c # cpu
      BY <2>2, OthersJudged DEF Moves, Programs
    <2>3. QED BY <2>1, <2>2
  <1>2. QED BY <1>1 DEF VerdictInv

(* A flow is opened: its key and its endpoints get the same time. *)
LEMMA OpensKeeps ==
    ASSUME NetTypes, VerdictInv, NEW cpu \in Cpus,
           frame[cpu].pc \in {"flow_insert", "flow_update"}, Opens(cpu)
    PROVE  VerdictInv'
  <1> DEFINE f == frame[cpu]
             k == normalize_udp_key(f.pkt)
             ends == Endpoints(f.pkt)
  <1>0. /\ cpu \in Programs /\ f \in Running /\ f.now \in Nat /\ f.pkt \in SkBuff
        /\ \A x \in DOMAIN opened : opened[x] \in Nat
    BY RunningPc DEF Programs, Pcs, Running, NetTypes, FrameTypes, TableTypes
  <1>1. /\ DOMAIN opened' = DOMAIN opened \cup {ends}
        /\ opened'[ends] >= f.now /\ opened'[ends] \in Nat
        /\ \A x \in DOMAIN opened : opened'[x] >= opened[x] /\ opened'[x] \in Nat
    BY <1>0, PutLatestFacts DEF Opens
  <1>2. OpenedStay
    BY <1>1 DEF OpenedStay
  <1>3. /\ UDP_FLOWS'[k] = f.now + UDP_FLOW_TTL
        /\ \A x \in DOMAIN UDP_FLOWS' : x # k =>
              x \in DOMAIN UDP_FLOWS /\ UDP_FLOWS'[x] = UDP_FLOWS[x]
    BY LruPutsFacts DEF Opens
  <1>4. FlowsOpened'
    <2> SUFFICES ASSUME NEW pkt \in SkBuff, normalize_udp_key(pkt) \in DOMAIN UDP_FLOWS'
                 PROVE  /\ Endpoints(pkt) \in DOMAIN opened'
                        /\ opened'[Endpoints(pkt)] + UDP_FLOW_TTL
                              >= UDP_FLOWS'[normalize_udp_key(pkt)]
      BY DEF FlowsOpened
    <2>1. CASE normalize_udp_key(pkt) = k
      <3>1. Endpoints(pkt) = ends
        BY <1>0, <2>1, KeyIsFlow
      <3> HIDE DEF f, k, ends
      <3>2. QED BY <1>0, <1>1, <1>3, <2>1, <3>1, NetworkAssumption
    <2>2. CASE normalize_udp_key(pkt) # k
      <3>1. /\ normalize_udp_key(pkt) \in DOMAIN UDP_FLOWS
            /\ UDP_FLOWS'[normalize_udp_key(pkt)] = UDP_FLOWS[normalize_udp_key(pkt)]
        BY <1>3, <2>2
      <3>2. /\ Endpoints(pkt) \in DOMAIN opened
            /\ opened[Endpoints(pkt)] + UDP_FLOW_TTL >= UDP_FLOWS[normalize_udp_key(pkt)]
        BY <3>1 DEF VerdictInv, FlowsOpened
      <3>3. opened[Endpoints(pkt)] \in Nat /\ UDP_FLOWS[normalize_udp_key(pkt)] \in Nat
        BY <1>0, <3>1, <3>2 DEF NetTypes, TableTypes, Expiries
      <3>4. QED BY <1>1, <3>1, <3>2, <3>3, NetworkAssumption
    <2>3. QED BY <2>1, <2>2
  <1>5. Moves(cpu) /\ JudgedRight(cpu)'
    BY DEF Opens, Judges, JudgedRight
  <1>6. QED BY <1>2, <1>4, <1>5, VerdictStays

(* A step that leaves the flows alone keeps the invariant if the frame it     *)
(* moves is judged right.                                                    *)
LEMMA FlowsUntouched ==
    ASSUME NetTypes, VerdictInv, NEW cpu \in Cpus, Moves(cpu), UNCHANGED <<UDP_FLOWS, opened>>,
           JudgedRight(cpu)'
    PROVE  VerdictInv'
  <1>1. FlowsOpened'
    BY DEF VerdictInv, FlowsOpened
  <1>2. QED BY <1>1, OpenedUnchanged, VerdictStays

LEMMA SettlesRight == ASSUME NEW cpu \in Cpus, NEW pkt, Settles(cpu, pkt) PROVE JudgedRight(cpu)'
  BY DEF Settles, JudgedRight

LEMMA ArriveKeepsVerdict ==
    ASSUME NetTypes, VerdictInv, NEW cpu \in Cpus, NEW pkt \in SkBuff, Arrive(cpu, pkt)
    PROVE  VerdictInv'
  <1>1. UNCHANGED <<UDP_FLOWS, opened>>
    BY ArriveStep DEF tables
  <1>2. CASE Settles(cpu, pkt)
    <2>1. Moves(cpu)
      BY <1>2 DEF Settles
    <2>2. QED BY <1>1, <1>2, <2>1, SettlesRight, FlowsUntouched
  <1>3. CASE /\ Moves(cpu) /\ frame'[cpu].pc = "proxy" /\ frame'[cpu].rc = 1
             /\ frame'[cpu].pkt = pkt /\ frame'[cpu].now = clock
             /\ pkt.src_ip \in ProxyIps
    <2>1. JudgedRight(cpu)'
      BY <1>3 DEF JudgedRight
    <2>2. QED BY <1>1, <1>3, <2>1, FlowsUntouched
  <1>4. QED BY <1>2, <1>3, ArriveStep

LEMMA PacketStepKeepsVerdict ==
    ASSUME NetTypes, VerdictInv, NEW cpu \in Cpus, PacketStep(cpu)
    PROVE  VerdictInv'
  <1>0. JudgedRight(cpu) /\ cpu \in Programs
    BY DEF VerdictInv, Programs
  <1>1. CASE LookupRealSource(cpu)
    <2>1. UNCHANGED <<UDP_FLOWS, opened>> /\ frame[cpu].pc = "proxy"
      BY <1>1, LookupRealSourceStep DEF tables
    <2>2. Moves(cpu) /\ JudgedRight(cpu)'
      <3>1. CASE Advances(cpu, "park")
        BY <1>0, <2>1, <3>1 DEF Advances, JudgedRight
      <3>2. ASSUME NEW pkt, Settles(cpu, pkt) PROVE Moves(cpu) /\ JudgedRight(cpu)'
        BY <3>2, SettlesRight DEF Settles
      <3>3. QED BY <1>1, <3>1, <3>2, LookupRealSourceStep
    <2>3. QED BY <2>1, <2>2, FlowsUntouched
  <1>2. CASE Park(cpu)
    <2>1. /\ frame[cpu].pc = "park" /\ Advances(cpu, "done") /\ UNCHANGED <<UDP_FLOWS, opened>>
      BY <1>2, ParkStep
    <2>2. Moves(cpu) /\ JudgedRight(cpu)'
      BY <1>0, <2>1 DEF Advances, JudgedRight, ToBlocked
    <2>3. QED BY <2>1, <2>2, FlowsUntouched
  <1>3. CASE FlowInsert(cpu)
    <2>1. CASE Opens(cpu)
      BY <1>3, <2>1, FlowInsertStep, OpensKeeps
    <2>2. CASE /\ normalize_udp_key(frame[cpu].pkt) \in DOMAIN UDP_FLOWS
               /\ Advances(cpu, "flow_lookup") /\ UNCHANGED <<UDP_FLOWS, opened>>
      <3>1. frame[cpu].pc = "flow_insert" /\ frame[cpu].pkt \in SkBuff
        BY <1>0, <1>3, FlowInsertStep, RunningPc DEF Pcs, Running
      <3>2. Endpoints(frame[cpu].pkt) \in DOMAIN opened
        BY <2>2, <3>1 DEF VerdictInv, FlowsOpened
      <3>3. Moves(cpu) /\ JudgedRight(cpu)'
        BY <1>0, <2>2, <3>1, <3>2 DEF Advances, JudgedRight
      <3>4. QED BY <2>2, <3>3, FlowsUntouched
    <2>3. QED BY <1>3, <2>1, <2>2, FlowInsertStep
  <1>4. CASE FlowLookup(cpu)
    <2>1. frame[cpu].pc = "flow_lookup" /\ UNCHANGED <<UDP_FLOWS, opened>>
      BY <1>4, FlowLookupStep DEF tables
    <2>2. frame[cpu].pkt.proto = "udp" /\ Endpoints(frame[cpu].pkt) \in DOMAIN opened
      BY <1>0, <2>1 DEF JudgedRight
    <2>3. CASE Advances(cpu, "flow_update")
      <3>1. Moves(cpu) /\ JudgedRight(cpu)'
        BY <2>1, <2>2, <2>3 DEF Advances, JudgedRight
      <3>2. QED BY <2>1, <3>1, FlowsUntouched
    <2>4. CASE Advances(cpu, "done") /\ frame'[cpu].fate = "flow_missed"
      <3>1. Moves(cpu) /\ JudgedRight(cpu)'
        BY <2>1, <2>2, <2>4 DEF Advances, JudgedRight, Passed
      <3>2. QED BY <2>1, <3>1, FlowsUntouched
    <2>5. CASE /\ Advances(cpu, "done")
               /\ normalize_udp_key(frame[cpu].pkt) \in DOMAIN UDP_FLOWS
               /\ frame[cpu].now <= UDP_FLOWS[normalize_udp_key(frame[cpu].pkt)]
      <3>1. frame[cpu].pkt \in SkBuff /\ frame[cpu].now \in Nat
        BY <1>0, <2>1, RunningPc DEF Pcs, Running
      <3>2. /\ opened[Endpoints(frame[cpu].pkt)] \in Nat
            /\ UDP_FLOWS[normalize_udp_key(frame[cpu].pkt)] \in Nat
        BY <2>2, <2>5 DEF NetTypes, FrameTypes, TableTypes, Expiries
      <3>3. opened[Endpoints(frame[cpu].pkt)] + UDP_FLOW_TTL
               >= UDP_FLOWS[normalize_udp_key(frame[cpu].pkt)]
        BY <2>5, <3>1 DEF VerdictInv, FlowsOpened
      <3>4. opened[Endpoints(frame[cpu].pkt)] >= frame[cpu].now - UDP_FLOW_TTL
        BY <2>5, <3>1, <3>2, <3>3, NetworkAssumption
      <3>5. /\ Moves(cpu) /\ frame'[cpu].pc = "done" /\ frame'[cpu].pkt = frame[cpu].pkt
            /\ frame'[cpu].now = frame[cpu].now
        BY <2>5 DEF Advances
      <3>6. JudgedRight(cpu)'
        BY <2>1, <2>2, <3>4, <3>5 DEF JudgedRight, Passed
      <3>7. QED BY <2>1, <3>5, <3>6, FlowsUntouched
    <2>6. QED BY <1>4, <2>3, <2>4, <2>5, FlowLookupStep
  <1>5. CASE FlowUpdate(cpu)
    BY <1>5, FlowUpdateStep, OpensKeeps
  <1>6. QED BY <1>1, <1>2, <1>3, <1>4, <1>5 DEF PacketStep

LEMMA DedupStepKeepsVerdict ==
    ASSUME NetTypes, VerdictInv, NEW who \in Programs, DedupStep(who)
    PROVE  VerdictInv'
  <1>1. /\ UNCHANGED <<UDP_FLOWS, opened>>
        /\ frame[who].pc \in {"dedup_insert", "dedup_lookup", "dedup_update", "send"}
        /\ \E pc \in {"dedup_lookup", "dedup_update", "send", "done"} : Advances(who, pc)
    BY DedupInsertStep, DedupLookupStep, DedupUpdateStep, SendStep DEF DedupStep, Renews, tables
  <1>2. Moves(who)
    BY <1>1 DEF Advances
  <1>3. CASE who \in Cpus
    <2>1. JudgedRight(who)
      BY <1>3 DEF VerdictInv
    <2>2. JudgedRight(who)'
      <3>1. frame[who].rc = SkbVerdict(frame[who].pkt)
        BY <1>1, <2>1 DEF JudgedRight
      <3>2. ToBlocked(frame[who].pkt) => frame[who].rc = 0
        BY <3>1 DEF ToBlocked, SkbVerdict
      <3>3. QED BY <1>1, <3>1, <3>2 DEF Advances, JudgedRight
    <2>3. QED BY <1>1, <1>2, <1>3, <2>2, FlowsUntouched
  <1>4. CASE who \notin Cpus
    <2>1. \A cpu \in Cpus : frame'[cpu] = frame[cpu]
      BY <1>2, <1>4 DEF Moves, Programs
    <2>2. \A cpu \in Cpus : JudgedRight(cpu)'
      BY <1>1, <2>1, OpenedUnchanged, OthersJudged
    <2>3. QED BY <1>1, <2>2 DEF VerdictInv, FlowsOpened
  <1>5. QED BY <1>3, <1>4

LEMMA VerdictUnchanged ==
    ASSUME VerdictInv, UNCHANGED <<frame, UDP_FLOWS, opened>>
    PROVE  VerdictInv'
  BY DEF VerdictInv, FlowsOpened, JudgedRight, Passed

LEMMA VerdictInitInv == NetInit => VerdictInv
  BY NoEntryFacts DEF NetInit, VerdictInv, FlowsOpened, JudgedRight, Idle

LEMMA VerdictNextInv == NetTypes /\ VerdictInv /\ [NetNext]_netVars => VerdictInv'
  <1> SUFFICES ASSUME NetTypes, VerdictInv, [NetNext]_netVars PROVE VerdictInv' OBVIOUS
  <1>1. CASE UNCHANGED netVars
    BY <1>1, VerdictUnchanged DEF netVars, tables
  <1>2. CASE Tick
    BY <1>2, VerdictUnchanged DEF Tick, tables
  <1>3. QED
    BY <1>1, <1>2, ArriveKeepsVerdict, DedupStepKeepsVerdict, PacketStepKeepsVerdict,
       NetworkAssumption
    DEF NetNext, NetStep, Programs

(* No packet to a blocked destination is let through as a duplicate: a SYN    *)
(* never passes, and a datagram only in a flow that was opened between the   *)
(* same endpoints no more than a lifetime before, or whose entry was evicted *)
(* between the failed insert and the lookup.                                 *)
THEOREM BlockedPassInFlow == NetSpec => []BlockedPassesOnlyInFlow
  <1>1. VerdictInv => BlockedPassesOnlyInFlow
    BY DEF VerdictInv, JudgedRight, Passed, BlockedPassesOnlyInFlow
  <1>2. QED
    BY <1>1, NetInitTypes, NetNextTypes, VerdictInitInv, VerdictNextInv, PTL DEF NetSpec

-----------------------------------------------------------------------------
(* The distance between reports. *)

Apart(s, t) == s > t + NETWORK_DEDUP_TTL \/ t > s + NETWORK_DEDUP_TTL

Busy(who) == frame[who].pc \in {"dedup_insert", "dedup_lookup", "dedup_update"}

Doing(who, pc, id) == frame[who].pc = pc /\ NetworkIdentity(frame[who].pkt) = id

\* The entry of an identity covers every report made or on its way, these are
\* apart from one another, and an entry about to be renewed has expired.
SpacedFor(id) ==
    /\ \A w \in Programs : Doing(w, "send", id) =>
          /\ id \in DOMAIN NETWORK_EVENT_DEDUP
          /\ NETWORK_EVENT_DEDUP[id] >= frame[w].now + NETWORK_DEDUP_TTL
    /\ id \in DOMAIN reports =>
          /\ id \in DOMAIN NETWORK_EVENT_DEDUP
          /\ NETWORK_EVENT_DEDUP[id] >= reports[id] + NETWORK_DEDUP_TTL
    /\ \A v, w \in Programs : v # w /\ Doing(v, "send", id) /\ Doing(w, "send", id) =>
          Apart(frame[v].now, frame[w].now)
    /\ \A w \in Programs : Doing(w, "send", id) /\ id \in DOMAIN reports =>
          Apart(frame[w].now, reports[id])
    /\ \A w \in Programs : Doing(w, "dedup_update", id) =>
          id \in DOMAIN NETWORK_EVENT_DEDUP /\ frame[w].now > NETWORK_EVENT_DEDUP[id]

NeverFull == Cardinality(DOMAIN NETWORK_EVENT_DEDUP) < DedupSize

SpacedInv ==
    /\ Racing \subseteq raced
    /\ NeverFull => \A id : id \notin raced => SpacedFor(id)

(* Two frames inside the dedup of one identity race. *)
LEMMA TwoBusyRace ==
    ASSUME NEW v \in Programs, NEW w \in Programs, v # w, Busy(v), Busy(w),
           NetworkIdentity(frame[v].pkt) = NetworkIdentity(frame[w].pkt)
    PROVE  NetworkIdentity(frame[w].pkt) \in Racing
  BY DEF Racing, Busy, Programs

(* The times that a frame, a report and an entry have are numbers. *)
LEMMA TimesAreNat ==
    ASSUME NetTypes
    PROVE  /\ \A w \in Programs : frame[w].pc \in Pcs => frame[w].now \in Nat
           /\ \A id \in DOMAIN reports : reports[id] \in Nat
           /\ \A id \in DOMAIN NETWORK_EVENT_DEDUP : NETWORK_EVENT_DEDUP[id] \in Nat
           /\ NETWORK_DEDUP_TTL \in Nat
  BY RunningPc, NetworkAssumption DEF Running, NetTypes, FrameTypes, TableTypes, Expiries

(* A step outside the map write and the send. *)
LEMMA SpacedStays ==
    ASSUME NEW id, SpacedFor(id), NEW who \in Programs, Moves(who),
           UNCHANGED <<NETWORK_EVENT_DEDUP, reports>>,
           frame[who].pc # "send", frame'[who].pc # "send",
           Doing(who, "dedup_update", id)' =>
              id \in DOMAIN NETWORK_EVENT_DEDUP /\ frame'[who].now > NETWORK_EVENT_DEDUP[id]
    PROVE  SpacedFor(id)'
  <1>1. \A w \in Programs : Doing(w, "send", id)' => Doing(w, "send", id) /\ frame'[w] = frame[w]
    BY DEF Doing, Moves
  <1>2. \A w \in Programs : w # who => frame'[w] = frame[w]
    BY DEF Moves
  <1>3. \A w \in Programs : Doing(w, "dedup_update", id)' =>
           id \in DOMAIN NETWORK_EVENT_DEDUP /\ frame'[w].now > NETWORK_EVENT_DEDUP[id]
    <2> SUFFICES ASSUME NEW w \in Programs, Doing(w, "dedup_update", id)'
                 PROVE  id \in DOMAIN NETWORK_EVENT_DEDUP /\ frame'[w].now > NETWORK_EVENT_DEDUP[id]
      OBVIOUS
    <2>1. CASE w = who
      BY <2>1
    <2>2. CASE w # who
      BY <1>2, <2>2 DEF SpacedFor, Doing
    <2>3. QED BY <2>1, <2>2
  <1>4. QED BY <1>1, <1>3 DEF SpacedFor

(* The entry is renewed: for the identity itself ... *)
LEMMA RenewsSpaced ==
    ASSUME NetTypes, NEW who \in Programs, frame[who].pc \in {"dedup_insert", "dedup_update"},
           Renews(who), UNCHANGED reports, NEW id, id = NetworkIdentity(frame[who].pkt),
           SpacedFor(id), Racing \subseteq raced, id \notin raced,
           frame[who].pc = "dedup_insert" => id \notin DOMAIN NETWORK_EVENT_DEDUP
    PROVE  SpacedFor(id)'
  <1> DEFINE now == frame[who].now
  <1>0. /\ now \in Nat /\ NETWORK_DEDUP_TTL \in Nat
        /\ \A w \in Programs : Doing(w, "send", id) => frame[w].now \in Nat
        /\ \A x \in DOMAIN reports : reports[x] \in Nat
        /\ \A x \in DOMAIN NETWORK_EVENT_DEDUP : NETWORK_EVENT_DEDUP[x] \in Nat
    BY TimesAreNat DEF Pcs, Doing
  <1>1. /\ Moves(who) /\ frame'[who].pc = "send" /\ frame'[who].pkt = frame[who].pkt
        /\ frame'[who].now = now
    BY DEF Renews, Advances
  <1>2. id \in DOMAIN NETWORK_EVENT_DEDUP' /\ NETWORK_EVENT_DEDUP'[id] = now + NETWORK_DEDUP_TTL
    BY LruPutsFacts DEF Renews
  <1>3. \A w \in Programs : w # who => frame'[w] = frame[w]
    BY <1>1 DEF Moves
  <1>4. ASSUME NEW w \in Programs, Doing(w, "dedup_update", id)' PROVE FALSE
    <2>1. w # who /\ Doing(w, "dedup_update", id)
      BY <1>1, <1>3, <1>4 DEF Doing
    <2>2. id \in Racing
      BY <2>1, TwoBusyRace DEF Busy, Doing
    <2>3. QED BY <2>2
  <1>5. \A w \in Programs : Doing(w, "send", id) => now > frame[w].now + NETWORK_DEDUP_TTL
    <2>1. CASE frame[who].pc = "dedup_insert"
      BY <2>1 DEF SpacedFor
    <2>2. CASE frame[who].pc = "dedup_update"
      <3>1. id \in DOMAIN NETWORK_EVENT_DEDUP /\ now > NETWORK_EVENT_DEDUP[id]
        BY <2>2 DEF SpacedFor, Doing
      <3>2. QED BY <1>0, <3>1 DEF SpacedFor
    <2>3. QED BY <2>1, <2>2
  <1>6. id \in DOMAIN reports => now > reports[id] + NETWORK_DEDUP_TTL
    <2>1. CASE frame[who].pc = "dedup_insert"
      BY <2>1 DEF SpacedFor
    <2>2. CASE frame[who].pc = "dedup_update"
      <3>1. id \in DOMAIN NETWORK_EVENT_DEDUP /\ now > NETWORK_EVENT_DEDUP[id]
        BY <2>2 DEF SpacedFor, Doing
      <3>2. QED BY <1>0, <3>1 DEF SpacedFor
    <2>3. QED BY <2>1, <2>2
  <1>7. \A w \in Programs : Doing(w, "send", id)' => w = who \/ Doing(w, "send", id)
    BY <1>3 DEF Doing
  <1> HIDE DEF now
  <1>8. \A w \in Programs : Doing(w, "send", id)' =>
           NETWORK_EVENT_DEDUP'[id] >= frame'[w].now + NETWORK_DEDUP_TTL
    <2> SUFFICES ASSUME NEW w \in Programs, Doing(w, "send", id)'
                 PROVE  NETWORK_EVENT_DEDUP'[id] >= frame'[w].now + NETWORK_DEDUP_TTL
      OBVIOUS
    <2>1. CASE w = who
      BY <1>0, <1>1, <1>2, <2>1
    <2>2. CASE w # who
      BY <1>0, <1>2, <1>3, <1>5, <1>7, <2>2
    <2>3. QED BY <2>1, <2>2
  <1>9. id \in DOMAIN reports => NETWORK_EVENT_DEDUP'[id] >= reports[id] + NETWORK_DEDUP_TTL
    BY <1>0, <1>2, <1>6
  <1>10. ASSUME NEW v \in Programs, NEW w \in Programs, v # w, Doing(v, "send", id)',
                Doing(w, "send", id)'
         PROVE  Apart(frame'[v].now, frame'[w].now)
    <2>1. CASE v = who
      BY <1>1, <1>3, <1>5, <1>7, <1>10, <2>1 DEF Apart
    <2>2. CASE w = who
      BY <1>1, <1>3, <1>5, <1>7, <1>10, <2>2 DEF Apart
    <2>3. CASE v # who /\ w # who
      BY <1>3, <1>7, <1>10, <2>3 DEF SpacedFor
    <2>4. QED BY <2>1, <2>2, <2>3
  <1>11. ASSUME NEW w \in Programs, Doing(w, "send", id)', id \in DOMAIN reports
         PROVE  Apart(frame'[w].now, reports[id])
    <2>1. CASE w = who
      BY <1>1, <1>6, <1>11, <2>1 DEF Apart
    <2>2. CASE w # who
      BY <1>3, <1>7, <1>11, <2>2 DEF SpacedFor
    <2>3. QED BY <2>1, <2>2
  <1>12. QED BY <1>2, <1>4, <1>8, <1>9, <1>10, <1>11 DEF SpacedFor, Apart

(* ... and for the others, as long as nothing is evicted. *)
LEMMA RenewsOthersSpaced ==
    ASSUME NetTypes, NEW who \in Programs, frame[who].pc \in {"dedup_insert", "dedup_update"},
           Renews(who), UNCHANGED reports, NeverFull,
           NEW id, id # NetworkIdentity(frame[who].pkt), SpacedFor(id)
    PROVE  SpacedFor(id)'
  <1> DEFINE mine == NetworkIdentity(frame[who].pkt)
  <1>1. /\ Moves(who) /\ frame'[who].pc = "send" /\ frame'[who].pkt = frame[who].pkt
    BY DEF Renews, Advances
  <1>2. DOMAIN NETWORK_EVENT_DEDUP' = DOMAIN NETWORK_EVENT_DEDUP \cup {mine}
    BY LruPutsRoom, NetworkAssumption DEF Renews, NeverFull
  <1>3. \A x \in DOMAIN NETWORK_EVENT_DEDUP' :
           x # mine => NETWORK_EVENT_DEDUP'[x] = NETWORK_EVENT_DEDUP[x]
    BY LruPutsFacts DEF Renews
  <1>4. \A w \in Programs : \A pc : Doing(w, pc, id)' => Doing(w, pc, id) /\ frame'[w] = frame[w]
    BY <1>1 DEF Moves, Doing
  <1>5. id \in DOMAIN NETWORK_EVENT_DEDUP =>
           /\ id \in DOMAIN NETWORK_EVENT_DEDUP'
           /\ NETWORK_EVENT_DEDUP'[id] = NETWORK_EVENT_DEDUP[id]
    BY <1>2, <1>3
  <1> HIDE DEF mine
  <1>6. QED BY <1>4, <1>5 DEF SpacedFor

LEMMA RenewsKeepsSpaced ==
    ASSUME NetTypes, SpacedInv, NEW who \in Programs,
           frame[who].pc \in {"dedup_insert", "dedup_update"}, Renews(who),
           UNCHANGED reports, raced' = raced \cup Racing',
           frame[who].pc = "dedup_insert" =>
              NetworkIdentity(frame[who].pkt) \notin DOMAIN NETWORK_EVENT_DEDUP
    PROVE  SpacedInv'
  <1>1. NeverFull' => NeverFull
    <2>1. IsFiniteSet(DOMAIN NETWORK_EVENT_DEDUP) /\ DedupSize \in Nat
      BY NetworkAssumption DEF NetTypes, TableTypes, Expiries
    <2>2. QED BY <2>1, LruNeverShrinks DEF Renews, NeverFull
  <1>2. ASSUME NeverFull', NEW id, id \notin raced' PROVE SpacedFor(id)'
    <2>1. NeverFull /\ SpacedFor(id) /\ id \notin raced /\ Racing \subseteq raced
      BY <1>1, <1>2 DEF SpacedInv
    <2>2. CASE id = NetworkIdentity(frame[who].pkt)
      BY <2>1, <2>2, RenewsSpaced
    <2>3. CASE id # NetworkIdentity(frame[who].pkt)
      BY <2>1, <2>3, RenewsOthersSpaced
    <2>4. QED BY <2>2, <2>3
  <1>3. QED BY <1>2 DEF SpacedInv

LEMMA SendKeepsSpaced ==
    ASSUME NetTypes, NEW id, SpacedFor(id), NEW who \in Programs, Send(who)
    PROVE  SpacedFor(id)'
  <1> DEFINE mine == NetworkIdentity(frame[who].pkt)
             now == frame[who].now
  <1>0. /\ frame[who].pc = "send" /\ reports' = PutLatest(reports, mine, now)
        /\ UNCHANGED NETWORK_EVENT_DEDUP /\ Moves(who) /\ frame'[who].pc = "done"
    BY SendStep DEF tables, Advances
  <1>1. /\ now \in Nat /\ NETWORK_DEDUP_TTL \in Nat
        /\ \A x \in DOMAIN reports : reports[x] \in Nat
    BY <1>0, TimesAreNat DEF Pcs
  <1>2. /\ DOMAIN reports' = DOMAIN reports \cup {mine}
        /\ reports'[mine] = now \/ (mine \in DOMAIN reports /\ reports'[mine] = reports[mine])
        /\ \A x \in DOMAIN reports : x # mine => reports'[x] = reports[x]
    <2>1. CASE mine \in DOMAIN reports /\ reports[mine] > now
      <3> HIDE DEF mine, now
      <3>1. QED BY <1>0, <2>1 DEF PutLatest, Put
    <2>2. CASE ~(mine \in DOMAIN reports /\ reports[mine] > now)
      <3> HIDE DEF mine, now
      <3>1. reports' = Put(reports, mine, now)
        BY <1>0, <2>2 DEF PutLatest
      <3>2. QED BY <3>1 DEF Put
    <2>3. QED BY <2>1, <2>2
  <1>3. \A w \in Programs : \A pc \in {"send", "dedup_update"} :
           Doing(w, pc, id)' => w # who /\ Doing(w, pc, id) /\ frame'[w] = frame[w]
    BY <1>0 DEF Moves, Doing
  <1>4. CASE id # mine
    <2>1. /\ id \in DOMAIN reports' => id \in DOMAIN reports /\ reports'[id] = reports[id]
      BY <1>2, <1>4
    <2>2. QED BY <1>0, <1>3, <2>1 DEF SpacedFor
  <1>5. CASE id = mine
    <2>1. Doing(who, "send", id)
      BY <1>0, <1>5 DEF Doing
    <2>2. \/ reports'[id] = now
          \/ id \in DOMAIN reports /\ reports'[id] = reports[id]
      BY <1>2, <1>5
    <2> HIDE DEF mine
    <2>3. /\ id \in DOMAIN NETWORK_EVENT_DEDUP
          /\ NETWORK_EVENT_DEDUP[id] >= reports'[id] + NETWORK_DEDUP_TTL
      BY <2>1, <2>2 DEF SpacedFor
    <2>4. \A w \in Programs : Doing(w, "send", id)' => Apart(frame'[w].now, reports'[id])
      BY <1>3, <2>1, <2>2 DEF SpacedFor
    <2>5. QED BY <1>0, <1>3, <2>3, <2>4 DEF SpacedFor, Apart
  <1>6. QED BY <1>4, <1>5

(* A step that writes neither the dedup map nor a report. *)
LEMMA QuietKeepsSpaced ==
    ASSUME NetTypes, SpacedInv, NEW who \in Programs, Moves(who),
           UNCHANGED <<NETWORK_EVENT_DEDUP, reports>>, raced' = raced \cup Racing',
           frame[who].pc # "send", frame'[who].pc # "send",
           frame'[who].pc = "dedup_update" =>
              LET id == NetworkIdentity(frame'[who].pkt)
              IN  id \in DOMAIN NETWORK_EVENT_DEDUP /\ frame'[who].now > NETWORK_EVENT_DEDUP[id]
    PROVE  SpacedInv'
  <1>1. ASSUME NeverFull', NEW id, id \notin raced' PROVE SpacedFor(id)'
    <2>1. SpacedFor(id)
      BY <1>1 DEF SpacedInv, NeverFull
    <2>2. Doing(who, "dedup_update", id)' =>
             id \in DOMAIN NETWORK_EVENT_DEDUP /\ frame'[who].now > NETWORK_EVENT_DEDUP[id]
      BY DEF Doing
    <2>3. QED BY <2>1, <2>2, SpacedStays
  <1>2. QED BY <1>1 DEF SpacedInv

LEMMA SpacedInitInv == NetInit => SpacedInv
  <1> SUFFICES ASSUME NetInit PROVE SpacedInv OBVIOUS
  <1>1. \A w \in Programs : frame[w].pc = "idle"
    BY DEF NetInit, Idle, Programs
  <1>2. Racing = {}
    BY <1>1 DEF Racing, Programs
  <1>3. DOMAIN reports = {}
    BY NoEntryFacts DEF NetInit
  <1>4. QED BY <1>1, <1>2, <1>3 DEF SpacedInv, SpacedFor, Doing

LEMMA SpacedNextInv == NetTypes /\ SpacedInv /\ [NetNext]_netVars => SpacedInv'
  <1> SUFFICES ASSUME NetTypes, SpacedInv, [NetNext]_netVars PROVE SpacedInv' OBVIOUS
  <1>1. ASSUME UNCHANGED <<frame, reports, NETWORK_EVENT_DEDUP>>,
               raced' = raced \/ raced' = raced \cup Racing'
        PROVE  SpacedInv'
    BY <1>1 DEF SpacedInv, SpacedFor, Doing, Racing, NeverFull, Apart
  <1>2. CASE UNCHANGED netVars
    BY <1>1, <1>2 DEF netVars, tables
  <1>3. CASE NetNext
    <2>0. raced' = raced \cup Racing'
      BY <1>3 DEF NetNext
    <2>1. CASE Tick
      BY <1>1, <2>0, <2>1 DEF Tick, tables
    <2>2. ASSUME NEW cpu \in Cpus, NEW pkt \in SkBuff, Arrive(cpu, pkt) PROVE SpacedInv'
      <3>1. /\ cpu \in Programs /\ Moves(cpu) /\ UNCHANGED <<NETWORK_EVENT_DEDUP, reports>>
            /\ frame[cpu].pc \in {"idle", "done"}
            /\ frame'[cpu].pc \in {"proxy", "done", "flow_insert", "dedup_insert"}
        BY <2>2, ArriveStep DEF Programs, Settles, tables
      <3>2. QED BY <2>0, <3>1, QuietKeepsSpaced
    <2>3. ASSUME NEW cpu \in Cpus, PacketStep(cpu) PROVE SpacedInv'
      <3>1. /\ cpu \in Programs /\ Moves(cpu) /\ UNCHANGED <<NETWORK_EVENT_DEDUP, reports>>
            /\ frame[cpu].pc \in {"proxy", "park", "flow_insert", "flow_lookup", "flow_update"}
            /\ frame'[cpu].pc \in {"park", "done", "flow_insert", "flow_lookup", "flow_update",
                                   "dedup_insert"}
        <4>1. CASE LookupRealSource(cpu)
          BY <4>1, LookupRealSourceStep DEF Programs, Settles, Advances, tables
        <4>2. CASE Park(cpu)
          BY <4>2, ParkStep DEF Programs, Advances
        <4>3. CASE FlowInsert(cpu)
          BY <4>3, FlowInsertStep DEF Programs, Advances, Opens, Judges
        <4>4. CASE FlowLookup(cpu)
          BY <4>4, FlowLookupStep DEF Programs, Advances, tables
        <4>5. CASE FlowUpdate(cpu)
          BY <4>5, FlowUpdateStep DEF Programs, Opens, Judges
        <4>6. QED BY <2>3, <4>1, <4>2, <4>3, <4>4, <4>5 DEF PacketStep
      <3>2. QED BY <2>0, <3>1, QuietKeepsSpaced
    <2>4. ASSUME NEW who \in Programs, DedupStep(who) PROVE SpacedInv'
      <3>1. CASE DedupInsert(who)
        <4>1. CASE Renews(who)
          <5>1. /\ frame[who].pc = "dedup_insert" /\ UNCHANGED reports
                /\ NetworkIdentity(frame[who].pkt) \notin DOMAIN NETWORK_EVENT_DEDUP
            BY <3>1, <4>1, DedupInsertStep DEF Renews, Advances
          <5>2. QED BY <2>0, <4>1, <5>1, RenewsKeepsSpaced
        <4>2. CASE Advances(who, "dedup_lookup") /\ UNCHANGED NETWORK_EVENT_DEDUP
          <5>1. frame[who].pc = "dedup_insert" /\ UNCHANGED reports
            BY <3>1, DedupInsertStep
          <5>2. QED BY <2>0, <4>2, <5>1, QuietKeepsSpaced DEF Advances
        <4>3. QED BY <3>1, <4>1, <4>2, DedupInsertStep
      <3>2. CASE DedupLookup(who)
        <4>1. /\ frame[who].pc = "dedup_lookup" /\ UNCHANGED <<NETWORK_EVENT_DEDUP, reports>>
              /\ Moves(who) /\ frame'[who].pc \in {"dedup_update", "done"}
          BY <3>2, DedupLookupStep DEF tables, Advances
        <4>2. frame'[who].pc = "dedup_update" =>
                 LET id == NetworkIdentity(frame'[who].pkt)
                 IN  /\ id \in DOMAIN NETWORK_EVENT_DEDUP
                     /\ frame'[who].now > NETWORK_EVENT_DEDUP[id]
          BY <3>2, DedupLookupStep DEF Advances
        <4>3. QED BY <2>0, <4>1, <4>2, QuietKeepsSpaced
      <3>3. CASE DedupUpdate(who)
        BY <2>0, <3>3, DedupUpdateStep, RenewsKeepsSpaced
      <3>4. CASE Send(who)
        <4>1. UNCHANGED NETWORK_EVENT_DEDUP
          BY <3>4, SendStep DEF tables
        <4>2. ASSUME NeverFull', NEW id, id \notin raced' PROVE SpacedFor(id)'
          <5>1. SpacedFor(id)
            BY <2>0, <4>1, <4>2 DEF SpacedInv, NeverFull
          <5>2. QED BY <3>4, <5>1, SendKeepsSpaced
        <4>3. QED BY <2>0, <4>2 DEF SpacedInv
      <3>5. QED BY <2>4, <3>1, <3>2, <3>3, <3>4 DEF DedupStep
    <2>5. QED BY <1>3, <2>1, <2>2, <2>3, <2>4, NetworkAssumption DEF NetNext, NetStep, Programs
  <1>4. QED BY <1>2, <1>3

(* "Events with the same identity are deduplicated for NETWORK_DEDUP_TTL_NS": *)
(* an identity that no two CPUs ever deduplicate at once is reported at most *)
(* once in a lifetime, as long as the map has never been full.               *)
THEOREM ReportsSpaced == NetSpec => SpacedUnlessRaced
  <1>1. SpacedInv => SendIsSpaced
    BY DEF SpacedInv, SpacedFor, Doing, NeverFull, Apart, Programs, SendIsSpaced
  <1>2. QED
    BY <1>1, NetInitTypes, NetNextTypes, SpacedInitInv, SpacedNextInv, PTL
    DEF NetSpec, SpacedUnlessRaced

-----------------------------------------------------------------------------
(* The docker-proxy probes. *)

Accepted == {c \in Clients : client[c] # "new"}

\* A source that the accept probe stored.
Known == [real_ip : {HostIp}, real_port : Accepted]

\* No frame handles a datagram, and from the moment its source is resolved a
\* frame carries a client that was accepted.
SourceRight(who) ==
    LET f == frame[who]
    IN  f.pc \in Pcs =>
            /\ f.pkt.proto = "tcp"
            /\ f.pc \notin {"flow_insert", "flow_lookup", "flow_update"}
            /\ f.pc = "conn_unpark" \/ Resolved(who) =>
                  f.pkt.src_ip = HostIp /\ f.pkt.src_port \in Accepted

ProxyInv ==
    /\ client \in [Clients -> {"new", "accepted", "dialed", "arrived"}]
    /\ \A t \in DOMAIN PROXY_TEMP_MAP : PROXY_TEMP_MAP[t] \in Known
    /\ \A key \in DOMAIN REAL_SOURCE_MAP : REAL_SOURCE_MAP[key] \in Known
    /\ \A key \in DOMAIN INCOMPLETE_PACKETS : INCOMPLETE_PACKETS[key].proto = "tcp"
    /\ \A who \in Programs : SourceRight(who)

LEMMA SynTyped ==
    ASSUME NEW c \in Clients
    PROVE  /\ SynOf(c) \in SkBuff /\ SynOf(c).proto = "tcp"
           /\ SynOf(c).src_ip = GatewayIp
  <1>1. c \in Nat /\ 100 + c \in Nat
    BY ProxyAssumption
  <1>2. QED BY <1>1, ProxyAssumption DEF SynOf, SkBuff

LEMMA KnownTyped == Known \subseteq Source
  BY ProxyAssumption DEF Known, Source, Accepted

(* What the probes do to their frames. *)
LEMMA DialStep ==
    ASSUME NetTypes, NEW c \in Clients, NEW t \in Threads, Dial(c, t)
    PROVE  /\ frame[t].pc \in {"idle", "done"}
           /\ Moves(t) /\ frame'[t].pc = "conn_parked" /\ frame'[t].pkt = SynOf(c)
           /\ frame'[t].now = clock
           /\ client' = [client EXCEPT ![c] = "dialed"]
           /\ UNCHANGED <<clock, tables, reports, opened, PROXY_TEMP_MAP>>
  <1> DEFINE g == At("conn_parked", SynOf(c), 1)
  <1>1. g \in Running /\ g.pc = "conn_parked" /\ g.pkt = SynOf(c) /\ g.now = clock
    BY SynTyped DEF NetTypes, FrameTypes, At, Running, Pcs, Fates
  <1>2. frame' = [frame EXCEPT ![t] = g] /\ t \in Programs
    BY DEF Dial, Programs
  <1> HIDE DEF g
  <1>3. Moves(t) /\ frame'[t] = g
    BY <1>1, <1>2, Replaces
  <1>4. QED BY <1>1, <1>3 DEF Dial, Free

LEMMA ConnLookupParkedStep ==
    ASSUME NetTypes, NEW t \in Threads, ConnLookupParked(t)
    PROVE  /\ frame[t].pc = "conn_parked" /\ Moves(t) /\ frame'[t].now = frame[t].now
           /\ \/ frame'[t].pc = "conn_learn" /\ frame'[t].pkt = frame[t].pkt
              \/ /\ frame'[t].pc = "conn_source"
                 /\ ConnectionKey(frame[t].pkt) \in DOMAIN INCOMPLETE_PACKETS
                 /\ frame'[t].pkt = INCOMPLETE_PACKETS[ConnectionKey(frame[t].pkt)]
           /\ UNCHANGED <<clock, tables, reports, opened, client, PROXY_TEMP_MAP>>
  <1> DEFINE key == ConnectionKey(frame[t].pkt)
  <1>1. t \in Programs /\ frame[t].pc = "conn_parked"
    BY DEF Programs, ConnLookupParked
  <1>2. frame[t] \in Running
    BY <1>1, RunningPc DEF Pcs
  <1>3. CASE key \in DOMAIN INCOMPLETE_PACKETS
    <2> DEFINE g == [frame[t] EXCEPT !.pc = "conn_source", !.pkt = INCOMPLETE_PACKETS[key]]
    <2>1. INCOMPLETE_PACKETS[key] \in SkBuff
      BY <1>3 DEF NetTypes, TableTypes
    <2>2. /\ g \in Running /\ g.pc = "conn_source" /\ g.pkt = INCOMPLETE_PACKETS[key]
          /\ g.now = frame[t].now
      <3> HIDE DEF key
      <3>1. QED BY <1>2, <2>1 DEF Running, Pcs
    <2>3. frame' = [frame EXCEPT ![t] = g]
      BY <1>3 DEF ConnLookupParked
    <2>4. Moves(t) /\ frame'[t] = g
      <3> HIDE DEF g
      <3>1. QED BY <1>1, <2>2, <2>3, Replaces
    <2>5. QED BY <1>1, <1>3, <2>2, <2>4 DEF ConnLookupParked
  <1>4. CASE key \notin DOMAIN INCOMPLETE_PACKETS
    <2> DEFINE g == [frame[t] EXCEPT !.pc = "conn_learn"]
    <2>1. /\ g \in Running /\ g.pc = "conn_learn" /\ g.pkt = frame[t].pkt /\ g.now = frame[t].now
      BY <1>2 DEF Running, Pcs
    <2>2. frame' = [frame EXCEPT ![t] = g]
      BY <1>4 DEF ConnLookupParked
    <2>3. Moves(t) /\ frame'[t] = g
      <3> HIDE DEF g
      <3>1. QED BY <1>1, <2>1, <2>2, Replaces
    <2>4. QED BY <1>1, <2>1, <2>3 DEF ConnLookupParked
  <1>5. QED BY <1>3, <1>4

LEMMA ConnLookupSourceStep ==
    ASSUME NetTypes, ProxyInv, NEW t \in Threads, ConnLookupSource(t)
    PROVE  /\ frame[t].pc = "conn_source" /\ Moves(t) /\ frame'[t].now = frame[t].now
           /\ frame'[t].pkt.proto = "tcp"
           /\ \/ frame'[t].pc = "conn_learn"
              \/ /\ frame'[t].pc = "conn_unpark"
                 /\ frame'[t].pkt.src_ip = HostIp /\ frame'[t].pkt.src_port \in Accepted
           /\ UNCHANGED <<clock, tables, reports, opened, client, PROXY_TEMP_MAP>>
  <1> DEFINE key == ConnectionKey(frame[t].pkt)
             parked == IF key \in DOMAIN INCOMPLETE_PACKETS
                       THEN INCOMPLETE_PACKETS[key] ELSE frame[t].pkt
             src == PROXY_TEMP_MAP[t]
             pkt == [parked EXCEPT !.src_ip = src.real_ip, !.src_port = src.real_port]
  <1>1. t \in Programs /\ frame[t].pc = "conn_source" /\ frame[t].pc \in Pcs
    BY DEF Programs, ConnLookupSource, Pcs
  <1>2. frame[t] \in Running /\ frame[t].pkt \in SkBuff /\ frame[t].pkt.proto = "tcp"
    BY <1>1, RunningPc DEF Running, ProxyInv, SourceRight
  <1>3. CASE t \in DOMAIN PROXY_TEMP_MAP
    <2>1. parked \in SkBuff /\ parked.proto = "tcp"
      BY <1>2 DEF NetTypes, TableTypes, ProxyInv
    <2>2. src \in Known /\ src \in Source
      BY <1>3, KnownTyped DEF ProxyInv
    <2>3. /\ pkt \in SkBuff /\ pkt.proto = "tcp"
          /\ pkt.src_ip = HostIp /\ pkt.src_port \in Accepted
      <3> HIDE DEF parked, src
      <3>1. QED BY <2>1, <2>2 DEF SkBuff, Source, Known
    <2> DEFINE g == [frame[t] EXCEPT !.pc = "conn_unpark", !.pkt = pkt]
    <2>4. frame' = [frame EXCEPT ![t] = g]
      BY <1>1, <1>3 DEF ConnLookupSource, NetTypes, FrameTypes
    <2> HIDE DEF pkt
    <2>5. g \in Running /\ g.pc = "conn_unpark" /\ g.pkt = pkt /\ g.now = frame[t].now
      BY <1>2, <2>3 DEF Running, Pcs
    <2>6. Moves(t) /\ frame'[t] = g
      <3> HIDE DEF g
      <3>1. QED BY <1>1, <2>4, <2>5, Replaces
    <2>7. QED BY <1>1, <2>3, <2>5, <2>6 DEF ConnLookupSource
  <1>4. CASE t \notin DOMAIN PROXY_TEMP_MAP
    <2>1. Goto(t, "conn_learn")
      BY <1>4 DEF ConnLookupSource
    <2>2. Advances(t, "conn_learn")
      BY <1>1, <2>1, Goes DEF Pcs
    <2>3. QED BY <1>1, <1>2, <2>2 DEF ConnLookupSource, Advances
  <1>5. QED BY <1>3, <1>4

LEMMA ConnUnparkStep ==
    ASSUME NetTypes, NEW t \in Threads, ConnUnpark(t)
    PROVE  /\ frame[t].pc = "conn_unpark"
           /\ \/ Judges(t, frame[t].pkt)
              \/ Advances(t, "done") /\ frame'[t].fate = "unallocated"
           /\ INCOMPLETE_PACKETS' = Drop(INCOMPLETE_PACKETS, ConnectionKey(frame[t].pkt))
           /\ PROXY_TEMP_MAP' = Drop(PROXY_TEMP_MAP, t)
           /\ UNCHANGED <<clock, UDP_FLOWS, NETWORK_EVENT_DEDUP, REAL_SOURCE_MAP, reports, opened,
                          client>>
  <1> DEFINE g == DedupFrame(frame[t].pkt)
  <1>1. t \in Programs /\ frame[t].pc = "conn_unpark" /\ frame[t].pkt \in SkBuff
    BY RunningPc DEF ConnUnpark, Running, Programs, Pcs
  <1>2. /\ g \in Running /\ g.pc = "dedup_insert" /\ g.pkt = frame[t].pkt /\ g.now = clock
        /\ g.rc = SkbVerdict(frame[t].pkt)
    BY <1>1, DedupFrameFacts
  <1>3. CASE frame' = [frame EXCEPT ![t] = g]
    <2> HIDE DEF g
    <2>1. Moves(t) /\ frame'[t] = g
      BY <1>1, <1>2, <1>3, Replaces
    <2>2. QED BY <1>1, <1>2, <2>1 DEF Judges, ConnUnpark
  <1>4. CASE Return(t, "unallocated")
    <2>1. Advances(t, "done") /\ frame'[t].fate = "unallocated"
      BY <1>1, <1>4, Returns DEF Pcs, Fates
    <2>2. QED BY <1>1, <2>1 DEF ConnUnpark
  <1>5. QED BY <1>3, <1>4 DEF ConnUnpark

LEMMA ConnLearnStep ==
    ASSUME NetTypes, NEW t \in Threads, ConnLearn(t)
    PROVE  /\ frame[t].pc = "conn_learn"
           /\ Advances(t, "done") /\ frame'[t].fate = "learned"
           /\ \/ UNCHANGED <<REAL_SOURCE_MAP, PROXY_TEMP_MAP>>
              \/ /\ t \in DOMAIN PROXY_TEMP_MAP
                 /\ REAL_SOURCE_MAP' \in LruPuts(REAL_SOURCE_MAP, ConnectionKey(frame[t].pkt),
                                                 PROXY_TEMP_MAP[t], ProxyMapSize)
                 /\ PROXY_TEMP_MAP' = Drop(PROXY_TEMP_MAP, t)
           /\ UNCHANGED <<clock, UDP_FLOWS, NETWORK_EVENT_DEDUP, INCOMPLETE_PACKETS, reports,
                          opened, client>>
  <1>1. t \in Programs /\ frame[t].pc = "conn_learn" /\ Return(t, "learned")
    BY DEF Programs, ConnLearn
  <1>2. Advances(t, "done") /\ frame'[t].fate = "learned"
    BY <1>1, Returns DEF Pcs, Fates
  <1>3. QED BY <1>1, <1>2 DEF ConnLearn

(* The types of the frames and tables hold with the probes as well. *)
LEMMA DropTyped ==
    ASSUME NEW m, NEW k, NEW S, \A x \in DOMAIN m : m[x] \in S
    PROVE  \A x \in DOMAIN Drop(m, k) : Drop(m, k)[x] \in S
  BY DEF Drop

LEMMA LruTyped ==
    ASSUME NEW m, NEW k, NEW S, NEW v \in S, NEW size, NEW n \in LruPuts(m, k, v, size),
           \A x \in DOMAIN m : m[x] \in S
    PROVE  \A x \in DOMAIN n : n[x] \in S
  <1>1. n[k] = v /\ \A x \in DOMAIN n : x # k => x \in DOMAIN m /\ n[x] = m[x]
    BY LruPutsFacts
  <1>2. QED BY <1>1

LEMMA ProbeStepTyped == ASSUME NetTypes, ProxyInv, NEW t \in Threads, ProbeStep(t) PROVE NetTypes'
  <1>0. t \in Programs
    BY DEF Programs
  <1>1. ASSUME frame[t].pc \in Pcs, Moves(t), frame'[t].now = frame[t].now, UNCHANGED clock
        PROVE  FrameTypes'
    <2>1. frame'[t].now <= clock
      BY <1>0, <1>1, RunningPc DEF NetTypes, FrameTypes
    <2>2. QED BY <1>0, <1>1, <2>1, MovesTyped
  <1>2. CASE ConnLookupParked(t)
    BY <1>1, <1>2, ConnLookupParkedStep, TablesTyped DEF NetTypes, Pcs
  <1>3. CASE ConnLookupSource(t)
    BY <1>1, <1>3, ConnLookupSourceStep, TablesTyped DEF NetTypes, Pcs
  <1>4. CASE ConnUnpark(t)
    <2>1. FrameTypes'
      BY <1>0, <1>4, ConnUnparkStep, NowTyped, AdvancesTyped DEF Judges, Pcs
    <2>2. \A key \in DOMAIN INCOMPLETE_PACKETS' : INCOMPLETE_PACKETS'[key] \in SkBuff
      BY <1>4, ConnUnparkStep, DropTyped DEF NetTypes, TableTypes
    <2>3. TableTypes'
      BY <1>4, <2>2, ConnUnparkStep DEF NetTypes, TableTypes, Expiries
    <2>4. QED BY <2>1, <2>3 DEF NetTypes
  <1>5. CASE ConnLearn(t)
    <2>1. FrameTypes'
      BY <1>0, <1>5, ConnLearnStep, AdvancesTyped DEF Pcs
    <2>2. \A key \in DOMAIN REAL_SOURCE_MAP' : REAL_SOURCE_MAP'[key] \in Source
      <3>1. CASE UNCHANGED REAL_SOURCE_MAP
        BY <3>1 DEF NetTypes, TableTypes
      <3>2. CASE /\ t \in DOMAIN PROXY_TEMP_MAP
                 /\ REAL_SOURCE_MAP' \in LruPuts(REAL_SOURCE_MAP, ConnectionKey(frame[t].pkt),
                                                 PROXY_TEMP_MAP[t], ProxyMapSize)
        <4>1. PROXY_TEMP_MAP[t] \in Source
          BY <3>2, KnownTyped DEF ProxyInv
        <4>2. QED BY <3>2, <4>1, LruTyped DEF NetTypes, TableTypes
      <3>3. QED BY <1>5, <3>1, <3>2, ConnLearnStep
    <2>3. TableTypes'
      BY <1>5, <2>2, ConnLearnStep DEF NetTypes, TableTypes, Expiries
    <2>4. QED BY <2>1, <2>3 DEF NetTypes
  <1>6. QED BY <1>2, <1>3, <1>4, <1>5 DEF ProbeStep

LEMMA ProxyNextTypes == NetTypes /\ ProxyInv /\ [ProxyNext]_proxyVars => NetTypes'
  <1> SUFFICES ASSUME NetTypes, ProxyInv, [ProxyNext]_proxyVars PROVE NetTypes' OBVIOUS
  <1>1. CASE UNCHANGED proxyVars
    BY <1>1 DEF proxyVars, netVars, tables, NetTypes, FrameTypes, TableTypes, Expiries
  <1>2. ASSUME NEW c \in Clients, NEW t \in Threads, track_proxy_accept(c, t) PROVE NetTypes'
    BY <1>2 DEF track_proxy_accept, tables, NetTypes, FrameTypes, TableTypes, Expiries
  <1>3. ASSUME NEW c \in Clients, NEW t \in Threads, Dial(c, t) PROVE NetTypes'
    <2>1. t \in Programs
      BY DEF Programs
    <2>2. QED BY <1>3, <2>1, DialStep, NowTyped, TablesTyped DEF NetTypes
  <1>4. ASSUME NEW c \in Clients, NEW cpu \in Cpus, SynArrives(c, cpu) PROVE NetTypes'
    BY <1>4, SynTyped, ArriveTyped DEF SynArrives
  <1>5. QED BY <1>1, <1>2, <1>3, <1>4, ProbeStepTyped, NetStepTyped DEF ProxyNext

(* A client once accepted stays accepted. *)
LEMMA AcceptedGrows ==
    ASSUME ProxyInv, NEW c \in Clients, NEW s \in {"accepted", "dialed", "arrived"},
           client' = [client EXCEPT ![c] = s]
    PROVE  /\ client' \in [Clients -> {"new", "accepted", "dialed", "arrived"}]
           /\ c \in Accepted' /\ Accepted \subseteq Accepted' /\ Known \subseteq Known'
  <1>1. client \in [Clients -> {"new", "accepted", "dialed", "arrived"}]
    BY DEF ProxyInv
  <1>2. c \in Accepted' /\ Accepted \subseteq Accepted'
    BY <1>1 DEF Accepted
  <1>3. QED BY <1>1, <1>2 DEF Known

(* The program that moves carries a right source: so do all. *)
LEMMA SourcesStay ==
    ASSUME ProxyInv, NEW who \in Programs, Moves(who), SourceRight(who)',
           Accepted \subseteq Accepted'
    PROVE  \A w \in Programs : SourceRight(w)'
  <1> SUFFICES ASSUME NEW w \in Programs, w # who PROVE SourceRight(w)'
    OBVIOUS
  <1>1. frame'[w] = frame[w] /\ SourceRight(w)
    BY DEF Moves, ProxyInv
  <1>2. QED BY <1>1 DEF SourceRight, Resolved

LEMMA ProxyInitInv == ProxyInit => NetTypes /\ ProxyInv
  <1> SUFFICES ASSUME ProxyInit PROVE NetTypes /\ ProxyInv OBVIOUS
  <1>1. NetTypes
    BY NetInitTypes DEF ProxyInit
  <1>2. \A who \in Programs : SourceRight(who)
    BY DEF ProxyInit, NetInit, Programs, Idle, SourceRight, Pcs
  <1>3. QED BY <1>1, <1>2, NoEntryFacts DEF ProxyInit, NetInit, ProxyInv

(* Steps that change neither clients nor maps of sources. *)
LEMMA SourcesInv ==
    ASSUME NetTypes, ProxyInv, NEW who \in Programs, Moves(who), SourceRight(who)',
           UNCHANGED <<client, REAL_SOURCE_MAP, INCOMPLETE_PACKETS, PROXY_TEMP_MAP>>
    PROVE  ProxyInv'
  <1>1. Accepted \subseteq Accepted' /\ Known \subseteq Known'
    BY DEF Accepted, Known
  <1>2. \A w \in Programs : SourceRight(w)'
    BY <1>1, SourcesStay
  <1>3. QED BY <1>1, <1>2 DEF ProxyInv

LEMMA ProbeStepSources ==
    ASSUME NetTypes, ProxyInv, NEW t \in Threads, ProbeStep(t) PROVE ProxyInv'
  <1>0. t \in Programs
    BY DEF Programs
  <1>1. CASE ConnLookupParked(t)
    <2>1. /\ frame[t].pc = "conn_parked" /\ Moves(t)
          /\ frame'[t].pc \in {"conn_learn", "conn_source"}
          /\ \/ frame'[t].pkt = frame[t].pkt
             \/ /\ ConnectionKey(frame[t].pkt) \in DOMAIN INCOMPLETE_PACKETS
                /\ frame'[t].pkt = INCOMPLETE_PACKETS[ConnectionKey(frame[t].pkt)]
          /\ UNCHANGED <<client, REAL_SOURCE_MAP, INCOMPLETE_PACKETS, PROXY_TEMP_MAP>>
      BY <1>1, ConnLookupParkedStep DEF tables
    <2>2. frame'[t].pkt.proto = "tcp"
      BY <1>0, <2>1 DEF ProxyInv, SourceRight, Pcs
    <2>3. SourceRight(t)'
      BY <2>1, <2>2 DEF SourceRight, Resolved
    <2>4. QED BY <1>0, <2>1, <2>3, SourcesInv
  <1>2. CASE ConnLookupSource(t)
    <2>1. /\ Moves(t) /\ frame'[t].pkt.proto = "tcp"
          /\ \/ frame'[t].pc = "conn_learn"
             \/ /\ frame'[t].pc = "conn_unpark"
                /\ frame'[t].pkt.src_ip = HostIp /\ frame'[t].pkt.src_port \in Accepted
          /\ UNCHANGED <<client, REAL_SOURCE_MAP, INCOMPLETE_PACKETS, PROXY_TEMP_MAP>>
      BY <1>2, ConnLookupSourceStep DEF tables
    <2>2. SourceRight(t)'
      BY <2>1 DEF SourceRight, Resolved, Accepted
    <2>3. QED BY <1>0, <2>1, <2>2, SourcesInv
  <1>3. CASE ConnUnpark(t)
    <2>1. /\ frame[t].pc = "conn_unpark" /\ Moves(t)
          /\ frame'[t].pc \in {"dedup_insert", "done"} /\ frame'[t].pkt = frame[t].pkt
          /\ INCOMPLETE_PACKETS' = Drop(INCOMPLETE_PACKETS, ConnectionKey(frame[t].pkt))
          /\ PROXY_TEMP_MAP' = Drop(PROXY_TEMP_MAP, t)
          /\ UNCHANGED <<REAL_SOURCE_MAP, client>>
      BY <1>3, ConnUnparkStep DEF Judges, Advances
    <2>2. Accepted' = Accepted /\ Known' = Known
      BY <2>1 DEF Accepted, Known
    <2>3. SourceRight(t)'
      BY <1>0, <2>1, <2>2 DEF ProxyInv, SourceRight, Resolved, Pcs
    <2>4. \A w \in Programs : SourceRight(w)'
      BY <1>0, <2>1, <2>2, <2>3, SourcesStay
    <2>5. \A x \in DOMAIN PROXY_TEMP_MAP' : PROXY_TEMP_MAP'[x] \in Known
      BY <2>1, DropTyped DEF ProxyInv
    <2>6. \A key \in DOMAIN INCOMPLETE_PACKETS' : INCOMPLETE_PACKETS'[key].proto = "tcp"
      BY <2>1 DEF ProxyInv, Drop
    <2>7. QED BY <2>1, <2>2, <2>4, <2>5, <2>6 DEF ProxyInv
  <1>4. CASE ConnLearn(t)
    <2>1. /\ frame[t].pc = "conn_learn"
          /\ Moves(t) /\ frame'[t].pc = "done" /\ frame'[t].fate = "learned"
          /\ frame'[t].pkt = frame[t].pkt
          /\ UNCHANGED <<INCOMPLETE_PACKETS, client>>
      BY <1>4, ConnLearnStep DEF Advances
    <2>2. Accepted' = Accepted /\ Known' = Known
      BY <2>1 DEF Accepted, Known
    <2>3. SourceRight(t)'
      BY <1>0, <2>1 DEF ProxyInv, SourceRight, Resolved, Pcs
    <2>4. \A w \in Programs : SourceRight(w)'
      BY <1>0, <2>1, <2>2, <2>3, SourcesStay
    <2>5. /\ \A x \in DOMAIN PROXY_TEMP_MAP' : PROXY_TEMP_MAP'[x] \in Known
          /\ \A key \in DOMAIN REAL_SOURCE_MAP' : REAL_SOURCE_MAP'[key] \in Known
      <3>1. CASE UNCHANGED <<REAL_SOURCE_MAP, PROXY_TEMP_MAP>>
        BY <3>1 DEF ProxyInv
      <3>2. CASE /\ t \in DOMAIN PROXY_TEMP_MAP
                 /\ REAL_SOURCE_MAP' \in LruPuts(REAL_SOURCE_MAP, ConnectionKey(frame[t].pkt),
                                                 PROXY_TEMP_MAP[t], ProxyMapSize)
                 /\ PROXY_TEMP_MAP' = Drop(PROXY_TEMP_MAP, t)
        <4>1. PROXY_TEMP_MAP[t] \in Known
          BY <3>2 DEF ProxyInv
        <4>2. \A key \in DOMAIN REAL_SOURCE_MAP' : REAL_SOURCE_MAP'[key] \in Known
          BY <3>2, <4>1, LruTyped DEF ProxyInv
        <4>3. \A x \in DOMAIN PROXY_TEMP_MAP' : PROXY_TEMP_MAP'[x] \in Known
          BY <3>2, DropTyped DEF ProxyInv
        <4>4. QED BY <4>2, <4>3
      <3>3. QED BY <1>4, <3>1, <3>2, ConnLearnStep
    <2>6. QED BY <2>1, <2>2, <2>4, <2>5 DEF ProxyInv
  <1>5. QED BY <1>1, <1>2, <1>3, <1>4 DEF ProbeStep

LEMMA NetStepSources ==
    ASSUME NetTypes, ProxyInv, NetStep, UNCHANGED <<client, PROXY_TEMP_MAP>> PROVE ProxyInv'
  <1>0. Accepted' = Accepted /\ Known' = Known
    BY DEF Accepted, Known
  <1>1. ASSUME NEW who \in Programs, frame[who].pc \in Pcs, NEW pc, Advances(who, pc),
               pc \notin {"flow_insert", "flow_lookup", "flow_update", "conn_unpark"},
               Resolved(who)' => Resolved(who),
               UNCHANGED <<REAL_SOURCE_MAP, INCOMPLETE_PACKETS>>
        PROVE  ProxyInv'
    <2>1. SourceRight(who)'
      BY <1>0, <1>1 DEF Advances, ProxyInv, SourceRight
    <2>2. QED BY <1>1, <2>1, SourcesInv DEF Advances
  <1>2. ASSUME NEW cpu \in Cpus, PacketStep(cpu) PROVE ProxyInv'
    <2>0. cpu \in Programs
      BY DEF Programs
    <2>1. CASE LookupRealSource(cpu)
      <3> DEFINE pkt == frame[cpu].pkt
                 key == ConnectionKey(pkt)
                 src == REAL_SOURCE_MAP[key]
                 new == [pkt EXCEPT !.src_ip = src.real_ip, !.src_port = src.real_port]
      <3>1. /\ frame[cpu].pc = "proxy" /\ UNCHANGED <<REAL_SOURCE_MAP, INCOMPLETE_PACKETS>>
            /\ \/ key \in DOMAIN REAL_SOURCE_MAP /\ new \in SkBuff /\ Settles(cpu, new)
               \/ Advances(cpu, "park") /\ frame'[cpu].fate = frame[cpu].fate
        BY <2>1, LookupRealSourceStep DEF tables
      <3>2. CASE key \in DOMAIN REAL_SOURCE_MAP /\ new \in SkBuff /\ Settles(cpu, new)
        <4>1. src \in Known /\ pkt \in SkBuff /\ pkt.proto = "tcp"
          BY <2>0, <3>1, <3>2, RunningPc DEF ProxyInv, SourceRight, Pcs, Running
        <4>2. new.proto = "tcp" /\ new.src_ip = HostIp /\ new.src_port \in Accepted
          <5> HIDE DEF pkt, src
          <5>1. QED BY <4>1 DEF SkBuff, Known
        <4>3. /\ Moves(cpu) /\ frame'[cpu].pkt = new
              /\ frame'[cpu].pc \in {"done", "flow_insert", "dedup_insert"}
              /\ frame'[cpu].pc = "flow_insert" => new.proto = "udp"
          BY <3>2 DEF Settles
        <4> HIDE DEF new
        <4>4. SourceRight(cpu)'
          BY <1>0, <4>2, <4>3 DEF SourceRight
        <4>5. QED BY <2>0, <3>1, <4>3, <4>4, SourcesInv
      <3>3. CASE Advances(cpu, "park")
        BY <1>1, <2>0, <3>1, <3>3 DEF Pcs, Resolved, Advances
      <3>4. QED BY <3>1, <3>2, <3>3
    <2>2. CASE Park(cpu)
      <3>1. /\ frame[cpu].pc = "park"
            /\ INCOMPLETE_PACKETS' \in LruPuts(INCOMPLETE_PACKETS, ConnectionKey(frame[cpu].pkt),
                                               frame[cpu].pkt, ProxyMapSize)
            /\ Moves(cpu) /\ frame'[cpu].pc = "done" /\ frame'[cpu].pkt = frame[cpu].pkt
            /\ frame'[cpu].fate = "parked"
            /\ UNCHANGED REAL_SOURCE_MAP
        BY <2>2, ParkStep DEF Advances
      <3>2. frame[cpu].pkt.proto = "tcp"
        BY <2>0, <3>1 DEF ProxyInv, SourceRight, Pcs
      <3>3. SourceRight(cpu)'
        BY <3>1, <3>2 DEF SourceRight, Resolved
      <3>4. \A w \in Programs : SourceRight(w)'
        BY <1>0, <2>0, <3>1, <3>3, SourcesStay
      <3>5. \A key \in DOMAIN INCOMPLETE_PACKETS' : INCOMPLETE_PACKETS'[key].proto = "tcp"
        <4> DEFINE k == ConnectionKey(frame[cpu].pkt)
        <4>1. /\ INCOMPLETE_PACKETS'[k] = frame[cpu].pkt
              /\ \A x \in DOMAIN INCOMPLETE_PACKETS' : x # k =>
                    x \in DOMAIN INCOMPLETE_PACKETS /\ INCOMPLETE_PACKETS'[x] = INCOMPLETE_PACKETS[x]
          BY <3>1, LruPutsFacts
        <4> HIDE DEF k
        <4>2. QED BY <3>2, <4>1 DEF ProxyInv
      <3>6. QED BY <1>0, <3>1, <3>4, <3>5 DEF ProxyInv
    <2>3. frame[cpu].pc \notin {"flow_insert", "flow_lookup", "flow_update"}
      BY <2>0 DEF ProxyInv, SourceRight, Pcs
    <2>4. QED BY <1>2, <2>1, <2>2, <2>3 DEF PacketStep, FlowInsert, FlowLookup, FlowUpdate
  <1>3. ASSUME NEW who \in Programs, DedupStep(who) PROVE ProxyInv'
    <2>1. /\ frame[who].pc \in {"dedup_insert", "dedup_lookup", "dedup_update", "send"}
          /\ UNCHANGED <<REAL_SOURCE_MAP, INCOMPLETE_PACKETS>>
          /\ \E pc \in {"dedup_lookup", "dedup_update", "send", "done"} : Advances(who, pc)
      BY <1>3, DedupInsertStep, DedupLookupStep, DedupUpdateStep, SendStep
      DEF DedupStep, Renews, tables
    <2>2. QED BY <1>1, <2>1 DEF Resolved, Pcs
  <1>4. CASE Tick
    BY <1>0, <1>4 DEF Tick, tables, ProxyInv, SourceRight, Resolved
  <1>5. QED BY <1>2, <1>3, <1>4 DEF NetStep, Programs

LEMMA ProxyNextInv == NetTypes /\ ProxyInv /\ [ProxyNext]_proxyVars => ProxyInv'
  <1> SUFFICES ASSUME NetTypes, ProxyInv, [ProxyNext]_proxyVars PROVE ProxyInv' OBVIOUS
  <1>1. CASE UNCHANGED proxyVars
    BY <1>1 DEF proxyVars, netVars, tables, ProxyInv, SourceRight, Resolved, Known, Accepted
  <1>2. ASSUME NEW c \in Clients, NEW t \in Threads, track_proxy_accept(c, t) PROVE ProxyInv'
    <2> DEFINE real == [real_ip |-> HostIp, real_port |-> c]
    <2>1. /\ client' = [client EXCEPT ![c] = "accepted"]
          /\ PROXY_TEMP_MAP' \in LruPuts(PROXY_TEMP_MAP, t, real, ProxyMapSize)
          /\ UNCHANGED <<REAL_SOURCE_MAP, INCOMPLETE_PACKETS, frame>>
      BY <1>2 DEF track_proxy_accept, AcceptedSock, tables
    <2>2. /\ client' \in [Clients -> {"new", "accepted", "dialed", "arrived"}]
          /\ c \in Accepted' /\ Accepted \subseteq Accepted' /\ Known \subseteq Known'
      BY <2>1, AcceptedGrows
    <2>3. real \in Known'
      BY <2>2 DEF Known
    <2>4. \A x \in DOMAIN PROXY_TEMP_MAP : PROXY_TEMP_MAP[x] \in Known'
      BY <2>2 DEF ProxyInv
    <2> HIDE DEF real
    <2>5. \A x \in DOMAIN PROXY_TEMP_MAP' : PROXY_TEMP_MAP'[x] \in Known'
      BY <2>1, <2>3, <2>4, LruTyped
    <2>6. \A w \in Programs : SourceRight(w)'
      BY <2>1, <2>2 DEF ProxyInv, SourceRight, Resolved
    <2>7. QED BY <2>1, <2>2, <2>5, <2>6 DEF ProxyInv
  <1>3. ASSUME NEW c \in Clients, NEW who \in Programs, NEW s \in {"dialed", "arrived"},
               client' = [client EXCEPT ![c] = s], Moves(who),
               frame'[who].pkt = SynOf(c),
               \/ frame'[who].pc \in {"conn_parked", "proxy"}
               \/ frame'[who].pc = "done" /\ frame'[who].fate = "ignored",
               UNCHANGED <<tables, PROXY_TEMP_MAP>>
        PROVE  ProxyInv'
    <2>1. SourceRight(who)'
      BY <1>3, SynTyped DEF SourceRight, Resolved
    <2>2. /\ client' \in [Clients -> {"new", "accepted", "dialed", "arrived"}]
          /\ Accepted \subseteq Accepted' /\ Known \subseteq Known'
      BY <1>3, AcceptedGrows
    <2>3. \A w \in Programs : SourceRight(w)'
      BY <1>3, <2>1, <2>2, SourcesStay
    <2>4. QED BY <1>3, <2>2, <2>3 DEF ProxyInv, tables
  <1>4. ASSUME NEW c \in Clients, NEW t \in Threads, Dial(c, t) PROVE ProxyInv'
    <2>1. t \in Programs
      BY DEF Programs
    <2>2. QED BY <1>3, <1>4, <2>1, DialStep DEF tables
  <1>5. ASSUME NEW c \in Clients, NEW cpu \in Cpus, SynArrives(c, cpu) PROVE ProxyInv'
    <2>1. /\ cpu \in Programs /\ client' = [client EXCEPT ![c] = "arrived"]
          /\ Arrive(cpu, SynOf(c)) /\ UNCHANGED PROXY_TEMP_MAP
          /\ SynOf(c) \in SkBuff /\ SynOf(c).src_ip \in ProxyIps
      BY <1>5, SynTyped, ProxyAssumption DEF SynArrives, Programs
    <2>2. /\ Moves(cpu) /\ frame'[cpu].pkt = SynOf(c) /\ UNCHANGED tables
          /\ \/ frame'[cpu].pc = "proxy"
             \/ frame'[cpu].pc = "done" /\ frame'[cpu].fate = "ignored"
      BY <2>1, ArriveStep DEF Settles
    <2>3. QED BY <1>3, <2>1, <2>2
  <1>6. QED
    BY <1>1, <1>2, <1>4, <1>5, ProbeStepSources, NetStepSources DEF ProxyNext

(* Whatever way packet and probe race, on whatever thread docker-proxy dials  *)
(* and whatever is evicted, a proxied connection is reported with the        *)
(* address and port that docker_proxy_accept read from an accepted socket.   *)
THEOREM ReportedSourceAccepted == ProxySpec => []SourceWasAccepted
  <1>1. NetTypes /\ ProxyInv => SourceWasAccepted
    <2> SUFFICES ASSUME ProxyInv, NEW who \in Programs, Resolved(who)
                 PROVE  /\ frame[who].pkt.src_ip = HostIp
                        /\ frame[who].pkt.src_port \in Accepted
      BY DEF SourceWasAccepted, Programs, Accepted
    <2>1. frame[who].pc \in Pcs /\ SourceRight(who)
      BY DEF ProxyInv, Resolved, Pcs
    <2>2. QED BY <2>1 DEF SourceRight
  <1>2. QED BY <1>1, ProxyInitInv, ProxyNextTypes, ProxyNextInv, PTL DEF ProxySpec

LEMMA ProxyNextDedup ==
    NetTypes /\ NetTypes' /\ ProxyInv /\ DedupInv /\ [ProxyNext]_proxyVars => DedupInv'
  <1> SUFFICES ASSUME NetTypes, NetTypes', ProxyInv, DedupInv, [ProxyNext]_proxyVars
               PROVE  DedupInv'
    OBVIOUS
  <1>1. CASE UNCHANGED proxyVars
    BY <1>1, DedupUnchanged DEF proxyVars, netVars, tables
  <1>2. ASSUME NEW c \in Clients, NEW t \in Threads, track_proxy_accept(c, t) PROVE DedupInv'
    BY <1>2, DedupUnchanged DEF track_proxy_accept, tables
  <1>3. ASSUME NEW c \in Clients, NEW t \in Threads, Dial(c, t) PROVE DedupInv'
    <2>1. t \in Programs
      BY DEF Programs
    <2>2. QED BY <1>3, <2>1, DialStep, QuietKeeps DEF tables
  <1>4. ASSUME NEW c \in Clients, NEW cpu \in Cpus, SynArrives(c, cpu) PROVE DedupInv'
    BY <1>4, SynTyped, ArriveKeepsDedup DEF SynArrives
  <1>5. ASSUME NEW t \in Threads, ProbeStep(t) PROVE DedupInv'
    <2>0. t \in Programs
      BY DEF Programs
    <2>1. /\ Moves(t) /\ frame[t].pc # "send" /\ UNCHANGED <<NETWORK_EVENT_DEDUP, reports>>
          /\ \/ frame'[t].pc \in {"conn_learn", "conn_source", "conn_unpark", "dedup_insert"}
             \/ frame'[t].pc = "done" /\ frame'[t].fate \in {"learned", "unallocated"}
      <3>1. CASE ConnLookupParked(t)
        BY <3>1, ConnLookupParkedStep DEF tables
      <3>2. CASE ConnLookupSource(t)
        BY <3>2, ConnLookupSourceStep DEF tables
      <3>3. CASE ConnUnpark(t)
        BY <3>3, ConnUnparkStep DEF Judges, Advances
      <3>4. CASE ConnLearn(t)
        BY <3>4, ConnLearnStep DEF Advances
      <3>5. QED BY <1>5, <3>1, <3>2, <3>3, <3>4 DEF ProbeStep
    <2>2. QED BY <2>0, <2>1, QuietKeeps
  <1>6. CASE NetStep
    <2>1. CASE Tick
      BY <2>1, DedupUnchanged DEF Tick, tables
    <2>2. QED BY <1>6, <2>1, DedupStepKeeps, PacketStepKeepsDedup DEF NetStep, Programs
  <1>7. QED BY <1>1, <1>2, <1>3, <1>4, <1>5, <1>6 DEF ProxyNext

(* The probes share deduplicate_and_send with the packet path: with them too  *)
(* nothing is suppressed that was not reported.                              *)
THEOREM NothingSuppressedByProbes == ProxySpec => []SuppressedWasReported
  <1>1. DedupInv => SuppressedWasReported
    BY DEF DedupInv, Justified, SuppressedWasReported, Programs
  <1>2. ProxyInit => DedupInv
    BY DedupInitInv DEF ProxyInit
  <1>3. QED
    BY <1>1, <1>2, ProxyInitInv, ProxyNextTypes, ProxyNextInv, ProxyNextDedup, PTL DEF ProxySpec
-----------------------------------------------------------------------------
(* Whose source a report carries. *)

\* The probe of client c is still to end.
Due(c) ==
    \/ client[c] = "accepted"
    \/ \E t \in Threads : frame[t].pc \in InProbe /\ dialing[t] = c

Safe(c) == c \in disturbed \/ Due(c)

\* The SYN of c has reached the container's cgroup and been looked at.
Travels(c) == \E cpu \in Cpus : frame[cpu].pc \in {"proxy", "park"} /\ frame[cpu].pkt.conn = c
Settled(c) == c \in Clients /\ client[c] = "arrived" /\ ~Travels(c)

\* The one key of both proxy maps that is in use.
TheKey == <<ContainerIp, ContainerPort, "tcp">>

\* A client is kept under one thread at most, and is used up with its probe.
TempInv ==
    /\ DOMAIN PROXY_TEMP_MAP \subseteq Threads
    /\ \A t \in DOMAIN PROXY_TEMP_MAP :
          /\ Safe(PROXY_TEMP_MAP[t].real_port)
          /\ \A u \in DOMAIN PROXY_TEMP_MAP :
                PROXY_TEMP_MAP[u].real_port = PROXY_TEMP_MAP[t].real_port => u = t
          /\ \A u \in Threads :
                /\ frame[u].pc = "conn_unpark"
                /\ frame[u].pkt.src_port = PROXY_TEMP_MAP[t].real_port
                => u = t

LearnedInv == \A key \in DOMAIN REAL_SOURCE_MAP : REAL_SOURCE_MAP[key].real_port \in disturbed

\* A packet is used up with the probe of its connection.
ParkedInv ==
    \A key \in DOMAIN INCOMPLETE_PACKETS :
        /\ key = TheKey /\ ConnectionKey(INCOMPLETE_PACKETS[key]) = TheKey
        /\ Settled(INCOMPLETE_PACKETS[key].conn) /\ Safe(INCOMPLETE_PACKETS[key].conn)

SynFrame(cpu) ==
    LET pkt == frame[cpu].pkt
    IN  frame[cpu].pc \in {"proxy", "park"} =>
            /\ pkt.conn \in Clients /\ client[pkt.conn] = "arrived" /\ Safe(pkt.conn)
            /\ ConnectionKey(pkt) = TheKey
            /\ \A other \in Cpus :
                  frame[other].pc \in {"proxy", "park"} /\ frame[other].pkt.conn = pkt.conn
                  => other = cpu

SynInv ==
    /\ \A c \in Clients : client[c] = "dialed" => Safe(c)
    /\ \A cpu \in Cpus : SynFrame(cpu)

\* What a probe holds is its own, or belongs to a disturbed client.
ProbeFrame(t) ==
    LET f == frame[t]
    IN  /\ f.pc \in InProbe => dialing[t] \in Clients /\ ConnectionKey(f.pkt) = TheKey
        /\ f.pc \in {"conn_source", "conn_unpark"} =>
              Settled(f.pkt.conn) /\ f.pkt.conn \in disturbed \cup {dialing[t]}
        /\ f.pc = "conn_unpark" => f.pkt.src_port \in disturbed \cup {dialing[t]}

OwnFrame(who) ==
    LET pkt == frame[who].pkt
    IN  Resolved(who) /\ pkt.src_port # pkt.conn =>
            /\ pkt.src_port \in disturbed
            /\ who \in Threads => pkt.conn \in disturbed

TrackInv ==
    /\ dialing \in [Threads -> Nat]
    /\ Overlapping \subseteq disturbed
    /\ TempInv /\ LearnedInv /\ ParkedInv /\ SynInv
    /\ \A t \in Threads : ProbeFrame(t)
    /\ \A who \in Programs : OwnFrame(who)

Grows == disturbed \subseteq disturbed' /\ Overlapping' \subseteq disturbed'

(* Two probes that are both still to end disturb each other. *)
LEMMA DueOverlap ==
    ASSUME Overlapping \subseteq disturbed, NEW c \in Clients, NEW d \in Clients,
           Due(c), Safe(d)
    PROVE  d \in disturbed \cup {c}
  BY DEF Overlapping, Open, Due, Safe

(* A probe that finds a client under its thread, or a packet parked, finds   *)
(* its own or those of a disturbed client.                                   *)
LEMMA ProbeFinds ==
    ASSUME ProxyInv, TrackInv, NEW t \in Threads, frame[t].pc \in InProbe
    PROVE  /\ t \in DOMAIN PROXY_TEMP_MAP =>
                 PROXY_TEMP_MAP[t].real_port \in disturbed \cup {dialing[t]}
           /\ \A key \in DOMAIN INCOMPLETE_PACKETS :
                 INCOMPLETE_PACKETS[key].conn \in disturbed \cup {dialing[t]}
  <1>1. dialing[t] \in Clients /\ Due(dialing[t])
    BY DEF TrackInv, ProbeFrame, Due
  <1>2. t \in DOMAIN PROXY_TEMP_MAP =>
            PROXY_TEMP_MAP[t].real_port \in Clients /\ Safe(PROXY_TEMP_MAP[t].real_port)
    BY DEF ProxyInv, Known, Accepted, TrackInv, TempInv
  <1>3. \A key \in DOMAIN INCOMPLETE_PACKETS :
            INCOMPLETE_PACKETS[key].conn \in Clients /\ Safe(INCOMPLETE_PACKETS[key].conn)
    BY DEF TrackInv, ParkedInv, Settled
  <1>4. QED BY <1>1, <1>2, <1>3, DueOverlap DEF TrackInv

(* One program moves, entries only disappear from the maps of the probes,    *)
(* and the clients in gone, whose probes have ended, have left no entry.     *)
LEMMA TrackStays ==
    ASSUME NetTypes, TrackInv, Grows, NEW who \in Programs, Moves(who),
           NEW gone,
           \A c \in Clients \ gone : Safe(c) => Safe(c)',
           \A c \in Clients : client[c] = "arrived" => client'[c] = "arrived",
           \A c \in Clients : client'[c] = "dialed" => Safe(c)',
           dialing' \in [Threads -> Nat],
           \A t \in Threads : t # who => dialing'[t] = dialing[t],
           \A t \in DOMAIN PROXY_TEMP_MAP' :
              /\ t \in DOMAIN PROXY_TEMP_MAP /\ PROXY_TEMP_MAP'[t] = PROXY_TEMP_MAP[t]
              /\ PROXY_TEMP_MAP[t].real_port \in Clients \ gone,
           LearnedInv',
           \A key \in DOMAIN INCOMPLETE_PACKETS' :
              /\ key \in DOMAIN INCOMPLETE_PACKETS
              /\ INCOMPLETE_PACKETS'[key] = INCOMPLETE_PACKETS[key]
              /\ INCOMPLETE_PACKETS[key].conn \notin gone,
           \A cpu \in Cpus : frame[cpu].pc \in {"proxy", "park"} => frame[cpu].pkt.conn \notin gone,
           frame'[who].pc = "conn_unpark" =>
              /\ who \in DOMAIN PROXY_TEMP_MAP
              /\ frame'[who].pkt.src_port = PROXY_TEMP_MAP[who].real_port,
           who \in Cpus /\ frame'[who].pc \in {"proxy", "park"} =>
              frame[who].pc \in {"proxy", "park"} /\ frame'[who].pkt = frame[who].pkt,
           who \in Threads =>
              ((\A c \in Clients : Settled(c) => Settled(c)') => ProbeFrame(who)'),
           OwnFrame(who)'
    PROVE  TrackInv'
  <1>1. \A c \in Clients : Travels(c)' => Travels(c)
    BY DEF Travels, Moves, Programs
  <1>2. \A c \in Clients : Settled(c) => Settled(c)'
    BY <1>1 DEF Settled
  <1>3. TempInv'
    <2>1. DOMAIN PROXY_TEMP_MAP' \subseteq Threads
      BY DEF TrackInv, TempInv
    <2> SUFFICES ASSUME NEW t \in DOMAIN PROXY_TEMP_MAP'
                 PROVE  /\ Safe(PROXY_TEMP_MAP[t].real_port)'
                        /\ \A u \in DOMAIN PROXY_TEMP_MAP' :
                              PROXY_TEMP_MAP'[u].real_port = PROXY_TEMP_MAP'[t].real_port => u = t
                        /\ \A u \in Threads :
                              /\ frame'[u].pc = "conn_unpark"
                              /\ frame'[u].pkt.src_port = PROXY_TEMP_MAP'[t].real_port
                              => u = t
      BY <2>1 DEF TempInv
    <2>2. /\ t \in DOMAIN PROXY_TEMP_MAP /\ PROXY_TEMP_MAP'[t] = PROXY_TEMP_MAP[t]
          /\ PROXY_TEMP_MAP[t].real_port \in Clients \ gone
      OBVIOUS
    <2>3. Safe(PROXY_TEMP_MAP[t].real_port)'
      <3>1. Safe(PROXY_TEMP_MAP[t].real_port)
        BY <2>2 DEF TrackInv, TempInv
      <3>2. \A c \in Clients \ gone : Safe(c) => Safe(c)'
        OBVIOUS
      <3>3. QED BY <2>2, <3>1, <3>2 DEF Safe, Due
    <2>4. \A u \in DOMAIN PROXY_TEMP_MAP' :
             PROXY_TEMP_MAP'[u].real_port = PROXY_TEMP_MAP'[t].real_port => u = t
      BY <2>2 DEF TrackInv, TempInv
    <2>5. ASSUME NEW u \in Threads, frame'[u].pc = "conn_unpark",
                 frame'[u].pkt.src_port = PROXY_TEMP_MAP'[t].real_port
          PROVE  u = t
      <3>1. CASE u = who
        BY <2>2, <2>5, <3>1 DEF TrackInv, TempInv
      <3>2. CASE u # who
        BY <2>2, <2>5, <3>2 DEF TrackInv, TempInv, Moves, Programs
      <3>3. QED BY <3>1, <3>2
    <2>6. QED BY <2>3, <2>4, <2>5
  <1>4. ParkedInv'
    <2> SUFFICES ASSUME NEW key \in DOMAIN INCOMPLETE_PACKETS'
                 PROVE  /\ key = TheKey /\ ConnectionKey(INCOMPLETE_PACKETS'[key]) = TheKey
                        /\ Settled(INCOMPLETE_PACKETS[key].conn)'
                        /\ Safe(INCOMPLETE_PACKETS[key].conn)'
      BY DEF ParkedInv, TheKey, ConnectionKey
    <2>1. /\ key \in DOMAIN INCOMPLETE_PACKETS /\ INCOMPLETE_PACKETS'[key] = INCOMPLETE_PACKETS[key]
          /\ INCOMPLETE_PACKETS[key].conn \notin gone
      OBVIOUS
    <2>2. /\ key = TheKey /\ ConnectionKey(INCOMPLETE_PACKETS[key]) = TheKey
          /\ Settled(INCOMPLETE_PACKETS[key].conn) /\ Safe(INCOMPLETE_PACKETS[key].conn)
          /\ INCOMPLETE_PACKETS[key].conn \in Clients
      BY <2>1 DEF TrackInv, ParkedInv, Settled
    <2> DEFINE c == INCOMPLETE_PACKETS[key].conn
    <2>3. \A d \in Clients \ gone : Safe(d) => Safe(d)'
      OBVIOUS
    <2>4. c \in Clients \ gone /\ c' = c
      BY <2>1, <2>2
    <2>5. Settled(c)' /\ Safe(c)'
      <3> HIDE DEF c
      <3>1. QED BY <1>2, <2>2, <2>3, <2>4 DEF Settled, Safe, Due, Travels, c
    <2>6. QED BY <2>1, <2>2, <2>5
  <1>5. SynInv'
    <2> SUFFICES ASSUME NEW cpu \in Cpus PROVE SynFrame(cpu)'
      BY DEF SynInv
    <2> SUFFICES ASSUME frame'[cpu].pc \in {"proxy", "park"} PROVE SynFrame(cpu)'
      BY DEF SynFrame
    <2>0. \A c \in Cpus : frame'[c].pc \in {"proxy", "park"} =>
              frame[c].pc \in {"proxy", "park"} /\ frame'[c].pkt = frame[c].pkt
      BY DEF Moves, Programs
    <2>1. frame[cpu].pc \in {"proxy", "park"} /\ frame'[cpu].pkt = frame[cpu].pkt
      BY <2>0
    <2> DEFINE c == frame[cpu].pkt.conn
    <2>2. /\ c \in Clients \ gone /\ client[c] = "arrived" /\ Safe(c)
          /\ ConnectionKey(frame[cpu].pkt) = TheKey
          /\ \A other \in Cpus :
                frame[other].pc \in {"proxy", "park"} /\ frame[other].pkt.conn = c => other = cpu
      BY <2>1 DEF TrackInv, SynInv, SynFrame
    <2>3. \A d \in Clients \ gone : Safe(d) => Safe(d)'
      OBVIOUS
    <2>4. client'[c] = "arrived" /\ (c \in disturbed' \/ client'[c] = "accepted"
             \/ \E t \in Threads : frame'[t].pc \in InProbe /\ dialing'[t] = c)
      <3> HIDE DEF c
      <3>1. QED BY <2>2, <2>3 DEF Safe, Due
    <2>5. QED BY <2>0, <2>1, <2>2, <2>4 DEF SynFrame, Safe, Due, TheKey, ConnectionKey
  <1>6. ASSUME NEW t \in Threads PROVE ProbeFrame(t)'
    <2>1. CASE t = who
      BY <1>2, <2>1
    <2>2. CASE t # who
      <3>1. frame'[t] = frame[t] /\ dialing'[t] = dialing[t] /\ ProbeFrame(t)
        BY <2>2 DEF Moves, Programs, TrackInv
      <3>2. frame[t].pc \in {"conn_source", "conn_unpark"} =>
                (client'[frame[t].pkt.conn] = "arrived" /\ frame[t].pkt.conn \in Clients
                 /\ ~\E cpu \in Cpus : frame'[cpu].pc \in {"proxy", "park"}
                                       /\ frame'[cpu].pkt.conn = frame[t].pkt.conn)
        BY <1>2, <3>1 DEF ProbeFrame, Settled, Travels
      <3>3. QED BY <3>1, <3>2 DEF ProbeFrame, Settled, Travels, TheKey, ConnectionKey, Grows
    <2>3. QED BY <2>1, <2>2
  <1>7. ASSUME NEW w \in Programs PROVE OwnFrame(w)'
    <2>1. CASE w # who
      BY <2>1 DEF Moves, TrackInv, OwnFrame, Resolved, Grows
    <2>2. QED BY <2>1
  <1>8. QED BY <1>3, <1>4, <1>5, <1>6, <1>7 DEF TrackInv, Grows

(* The probe looks for a parked packet. *)
LEMMA LookupParkedTracks ==
    ASSUME NetTypes, ProxyInv, TrackInv, Grows, NEW t \in Threads, ConnLookupParked(t),
           UNCHANGED dialing
    PROVE  TrackInv'
  <1>1. /\ frame[t].pc = "conn_parked" /\ Moves(t)
        /\ \/ frame'[t].pc = "conn_learn" /\ frame'[t].pkt = frame[t].pkt
           \/ /\ frame'[t].pc = "conn_source"
              /\ ConnectionKey(frame[t].pkt) \in DOMAIN INCOMPLETE_PACKETS
              /\ frame'[t].pkt = INCOMPLETE_PACKETS[ConnectionKey(frame[t].pkt)]
        /\ UNCHANGED <<tables, client, PROXY_TEMP_MAP>>
    BY ConnLookupParkedStep
  <1>2. t \in Programs /\ t \notin Cpus /\ frame[t].pc \in InProbe
    BY <1>1, NetworkAssumption DEF Programs, InProbe
  <1>3. \A c \in Clients : Safe(c) => Safe(c)'
    BY <1>1, <1>2 DEF Safe, Due, Moves, InProbe, Programs, Grows
  <1>4. ASSUME \A c \in Clients : Settled(c) => Settled(c)' PROVE ProbeFrame(t)'
    <2>0. dialing[t] \in Clients /\ ConnectionKey(frame[t].pkt) = TheKey
      BY <1>2 DEF TrackInv, ProbeFrame
    <2>1. CASE frame'[t].pc = "conn_learn" /\ frame'[t].pkt = frame[t].pkt
      BY <2>0, <2>1 DEF ProbeFrame, TheKey, ConnectionKey
    <2>2. CASE /\ frame'[t].pc = "conn_source"
               /\ ConnectionKey(frame[t].pkt) \in DOMAIN INCOMPLETE_PACKETS
               /\ frame'[t].pkt = INCOMPLETE_PACKETS[ConnectionKey(frame[t].pkt)]
      <3>1. /\ ConnectionKey(frame'[t].pkt) = TheKey
            /\ Settled(frame'[t].pkt.conn) /\ frame'[t].pkt.conn \in Clients
            /\ frame'[t].pkt.conn \in disturbed \cup {dialing[t]}
        BY <1>2, <2>2, ProbeFinds DEF TrackInv, ParkedInv, Settled
      <3>2. /\ client'[frame'[t].pkt.conn] = "arrived"
            /\ ~\E cpu \in Cpus : frame'[cpu].pc \in {"proxy", "park"}
                                  /\ frame'[cpu].pkt.conn = frame'[t].pkt.conn
        BY <1>4, <3>1 DEF Settled, Travels
      <3>3. QED BY <2>0, <2>2, <3>1, <3>2
            DEF ProbeFrame, TheKey, ConnectionKey, Settled, Travels, Grows
    <2>3. QED BY <1>1, <2>1, <2>2
  <1>5. OwnFrame(t)'
    BY <1>1 DEF OwnFrame, Resolved
  <1>6. \A x \in DOMAIN PROXY_TEMP_MAP : PROXY_TEMP_MAP[x].real_port \in Clients
    BY DEF ProxyInv, Known, Accepted
  <1>7. /\ LearnedInv' /\ dialing' \in [Threads -> Nat]
        /\ \A c \in Clients : client'[c] = "dialed" => Safe(c)'
    BY <1>1, <1>3 DEF TrackInv, LearnedInv, SynInv, Grows, tables
  <1>8. QED
    <2> DEFINE gone == {}
    <2>1. \A c \in Clients \ gone : Safe(c) => Safe(c)'
      BY <1>3
    <2>2. UNCHANGED <<INCOMPLETE_PACKETS, client, PROXY_TEMP_MAP>> /\ frame'[t].pc # "conn_unpark"
      BY <1>1 DEF tables
    <2>3. \A x : x \notin gone
      OBVIOUS
    <2> HIDE DEF gone
    <2>4. QED BY <1>1, <1>2, <1>4, <1>5, <1>6, <1>7, <2>1, <2>2, <2>3, TrackStays

(* The probe looks for the client under its thread. *)
LEMMA LookupSourceTracks ==
    ASSUME NetTypes, ProxyInv, TrackInv, Grows, NEW t \in Threads, ConnLookupSource(t),
           UNCHANGED dialing
    PROVE  TrackInv'
  <1> DEFINE key == ConnectionKey(frame[t].pkt)
             parked == IF key \in DOMAIN INCOMPLETE_PACKETS
                       THEN INCOMPLETE_PACKETS[key] ELSE frame[t].pkt
             src == PROXY_TEMP_MAP[t]
  <1>1. /\ frame[t].pc = "conn_source" /\ Moves(t)
        /\ UNCHANGED <<tables, client, PROXY_TEMP_MAP>>
    BY ConnLookupSourceStep
  <1>2. t \in Programs /\ t \notin Cpus /\ frame[t].pc \in InProbe /\ frame[t].pc \in Pcs
    BY <1>1, NetworkAssumption DEF Programs, InProbe, Pcs
  <1>3. frame[t] \in Running /\ frame[t].pkt \in SkBuff
    BY <1>2, RunningPc DEF Running
  <1>4. \/ frame'[t].pc = "conn_learn" /\ frame'[t].pkt = frame[t].pkt
        \/ /\ frame'[t].pc = "conn_unpark" /\ t \in DOMAIN PROXY_TEMP_MAP
           /\ frame'[t].pkt.src_port = src.real_port
           /\ frame'[t].pkt.conn = parked.conn
           /\ ConnectionKey(frame'[t].pkt) = ConnectionKey(parked)
    <2>1. CASE t \in DOMAIN PROXY_TEMP_MAP
      <3> DEFINE pkt == [parked EXCEPT !.src_ip = src.real_ip, !.src_port = src.real_port]
                 g == [frame[t] EXCEPT !.pc = "conn_unpark", !.pkt = pkt]
      <3>1. frame' = [frame EXCEPT ![t] = g]
        BY <1>2, <2>1 DEF ConnLookupSource, NetTypes, FrameTypes
      <3>2. frame'[t] = g
        BY <1>2, <3>1 DEF NetTypes, FrameTypes
      <3>3. g.pc = "conn_unpark" /\ g.pkt = pkt
        <4> HIDE DEF pkt
        <4>1. QED BY <1>3 DEF Running
      <3>4. parked \in SkBuff
        BY <1>3 DEF NetTypes, TableTypes
      <3>5. /\ pkt.src_port = src.real_port /\ pkt.conn = parked.conn
            /\ ConnectionKey(pkt) = ConnectionKey(parked)
        <4> HIDE DEF parked, src
        <4>1. QED BY <3>4 DEF SkBuff, ConnectionKey
      <3> HIDE DEF g, pkt, parked, src
      <3>6. QED BY <2>1, <3>2, <3>3, <3>5
    <2>2. CASE t \notin DOMAIN PROXY_TEMP_MAP
      <3>1. Goto(t, "conn_learn")
        BY <2>2 DEF ConnLookupSource
      <3>2. QED BY <1>2, <3>1, Goes DEF Pcs, Advances
    <2>3. QED BY <2>1, <2>2
  <1>5. \A c \in Clients : Safe(c) => Safe(c)'
    BY <1>1, <1>2, <1>4 DEF Safe, Due, Moves, InProbe, Programs, Grows
  <1>6. /\ dialing[t] \in Clients /\ key = TheKey
        /\ Settled(frame[t].pkt.conn) /\ frame[t].pkt.conn \in disturbed \cup {dialing[t]}
    BY <1>1, <1>2 DEF TrackInv, ProbeFrame
  <1>7. /\ ConnectionKey(parked) = TheKey /\ Settled(parked.conn)
        /\ parked.conn \in disturbed \cup {dialing[t]}
    <2>1. CASE key \in DOMAIN INCOMPLETE_PACKETS
      BY <1>2, <2>1, ProbeFinds DEF TrackInv, ParkedInv
    <2>2. CASE key \notin DOMAIN INCOMPLETE_PACKETS
      BY <1>6, <2>2
    <2>3. QED BY <2>1, <2>2
  <1>8. t \in DOMAIN PROXY_TEMP_MAP => src.real_port \in disturbed \cup {dialing[t]}
    BY <1>2, ProbeFinds
  <1>9. ASSUME \A c \in Clients : Settled(c) => Settled(c)' PROVE ProbeFrame(t)'
    <2>1. CASE frame'[t].pc = "conn_learn" /\ frame'[t].pkt = frame[t].pkt
      BY <1>6, <2>1 DEF ProbeFrame, TheKey, ConnectionKey
    <2>2. CASE /\ frame'[t].pc = "conn_unpark" /\ t \in DOMAIN PROXY_TEMP_MAP
               /\ frame'[t].pkt.src_port = src.real_port
               /\ frame'[t].pkt.conn = parked.conn
               /\ ConnectionKey(frame'[t].pkt) = ConnectionKey(parked)
      <3> HIDE DEF parked, src, key
      <3>1. Settled(frame'[t].pkt.conn) /\ frame'[t].pkt.conn \in Clients
        BY <1>7, <2>2 DEF Settled
      <3>2. /\ client'[frame'[t].pkt.conn] = "arrived"
            /\ ~\E cpu \in Cpus : frame'[cpu].pc \in {"proxy", "park"}
                                  /\ frame'[cpu].pkt.conn = frame'[t].pkt.conn
        BY <1>9, <3>1 DEF Settled, Travels
      <3>3. QED BY <1>6, <1>7, <1>8, <2>2, <3>1, <3>2
            DEF ProbeFrame, TheKey, ConnectionKey, Settled, Travels, Grows
    <2>3. QED BY <1>4, <2>1, <2>2
  <1>10. OwnFrame(t)'
    BY <1>4 DEF OwnFrame, Resolved
  <1>11. \A x \in DOMAIN PROXY_TEMP_MAP : PROXY_TEMP_MAP[x].real_port \in Clients
    BY DEF ProxyInv, Known, Accepted
  <1>12. /\ LearnedInv' /\ dialing' \in [Threads -> Nat]
         /\ \A c \in Clients : client'[c] = "dialed" => Safe(c)'
    BY <1>1, <1>5 DEF TrackInv, LearnedInv, SynInv, Grows, tables
  <1>13. QED
    <2> DEFINE gone == {}
    <2>1. (\A c \in Clients \ gone : Safe(c) => Safe(c)') /\ \A x : x \notin gone
      BY <1>5
    <2>2. UNCHANGED <<INCOMPLETE_PACKETS, client, PROXY_TEMP_MAP>>
      BY <1>1 DEF tables
    <2>3. frame'[t].pc = "conn_unpark" =>
             /\ t \in DOMAIN PROXY_TEMP_MAP
             /\ frame'[t].pkt.src_port = PROXY_TEMP_MAP[t].real_port
      BY <1>4
    <2> HIDE DEF gone
    <2>4. QED BY <1>1, <1>2, <1>9, <1>10, <1>11, <1>12, <2>1, <2>2, <2>3, TrackStays

(* The probe ends: by completing its own packet with its own client, which   *)
(* leaves no trace of it in the maps, or else its client is disturbed.       *)
LEMMA UnparkTracks ==
    ASSUME NetTypes, ProxyInv, TrackInv, Grows, NEW t \in Threads, ConnUnpark(t),
           UNCHANGED dialing, Strays(t) => dialing[t] \in disturbed'
    PROVE  TrackInv'
  <1> DEFINE c == frame[t].pkt.conn
             d == frame[t].pkt.src_port
             p == dialing[t]
             gone == IF Strays(t) THEN {} ELSE {p}
  <1>1. /\ frame[t].pc = "conn_unpark" /\ Moves(t)
        /\ frame'[t].pc \in {"dedup_insert", "done"} /\ frame'[t].pkt = frame[t].pkt
        /\ INCOMPLETE_PACKETS' = Drop(INCOMPLETE_PACKETS, ConnectionKey(frame[t].pkt))
        /\ PROXY_TEMP_MAP' = Drop(PROXY_TEMP_MAP, t)
        /\ UNCHANGED <<REAL_SOURCE_MAP, client>>
    BY ConnUnparkStep DEF Judges, Advances
  <1>0. /\ DOMAIN PROXY_TEMP_MAP' = DOMAIN PROXY_TEMP_MAP \ {t}
        /\ \A x \in DOMAIN PROXY_TEMP_MAP' : PROXY_TEMP_MAP'[x] = PROXY_TEMP_MAP[x]
        /\ DOMAIN INCOMPLETE_PACKETS' = DOMAIN INCOMPLETE_PACKETS \ {ConnectionKey(frame[t].pkt)}
    BY <1>1 DEF Drop
  <1>2. t \in Programs /\ t \notin Cpus /\ frame[t].pc \in InProbe
    BY <1>1, NetworkAssumption DEF Programs, InProbe
  <1>3. /\ p \in Clients /\ ConnectionKey(frame[t].pkt) = TheKey /\ Settled(c)
        /\ c \in disturbed \cup {p} /\ d \in disturbed \cup {p}
    BY <1>1, <1>2 DEF TrackInv, ProbeFrame
  <1>4. ~Strays(t) => c = p /\ d = p
    BY <1>1 DEF Strays, InProbe
  <1>5. \A x \in Clients \ gone : Safe(x) => Safe(x)'
    <2> SUFFICES ASSUME NEW x \in Clients \ gone, Safe(x) PROVE Safe(x)'
      OBVIOUS
    <2>1. CASE x = p
      BY <2>1 DEF Safe
    <2>2. CASE x # p
      <3>1. ASSUME NEW u \in Threads, frame[u].pc \in InProbe, dialing[u] = x
            PROVE  frame'[u] = frame[u] /\ dialing'[u] = x
        BY <1>1, <2>2, <3>1 DEF Moves, Programs
      <3> HIDE DEF gone
      <3>2. QED BY <1>1, <3>1 DEF Safe, Due, Grows
    <2>3. QED BY <2>1, <2>2
  <1>6. \A x \in DOMAIN PROXY_TEMP_MAP' :
           /\ x \in DOMAIN PROXY_TEMP_MAP /\ PROXY_TEMP_MAP'[x] = PROXY_TEMP_MAP[x]
           /\ PROXY_TEMP_MAP[x].real_port \in Clients \ gone
    <2> SUFFICES ASSUME NEW x \in DOMAIN PROXY_TEMP_MAP'
                 PROVE  /\ x \in DOMAIN PROXY_TEMP_MAP /\ PROXY_TEMP_MAP'[x] = PROXY_TEMP_MAP[x]
                        /\ PROXY_TEMP_MAP[x].real_port \in Clients \ gone
      OBVIOUS
    <2>1. x \in DOMAIN PROXY_TEMP_MAP /\ x # t /\ PROXY_TEMP_MAP'[x] = PROXY_TEMP_MAP[x]
      BY <1>0
    <2>2. PROXY_TEMP_MAP[x].real_port \in Clients
      BY <2>1 DEF ProxyInv, Known, Accepted
    <2>3. PROXY_TEMP_MAP[x].real_port # d
      BY <1>1, <2>1 DEF TrackInv, TempInv
    <2>4. QED BY <1>4, <2>1, <2>2, <2>3
  <1>7. DOMAIN INCOMPLETE_PACKETS' = {}
    BY <1>0, <1>3 DEF TrackInv, ParkedInv
  <1>8. \A cpu \in Cpus : frame[cpu].pc \in {"proxy", "park"} => frame[cpu].pkt.conn \notin gone
    BY <1>3, <1>4 DEF Settled, Travels
  <1>9. LearnedInv' /\ dialing' \in [Threads -> Nat]
    BY <1>1 DEF TrackInv, LearnedInv, Grows
  <1>10. \A x \in Clients : client'[x] = "dialed" => Safe(x)'
    <2> SUFFICES ASSUME NEW x \in Clients, client'[x] = "dialed" PROVE Safe(x)'
      OBVIOUS
    <2>1. Safe(x) /\ x \notin gone
      BY <1>1, <1>3, <1>4 DEF TrackInv, SynInv, Settled
    <2> HIDE DEF gone
    <2>2. QED BY <1>5, <2>1
  <1>11. ProbeFrame(t)'
    BY <1>1 DEF ProbeFrame, InProbe
  <1>12. OwnFrame(t)'
    BY <1>1, <1>3, <1>4 DEF OwnFrame, Grows
  <1> HIDE DEF gone
  <1>13. QED
    BY <1>1, <1>2, <1>5, <1>6, <1>7, <1>8, <1>9, <1>10, <1>11, <1>12, TrackStays

LEMMA LearnTracks ==
    ASSUME NetTypes, ProxyInv, TrackInv, Grows, NEW t \in Threads, ConnLearn(t),
           UNCHANGED dialing, Strays(t) => dialing[t] \in disturbed'
    PROVE  TrackInv'
  <1>1. /\ frame[t].pc = "conn_learn" /\ Moves(t)
        /\ frame'[t].pc = "done" /\ frame'[t].fate = "learned" /\ frame'[t].pkt = frame[t].pkt
        /\ UNCHANGED <<INCOMPLETE_PACKETS, client>>
    BY ConnLearnStep DEF Advances
  <1>2. t \in Programs /\ t \notin Cpus /\ frame[t].pc \in InProbe
    BY <1>1, NetworkAssumption DEF Programs, InProbe
  <1>3. dialing[t] \in Clients /\ dialing[t] \in disturbed'
    BY <1>1, <1>2 DEF TrackInv, ProbeFrame, Strays, InProbe
  <1>4. \A x \in Clients : Safe(x) => Safe(x)'
    <2> SUFFICES ASSUME NEW x \in Clients, x # dialing[t], Safe(x) PROVE Safe(x)'
      BY <1>3 DEF Safe
    <2>1. ASSUME NEW u \in Threads, frame[u].pc \in InProbe, dialing[u] = x
          PROVE  frame'[u] = frame[u] /\ dialing'[u] = x
      BY <1>1, <2>1 DEF Moves, Programs
    <2>2. QED BY <1>1, <2>1 DEF Safe, Due, Grows
  <1>5. /\ LearnedInv'
        /\ \A x \in DOMAIN PROXY_TEMP_MAP' :
              x \in DOMAIN PROXY_TEMP_MAP /\ PROXY_TEMP_MAP'[x] = PROXY_TEMP_MAP[x]
    <2>1. CASE UNCHANGED <<REAL_SOURCE_MAP, PROXY_TEMP_MAP>>
      BY <2>1 DEF TrackInv, LearnedInv, Grows
    <2>2. CASE /\ t \in DOMAIN PROXY_TEMP_MAP
               /\ REAL_SOURCE_MAP' \in LruPuts(REAL_SOURCE_MAP, ConnectionKey(frame[t].pkt),
                                               PROXY_TEMP_MAP[t], ProxyMapSize)
               /\ PROXY_TEMP_MAP' = Drop(PROXY_TEMP_MAP, t)
      <3>1. PROXY_TEMP_MAP[t].real_port \in disturbed'
        BY <1>2, <1>3, <2>2, ProbeFinds DEF Grows
      <3> DEFINE k == ConnectionKey(frame[t].pkt)
      <3>2. /\ REAL_SOURCE_MAP'[k] = PROXY_TEMP_MAP[t]
            /\ \A x \in DOMAIN REAL_SOURCE_MAP' : x # k =>
                  x \in DOMAIN REAL_SOURCE_MAP /\ REAL_SOURCE_MAP'[x] = REAL_SOURCE_MAP[x]
        BY <2>2, LruPutsFacts
      <3> HIDE DEF k
      <3>3. LearnedInv'
        BY <3>1, <3>2 DEF TrackInv, LearnedInv, Grows
      <3>4. QED BY <2>2, <3>3, DropFacts
    <2>3. QED BY <2>1, <2>2, ConnLearnStep
  <1>6. \A x \in DOMAIN PROXY_TEMP_MAP : PROXY_TEMP_MAP[x].real_port \in Clients
    BY DEF ProxyInv, Known, Accepted
  <1>7. /\ dialing' \in [Threads -> Nat]
        /\ \A c \in Clients : client'[c] = "dialed" => Safe(c)'
    BY <1>1, <1>4 DEF TrackInv, SynInv
  <1>8. ProbeFrame(t)' /\ OwnFrame(t)'
    BY <1>1 DEF ProbeFrame, OwnFrame, Resolved, InProbe
  <1> DEFINE gone == {}
  <1>9. (\A c \in Clients \ gone : Safe(c) => Safe(c)') /\ \A x : x \notin gone
    BY <1>4
  <1> HIDE DEF gone
  <1>10. QED BY <1>1, <1>2, <1>5, <1>6, <1>7, <1>8, <1>9, TrackStays


(* A program that neither is nor becomes a probe, and does not put a SYN on  *)
(* its way.                                                                  *)
LEMMA OthersTrack ==
    ASSUME NetTypes, ProxyInv, TrackInv, Grows, NEW who \in Programs, Moves(who), OwnFrame(who)',
           frame[who].pc \notin InProbe, frame'[who].pc \notin InProbe,
           who \in Cpus /\ frame'[who].pc \in {"proxy", "park"} =>
              frame[who].pc \in {"proxy", "park"} /\ frame'[who].pkt = frame[who].pkt,
           UNCHANGED <<client, PROXY_TEMP_MAP, REAL_SOURCE_MAP, INCOMPLETE_PACKETS, dialing>>
    PROVE  TrackInv'
  <1>1. \A c \in Clients : Safe(c) => Safe(c)'
    BY DEF Safe, Due, Moves, Programs, Grows
  <1>2. \A x \in DOMAIN PROXY_TEMP_MAP : PROXY_TEMP_MAP[x].real_port \in Clients
    BY DEF ProxyInv, Known, Accepted
  <1>3. /\ LearnedInv' /\ dialing' \in [Threads -> Nat]
        /\ \A c \in Clients : client'[c] = "dialed" => Safe(c)'
    BY <1>1 DEF TrackInv, LearnedInv, SynInv, Grows
  <1>4. ProbeFrame(who)'
    BY DEF ProbeFrame, InProbe
  <1>5. frame'[who].pc # "conn_unpark"
    BY DEF InProbe
  <1> DEFINE gone == {}
  <1>6. (\A c \in Clients \ gone : Safe(c) => Safe(c)') /\ \A x : x \notin gone
    BY <1>1
  <1> HIDE DEF gone
  <1>7. QED BY <1>2, <1>3, <1>4, <1>5, <1>6, TrackStays

LEMMA DialTracks ==
    ASSUME NetTypes, ProxyInv, TrackInv, Grows, NEW c \in Clients, NEW t \in Threads, Dial(c, t)
    PROVE  TrackInv'
  <1>1. /\ frame[t].pc \in {"idle", "done"} /\ Moves(t)
        /\ frame'[t].pc = "conn_parked" /\ frame'[t].pkt = SynOf(c)
        /\ client' = [client EXCEPT ![c] = "dialed"]
        /\ UNCHANGED <<tables, PROXY_TEMP_MAP>>
    BY DialStep
  <1>2. client[c] = "accepted" /\ dialing' = [dialing EXCEPT ![t] = c]
    BY DEF Dial
  <1>3. /\ client \in [Clients -> {"new", "accepted", "dialed", "arrived"}]
        /\ dialing \in [Threads -> Nat] /\ c \in Nat
    BY ProxyAssumption DEF ProxyInv, TrackInv
  <1>4. t \in Programs /\ t \notin Cpus
    BY NetworkAssumption DEF Programs
  <1>5. Due(c)'
    BY <1>1, <1>2, <1>3 DEF Due, InProbe
  <1>6. \A x \in Clients : Safe(x) => Safe(x)'
    <2> SUFFICES ASSUME NEW x \in Clients, x # c, Safe(x) PROVE Safe(x)'
      BY <1>5 DEF Safe
    <2>1. ASSUME NEW u \in Threads, frame[u].pc \in InProbe, dialing[u] = x
          PROVE  frame'[u] = frame[u] /\ dialing'[u] = x
      BY <1>1, <1>2, <1>3, <2>1 DEF Moves, Programs, InProbe
    <2>2. client[x] = "accepted" => client'[x] = "accepted"
      BY <1>1, <1>3
    <2>3. QED BY <2>1, <2>2 DEF Safe, Due, Grows
  <1>7. /\ \A x \in Clients : client[x] = "arrived" => client'[x] = "arrived"
        /\ \A x \in Clients : client'[x] = "dialed" => Safe(x)'
    <2>1. \A x \in Clients : x # c => client'[x] = client[x]
      BY <1>1, <1>3
    <2>2. client[c] # "arrived" /\ Safe(c)'
      BY <1>2, <1>5 DEF Safe
    <2>3. \A x \in Clients : client[x] = "dialed" => Safe(x)'
      BY <1>6 DEF TrackInv, SynInv
    <2>4. QED BY <2>1, <2>2, <2>3
  <1>8. \A x \in DOMAIN PROXY_TEMP_MAP : PROXY_TEMP_MAP[x].real_port \in Clients
    BY DEF ProxyInv, Known, Accepted
  <1>9. /\ LearnedInv' /\ dialing' \in [Threads -> Nat]
        /\ \A u \in Threads : u # t => dialing'[u] = dialing[u]
    BY <1>1, <1>2, <1>3 DEF TrackInv, LearnedInv, Grows, tables
  <1>10. ConnectionKey(SynOf(c)) = TheKey
    BY DEF ConnectionKey, SynOf, TheKey
  <1>11. ProbeFrame(t)' /\ OwnFrame(t)'
    <2>1. dialing'[t] \in Clients
      BY <1>2, <1>3
    <2>2. QED BY <1>1, <1>10, <2>1
          DEF ProbeFrame, OwnFrame, Resolved, InProbe, TheKey, ConnectionKey
  <1>12. UNCHANGED INCOMPLETE_PACKETS
    BY <1>1 DEF tables
  <1> DEFINE gone == {}
  <1>13. (\A x \in Clients \ gone : Safe(x) => Safe(x)') /\ \A x : x \notin gone
    BY <1>6
  <1> HIDE DEF gone
  <1>14. QED BY <1>1, <1>4, <1>7, <1>8, <1>9, <1>11, <1>12, <1>13, TrackStays

(* The other steps touch one part each. *)
LEMMA AcceptTracks ==
    ASSUME NetTypes, ProxyInv, TrackInv, Grows, NEW c \in Clients, NEW t \in Threads,
           track_proxy_accept(c, t)
    PROVE  TrackInv'
  <1> DEFINE real == [real_ip |-> HostIp, real_port |-> c]
  <1>1. /\ client[c] = "new" /\ client' = [client EXCEPT ![c] = "accepted"] /\ Free(t)
        /\ PROXY_TEMP_MAP' \in LruPuts(PROXY_TEMP_MAP, t, real, ProxyMapSize)
        /\ UNCHANGED <<REAL_SOURCE_MAP, INCOMPLETE_PACKETS, frame, dialing>>
    BY DEF track_proxy_accept, AcceptedSock, tables
  <1>2. client \in [Clients -> {"new", "accepted", "dialed", "arrived"}]
    BY DEF ProxyInv
  <1>3. client'[c] = "accepted" /\ \A x \in Clients : x # c => client'[x] = client[x]
    BY <1>1, <1>2
  <1>4. \A x \in Clients : Safe(x) => Safe(x)'
    BY <1>1, <1>3 DEF Safe, Due, Grows
  <1>5. \A x \in Clients : Settled(x) => Settled(x)'
    BY <1>1, <1>3 DEF Settled, Travels
  <1>6. Safe(c)'
    BY <1>3 DEF Safe, Due
  <1>7. TempInv'
    <2>1. /\ t \in DOMAIN PROXY_TEMP_MAP' /\ PROXY_TEMP_MAP'[t].real_port = c
          /\ \A x \in DOMAIN PROXY_TEMP_MAP' : x # t =>
                x \in DOMAIN PROXY_TEMP_MAP /\ PROXY_TEMP_MAP'[x] = PROXY_TEMP_MAP[x]
      <3>1. /\ t \in DOMAIN PROXY_TEMP_MAP' /\ PROXY_TEMP_MAP'[t] = real
            /\ \A x \in DOMAIN PROXY_TEMP_MAP' : x # t =>
                  x \in DOMAIN PROXY_TEMP_MAP /\ PROXY_TEMP_MAP'[x] = PROXY_TEMP_MAP[x]
        <4> HIDE DEF real
        <4>1. QED BY <1>1, LruPutsFacts
      <3>2. QED BY <3>1
    <2>2. \A x \in DOMAIN PROXY_TEMP_MAP :
              PROXY_TEMP_MAP[x].real_port \in Clients \ {c} /\ Safe(PROXY_TEMP_MAP[x].real_port)
      BY <1>1 DEF ProxyInv, Known, Accepted, TrackInv, TempInv
    <2>3. \A u \in Threads : frame[u].pc = "conn_unpark" => frame[u].pkt.src_port # c
      BY <1>1 DEF ProxyInv, SourceRight, Programs, Pcs, Accepted
    <2>4. ASSUME NEW x \in DOMAIN PROXY_TEMP_MAP' PROVE Safe(PROXY_TEMP_MAP[x].real_port)'
      <3>1. CASE x = t
        BY <1>6, <2>1, <3>1 DEF Safe, Due
      <3>2. CASE x # t
        BY <1>4, <2>1, <2>2, <3>2 DEF Safe, Due
      <3>3. QED BY <3>1, <3>2
    <2>5. DOMAIN PROXY_TEMP_MAP' \subseteq Threads
      BY <2>1 DEF TrackInv, TempInv
    <2>6. ASSUME NEW x \in DOMAIN PROXY_TEMP_MAP', NEW u \in DOMAIN PROXY_TEMP_MAP',
                 PROXY_TEMP_MAP'[u].real_port = PROXY_TEMP_MAP'[x].real_port
          PROVE  u = x
      BY <2>1, <2>2, <2>6 DEF TrackInv, TempInv
    <2>7. ASSUME NEW x \in DOMAIN PROXY_TEMP_MAP', NEW u \in Threads,
                 frame'[u].pc = "conn_unpark",
                 frame'[u].pkt.src_port = PROXY_TEMP_MAP'[x].real_port
          PROVE  u = x
      BY <1>1, <2>1, <2>3, <2>7 DEF TrackInv, TempInv
    <2>8. QED BY <2>4, <2>5, <2>6, <2>7 DEF TempInv
  <1>8. ParkedInv'
    <2>1. \A key \in DOMAIN INCOMPLETE_PACKETS : INCOMPLETE_PACKETS[key].conn \in Clients
      BY DEF TrackInv, ParkedInv, Settled
    <2>2. QED BY <1>1, <1>4, <1>5, <2>1
          DEF TrackInv, ParkedInv, TheKey, ConnectionKey, Settled, Travels, Safe, Due
  <1>9. SynInv'
    <2>1. ASSUME NEW cpu \in Cpus PROVE SynFrame(cpu)'
      BY <1>1, <1>3, <1>4 DEF TrackInv, SynInv, SynFrame, TheKey, ConnectionKey, Safe, Due
    <2>2. QED BY <1>3, <1>4, <2>1 DEF TrackInv, SynInv
  <1>10. ASSUME NEW u \in Threads PROVE ProbeFrame(u)'
    BY <1>1, <1>3, <1>5
    DEF TrackInv, ProbeFrame, TheKey, ConnectionKey, Settled, Travels, Grows
  <1>11. ASSUME NEW w \in Programs PROVE OwnFrame(w)'
    BY <1>1 DEF TrackInv, OwnFrame, Resolved, Grows
  <1>12. QED
    BY <1>1, <1>7, <1>8, <1>9, <1>10, <1>11 DEF TrackInv, LearnedInv, Grows

LEMMA SynArrivesTracks ==
    ASSUME NetTypes, ProxyInv, TrackInv, Grows, NEW c \in Clients, NEW cpu \in Cpus,
           SynArrives(c, cpu)
    PROVE  TrackInv'
  <1>1. /\ client[c] = "dialed" /\ client' = [client EXCEPT ![c] = "arrived"]
        /\ frame[cpu].pc \in {"idle", "done"} /\ Moves(cpu) /\ frame'[cpu].pkt = SynOf(c)
        /\ \/ frame'[cpu].pc = "proxy"
           \/ frame'[cpu].pc = "done" /\ frame'[cpu].fate = "ignored"
        /\ UNCHANGED <<REAL_SOURCE_MAP, INCOMPLETE_PACKETS, PROXY_TEMP_MAP, dialing>>
    <2>1. /\ client[c] = "dialed" /\ client' = [client EXCEPT ![c] = "arrived"]
          /\ Arrive(cpu, SynOf(c)) /\ UNCHANGED <<PROXY_TEMP_MAP, dialing>>
          /\ SynOf(c) \in SkBuff /\ SynOf(c).src_ip \in ProxyIps
      BY SynTyped, ProxyAssumption DEF SynArrives
    <2>2. /\ frame[cpu].pc \in {"idle", "done"} /\ Moves(cpu) /\ frame'[cpu].pkt = SynOf(c)
          /\ UNCHANGED tables
          /\ \/ frame'[cpu].pc = "proxy"
             \/ frame'[cpu].pc = "done" /\ frame'[cpu].fate = "ignored"
      BY <2>1, ArriveStep DEF Settles
    <2>3. QED BY <2>1, <2>2 DEF tables
  <1>2. cpu \in Programs /\ cpu \notin Threads
    BY NetworkAssumption DEF Programs
  <1>3. /\ client'[c] = "arrived"
        /\ \A x \in Clients : x # c => client'[x] = client[x]
    BY <1>1 DEF ProxyInv
  <1>4. \A t \in Threads : frame'[t] = frame[t]
    BY <1>1, <1>2 DEF Moves, Programs
  <1>5. \A x \in Clients : Safe(x) => Safe(x)'
    BY <1>1, <1>3, <1>4 DEF Safe, Due, Grows
  <1>6. SynOf(c).conn = c /\ ConnectionKey(SynOf(c)) = TheKey
    BY DEF SynOf, ConnectionKey, TheKey
  <1>7. \A x \in Clients : Settled(x) => Settled(x)'
    <2> SUFFICES ASSUME NEW x \in Clients, Settled(x) PROVE Settled(x)'
      OBVIOUS
    <2>1. x # c /\ client'[x] = "arrived"
      BY <1>1, <1>3 DEF Settled
    <2>2. ASSUME NEW a \in Cpus, frame'[a].pc \in {"proxy", "park"}, frame'[a].pkt.conn = x
          PROVE  FALSE
      <3>1. a # cpu
        BY <1>1, <1>6, <2>1, <2>2
      <3>2. frame'[a] = frame[a]
        BY <1>1, <3>1 DEF Moves, Programs
      <3>3. QED BY <2>2, <3>2 DEF Settled, Travels
    <2>3. QED BY <2>1, <2>2 DEF Settled, Travels
  <1>8. TempInv'
    <2>1. \A x \in DOMAIN PROXY_TEMP_MAP :
              PROXY_TEMP_MAP[x].real_port \in Clients /\ Safe(PROXY_TEMP_MAP[x].real_port)
      BY DEF ProxyInv, Known, Accepted, TrackInv, TempInv
    <2>2. \A x \in DOMAIN PROXY_TEMP_MAP : Safe(PROXY_TEMP_MAP[x].real_port)'
      BY <1>1, <1>5, <2>1 DEF Safe, Due
    <2>3. QED BY <1>1, <1>4, <2>2 DEF TrackInv, TempInv
  <1>9. ParkedInv'
    <2>1. \A key \in DOMAIN INCOMPLETE_PACKETS : INCOMPLETE_PACKETS[key].conn \in Clients
      BY DEF TrackInv, ParkedInv, Settled
    <2>2. QED BY <1>1, <1>5, <1>7, <2>1
          DEF TrackInv, ParkedInv, TheKey, ConnectionKey, Settled, Travels, Safe, Due
  <1>10. ASSUME NEW a \in Cpus PROVE SynFrame(a)'
    <2> SUFFICES ASSUME frame'[a].pc \in {"proxy", "park"} PROVE SynFrame(a)'
      BY DEF SynFrame
    <2>1. \A b \in Cpus : frame[b].pc \in {"proxy", "park"} => frame[b].pkt.conn # c
      BY <1>1 DEF TrackInv, SynInv, SynFrame
    <2>2. \A b \in Cpus : b # cpu => frame'[b] = frame[b]
      BY <1>1 DEF Moves, Programs
    <2>3. CASE a = cpu
      <3>1. Safe(c)'
        BY <1>1, <1>5 DEF TrackInv, SynInv
      <3>2. QED BY <1>1, <1>3, <1>6, <2>1, <2>2, <2>3, <3>1
            DEF SynFrame, TheKey, ConnectionKey, Safe, Due
    <2>4. CASE a # cpu
      <3> DEFINE x == frame[a].pkt.conn
      <3>1. frame'[a] = frame[a] /\ frame[a].pc \in {"proxy", "park"}
        BY <2>2, <2>4
      <3>2. /\ x \in Clients \ {c} /\ client[x] = "arrived" /\ Safe(x)
            /\ ConnectionKey(frame[a].pkt) = TheKey
            /\ \A other \in Cpus :
                  frame[other].pc \in {"proxy", "park"} /\ frame[other].pkt.conn = x => other = a
        BY <2>1, <3>1 DEF TrackInv, SynInv, SynFrame
      <3>3. client'[x] = "arrived"
        BY <1>3, <3>2
      <3>4. x \in disturbed' \/ client'[x] = "accepted"
               \/ \E t \in Threads : frame'[t].pc \in InProbe /\ dialing'[t] = x
        <4> HIDE DEF x
        <4>1. QED BY <1>5, <3>2 DEF Safe, Due
      <3>5. \A other \in Cpus :
               frame'[other].pc \in {"proxy", "park"} /\ frame'[other].pkt.conn = x => other = a
        BY <1>1, <1>6, <2>2, <3>2
      <3>6. QED BY <3>1, <3>2, <3>3, <3>4, <3>5 DEF SynFrame, TheKey, ConnectionKey, Safe, Due
    <2>5. QED BY <2>3, <2>4
  <1>11. \A x \in Clients : client'[x] = "dialed" => Safe(x)'
    <2>1. \A x \in Clients : client'[x] = "dialed" => client[x] = "dialed"
      BY <1>3
    <2>2. QED BY <1>5, <2>1 DEF TrackInv, SynInv
  <1>12. ASSUME NEW u \in Threads PROVE ProbeFrame(u)'
    BY <1>1, <1>3, <1>4, <1>7
    DEF TrackInv, ProbeFrame, TheKey, ConnectionKey, Settled, Travels, Grows
  <1>13. ASSUME NEW w \in Programs PROVE OwnFrame(w)'
    <2>1. CASE w = cpu
      BY <1>1, <2>1 DEF OwnFrame, Resolved
    <2>2. CASE w # cpu
      BY <1>1, <2>2 DEF Moves, TrackInv, OwnFrame, Resolved, Grows
    <2>3. QED BY <2>1, <2>2
  <1>14. QED
    BY <1>1, <1>8, <1>9, <1>10, <1>11, <1>12, <1>13 DEF TrackInv, LearnedInv, SynInv, Grows

LEMMA ParkTracks ==
    ASSUME NetTypes, ProxyInv, TrackInv, Grows, NEW cpu \in Cpus, Park(cpu),
           UNCHANGED <<client, PROXY_TEMP_MAP, dialing>>
    PROVE  TrackInv'
  <1> DEFINE pkt == frame[cpu].pkt
             k == ConnectionKey(pkt)
  <1>1. /\ frame[cpu].pc = "park"
        /\ INCOMPLETE_PACKETS' \in LruPuts(INCOMPLETE_PACKETS, k, pkt, ProxyMapSize)
        /\ Moves(cpu) /\ frame'[cpu].pc = "done" /\ frame'[cpu].pkt = pkt
        /\ frame'[cpu].fate = "parked"
        /\ UNCHANGED REAL_SOURCE_MAP
    BY ParkStep DEF Advances
  <1>2. cpu \in Programs /\ cpu \notin Threads
    BY NetworkAssumption DEF Programs
  <1>3. /\ INCOMPLETE_PACKETS'[k] = pkt
        /\ \A x \in DOMAIN INCOMPLETE_PACKETS' : x # k =>
              x \in DOMAIN INCOMPLETE_PACKETS /\ INCOMPLETE_PACKETS'[x] = INCOMPLETE_PACKETS[x]
    BY <1>1, LruPutsFacts
  <1>4. /\ pkt.conn \in Clients /\ client[pkt.conn] = "arrived" /\ Safe(pkt.conn) /\ k = TheKey
        /\ \A other \in Cpus :
              frame[other].pc \in {"proxy", "park"} /\ frame[other].pkt.conn = pkt.conn
              => other = cpu
    BY <1>1 DEF TrackInv, SynInv, SynFrame
  <1>5. \A t \in Threads : frame'[t] = frame[t]
    BY <1>1, <1>2 DEF Moves, Programs
  <1>6. \A x \in Clients : Safe(x) => Safe(x)'
    BY <1>5 DEF Safe, Due, Grows
  <1>7. \A a \in Cpus : frame'[a].pc \in {"proxy", "park"} => a # cpu /\ frame'[a] = frame[a]
    BY <1>1 DEF Moves, Programs
  <1>8. \A x \in Clients : Settled(x) => Settled(x)'
    BY <1>7 DEF Settled, Travels
  <1>9. ParkedInv'
    <2>1. \A key \in DOMAIN INCOMPLETE_PACKETS' : key = TheKey /\ INCOMPLETE_PACKETS'[key] = pkt
      BY <1>3, <1>4 DEF TrackInv, ParkedInv
    <2>2. /\ client'[pkt.conn] = "arrived"
          /\ ~\E a \in Cpus : frame'[a].pc \in {"proxy", "park"} /\ frame'[a].pkt.conn = pkt.conn
      BY <1>4, <1>7
    <2>3. \/ pkt.conn \in disturbed' \/ client'[pkt.conn] = "accepted"
          \/ \E t \in Threads : frame'[t].pc \in InProbe /\ dialing'[t] = pkt.conn
      BY <1>4, <1>5 DEF Safe, Due, Grows
    <2> HIDE DEF pkt
    <2>4. QED BY <1>4, <2>1, <2>2, <2>3
          DEF ParkedInv, TheKey, ConnectionKey, Settled, Travels, Safe, Due
  <1>10. TempInv'
    <2>1. \A x \in DOMAIN PROXY_TEMP_MAP :
              PROXY_TEMP_MAP[x].real_port \in Clients /\ Safe(PROXY_TEMP_MAP[x].real_port)
      BY DEF ProxyInv, Known, Accepted, TrackInv, TempInv
    <2>2. \A x \in DOMAIN PROXY_TEMP_MAP : Safe(PROXY_TEMP_MAP[x].real_port)'
      BY <1>6, <2>1 DEF Safe, Due
    <2>3. QED BY <1>5, <2>2 DEF TrackInv, TempInv
  <1>11. ASSUME NEW a \in Cpus PROVE SynFrame(a)'
    <2>1. SynFrame(a)
      BY DEF TrackInv, SynInv
    <2>2. QED BY <1>6, <1>7, <2>1 DEF SynFrame, TheKey, ConnectionKey, Safe, Due
  <1>12. SynInv'
    BY <1>6, <1>11 DEF TrackInv, SynInv
  <1>13. ASSUME NEW u \in Threads PROVE ProbeFrame(u)'
    BY <1>5, <1>8 DEF TrackInv, ProbeFrame, TheKey, ConnectionKey, Settled, Travels, Grows
  <1>14. ASSUME NEW w \in Programs PROVE OwnFrame(w)'
    <2>1. CASE w = cpu
      BY <1>1, <2>1 DEF OwnFrame, Resolved
    <2>2. CASE w # cpu
      BY <1>1, <2>2 DEF Moves, TrackInv, OwnFrame, Resolved, Grows
    <2>3. QED BY <2>1, <2>2
  <1>15. QED
    BY <1>1, <1>9, <1>10, <1>12, <1>13, <1>14 DEF TrackInv, LearnedInv, Grows

LEMMA LookupRealTracks ==
    ASSUME NetTypes, ProxyInv, TrackInv, Grows, NEW cpu \in Cpus, LookupRealSource(cpu),
           UNCHANGED <<client, PROXY_TEMP_MAP, dialing>>
    PROVE  TrackInv'
  <1> DEFINE pkt == frame[cpu].pkt
             key == ConnectionKey(pkt)
             src == REAL_SOURCE_MAP[key]
             new == [pkt EXCEPT !.src_ip = src.real_ip, !.src_port = src.real_port]
  <1>0. cpu \in Programs /\ cpu \notin Threads
    BY NetworkAssumption DEF Programs
  <1>1. /\ frame[cpu].pc = "proxy" /\ UNCHANGED <<REAL_SOURCE_MAP, INCOMPLETE_PACKETS>>
        /\ \/ key \in DOMAIN REAL_SOURCE_MAP /\ new \in SkBuff /\ Settles(cpu, new)
           \/ Advances(cpu, "park") /\ frame'[cpu].fate = frame[cpu].fate
    BY LookupRealSourceStep DEF tables
  <1>2. CASE key \in DOMAIN REAL_SOURCE_MAP /\ new \in SkBuff /\ Settles(cpu, new)
    <2>1. src.real_port \in disturbed /\ pkt \in SkBuff
      BY <1>0, <1>1, <1>2, RunningPc DEF TrackInv, LearnedInv, Pcs, Running
    <2>2. new.src_port = src.real_port
      <3> HIDE DEF pkt, src
      <3>1. QED BY <2>1 DEF SkBuff
    <2>3. /\ Moves(cpu) /\ frame'[cpu].pkt = new
          /\ frame'[cpu].pc \in {"done", "flow_insert", "dedup_insert"}
      BY <1>2 DEF Settles
    <2> HIDE DEF new, src
    <2>4. OwnFrame(cpu)'
      BY <1>0, <2>1, <2>2, <2>3 DEF OwnFrame, Grows
    <2>5. QED BY <1>0, <1>1, <2>3, <2>4, OthersTrack DEF InProbe
  <1>3. CASE Advances(cpu, "park")
    <2>1. Moves(cpu) /\ frame'[cpu].pc = "park" /\ frame'[cpu].pkt = frame[cpu].pkt
      BY <1>3 DEF Advances
    <2>2. OwnFrame(cpu)'
      BY <2>1 DEF OwnFrame, Resolved
    <2>3. QED BY <1>0, <1>1, <2>1, <2>2, OthersTrack DEF InProbe
  <1>4. QED BY <1>1, <1>2, <1>3

LEMMA TrackUnchanged ==
    ASSUME TrackInv, Grows,
           UNCHANGED <<client, PROXY_TEMP_MAP, REAL_SOURCE_MAP, INCOMPLETE_PACKETS, dialing, frame>>
    PROVE  TrackInv'
  <1>1. \A c : (Safe(c) => Safe(c)') /\ (Settled(c) => Settled(c)')
    BY DEF Safe, Due, Settled, Travels, Grows
  <1>2. TempInv' /\ ParkedInv'
    BY <1>1 DEF TrackInv, TempInv, ParkedInv, TheKey, ConnectionKey, Safe, Due, Settled, Travels
  <1>3. SynInv'
    BY <1>1 DEF TrackInv, SynInv, SynFrame, TheKey, ConnectionKey, Safe, Due
  <1>4. (\A t \in Threads : ProbeFrame(t)') /\ \A who \in Programs : OwnFrame(who)'
    BY <1>1 DEF TrackInv, ProbeFrame, OwnFrame, Resolved, TheKey, ConnectionKey, Settled, Travels,
                Grows
  <1>5. QED BY <1>2, <1>3, <1>4 DEF TrackInv, LearnedInv, Grows

LEMMA ProxyInitTracks == ProxyInit => TrackInv
  <1> SUFFICES ASSUME ProxyInit PROVE TrackInv OBVIOUS
  <1>1. \A who \in Programs : frame[who].pc = "idle"
    BY DEF ProxyInit, NetInit, Programs, Idle
  <1>2. \A c \in Clients : client[c] = "new"
    BY DEF ProxyInit
  <1>3. \A c \in Clients : ~Open(c)
    BY <1>1, <1>2 DEF Open, InProbe, Programs
  <1>4. /\ DOMAIN PROXY_TEMP_MAP = {} /\ DOMAIN REAL_SOURCE_MAP = {}
        /\ DOMAIN INCOMPLETE_PACKETS = {} /\ dialing \in [Threads -> Nat]
    BY NoEntryFacts DEF ProxyInit, NetInit
  <1>5. /\ \A t \in Threads : ProbeFrame(t)
        /\ \A who \in Programs : OwnFrame(who)
        /\ \A cpu \in Cpus : SynFrame(cpu)
    BY <1>1 DEF ProbeFrame, OwnFrame, SynFrame, Resolved, InProbe, Programs
  <1>6. QED BY <1>2, <1>3, <1>4, <1>5
        DEF TrackInv, TempInv, LearnedInv, ParkedInv, SynInv, Overlapping

LEMMA ProxyNextTracks ==
    NetTypes /\ ProxyInv /\ TrackInv /\ [ProxyNext]_proxyVars => TrackInv'
  <1> SUFFICES ASSUME NetTypes, ProxyInv, TrackInv, [ProxyNext]_proxyVars PROVE TrackInv'
    OBVIOUS
  <1>1. CASE UNCHANGED proxyVars
    <2>1. Grows
      BY <1>1 DEF Grows, proxyVars, netVars, ghosts, TrackInv, Overlapping, Open
    <2>2. QED BY <1>1, <2>1, TrackUnchanged DEF proxyVars, netVars, tables, ghosts
  <1>2. CASE ProxyNext
    <2>0. Grows /\ \A t \in Threads : Strays(t) => dialing[t] \in disturbed'
      BY <1>2 DEF ProxyNext, Grows
    <2>1. ASSUME NEW t \in Threads, ProbeStep(t), UNCHANGED dialing PROVE TrackInv'
      BY <2>0, <2>1, LookupParkedTracks, LookupSourceTracks, UnparkTracks, LearnTracks
      DEF ProbeStep
    <2>2. CASE NetStep /\ UNCHANGED <<client, PROXY_TEMP_MAP, dialing>>
      <3>1. ASSUME NEW cpu \in Cpus, PacketStep(cpu) PROVE TrackInv'
        <4>1. frame[cpu].pc \notin {"flow_insert", "flow_lookup", "flow_update"}
          BY DEF ProxyInv, SourceRight, Pcs, Programs
        <4>2. QED BY <2>0, <2>2, <3>1, <4>1, LookupRealTracks, ParkTracks
              DEF PacketStep, FlowInsert, FlowLookup, FlowUpdate
      <3>2. ASSUME NEW who \in Programs, DedupStep(who) PROVE TrackInv'
        <4>1. /\ frame[who].pc \in {"dedup_insert", "dedup_lookup", "dedup_update", "send"}
              /\ UNCHANGED <<REAL_SOURCE_MAP, INCOMPLETE_PACKETS>>
              /\ \E pc \in {"dedup_lookup", "dedup_update", "send", "done"} : Advances(who, pc)
          BY <3>2, DedupInsertStep, DedupLookupStep, DedupUpdateStep, SendStep
          DEF DedupStep, Renews, tables
        <4>2. /\ Moves(who) /\ frame'[who].pkt = frame[who].pkt
              /\ frame'[who].pc \in {"dedup_lookup", "dedup_update", "send", "done"}
          BY <4>1 DEF Advances
        <4>3. Resolved(who)
          BY <4>1 DEF Resolved
        <4>4. OwnFrame(who)'
          BY <2>0, <4>2, <4>3 DEF TrackInv, OwnFrame, Grows
        <4>5. QED BY <2>0, <2>2, <4>1, <4>2, <4>4, OthersTrack DEF InProbe
      <3>3. CASE Tick
        BY <2>0, <2>2, <3>3, TrackUnchanged DEF Tick, tables
      <3>4. QED BY <2>2, <3>1, <3>2, <3>3 DEF NetStep, Programs
    <2>3. QED
      BY <1>2, <2>0, <2>1, <2>2, AcceptTracks, DialTracks, SynArrivesTracks DEF ProxyNext
  <1>3. QED BY <1>1, <1>2

(* A connection is reported under another client only if the tracking of that *)
(* client was disturbed, and, where a probe reported it, its own as well.    *)
THEOREM MisattributedOnlyIfDisturbed == ProxySpec => []OwnUnlessDisturbed
  <1>1. TrackInv => OwnUnlessDisturbed
    BY DEF TrackInv, OwnFrame, OwnUnlessDisturbed, Programs
  <1>2. QED
    BY <1>1, ProxyInitInv, ProxyInitTracks, ProxyNextTypes, ProxyNextInv, ProxyNextTracks, PTL
    DEF ProxySpec

=============================================================================
