--------------------------- MODULE FsTracking_proofs ---------------------------
(***************************************************************************)
(* Theorems about the file monitor, for all files, links, tasks and inode  *)
(* addresses and all sizes of its maps.                                    *)
(***************************************************************************)
EXTENDS FsTracking, BpfMaps_proofs, SequenceTheorems

\* A call as it stands on a task's stack.
Calls == [path : Paths, op : Ops, slot : {"kept", "none", "full", "taken"}]

Within(m, size) == IsFiniteSet(DOMAIN m) /\ Cardinality(DOMAIN m) <= size

StateTypes ==
    /\ Within(VFS_STATE, StateSize) /\ Within(SYMLINK_MAP, StateSize)
    /\ DOMAIN VFS_STATE \subseteq Tasks /\ DOMAIN SYMLINK_MAP \subseteq Tasks
    /\ \A t \in DOMAIN VFS_STATE :
          VFS_STATE[t] \in Paths /\ Files[VFS_STATE[t]].kind \in {"regular", "block"}
    /\ \A t \in DOMAIN SYMLINK_MAP : SYMLINK_MAP[t] \in Links

DedupTypes ==
    /\ Within(INODE_DEDUP, InodeDedupSize)
    /\ Within(FS_EVENT_DEDUP, DedupSize) /\ Within(FS_PATTERN_DEDUP, DedupSize)

KernelTypes ==
    /\ inside \in [Tasks -> BOOLEAN]
    /\ addr \in [Inodes -> Addrs \cup {NONE}]
    /\ followed \in [Tasks -> SUBSET Links]

StackTypes ==
    /\ stack \in [Tasks -> Seq(Calls)]
    /\ \A t \in Tasks : Len(stack[t]) <= 2

FsTypes == StateTypes /\ DedupTypes /\ KernelTypes /\ StackTypes

\* The slot of a task is the innermost call's, or a left-over; only the
\* innermost call has one, and then for a file that has slots.
SlotInv ==
    \A t \in Tasks :
        /\ t \in DOMAIN VFS_STATE =>
              \/ <<"slot", t>> \in odd
              \/ stack[t] # <<>> /\ stack[t][1].slot = "kept" /\ stack[t][1].path = VFS_STATE[t]
        /\ stack[t] # <<>> /\ stack[t][1].slot = "kept" =>
              /\ inside[t] /\ t \in DOMAIN VFS_STATE /\ VFS_STATE[t] = stack[t][1].path
              /\ Files[stack[t][1].path].kind \in {"regular", "block"}
        /\ Len(stack[t]) = 2 => stack[t][2].slot # "kept"

\* The link kept for a task is one it followed, or a left-over.
LinkInv ==
    \A t \in DOMAIN SYMLINK_MAP : SYMLINK_MAP[t] \in followed[t] \/ <<"link", t>> \in odd

\* No two inodes have one address, and no inode is dropped during a call.
AddrInv ==
    /\ \A i, j \in Inodes : addr[i] = addr[j] => i = j \/ addr[i] = NONE
    /\ \A t \in Tasks : \A k \in 1..Len(stack[t]) : addr[Files[stack[t][k].path].ino] # NONE

\* Covered, for the inode of a file.
CoveredInode(i, op) ==
    \E e \in piped :
        /\ e.r_w = op
        /\ \/ Files[e.path].ino = i
           \/ \E g \in Paths : /\ Files[g].ino = i /\ ByPattern(g)
                               /\ Files[e.path].pattern = Files[g].pattern

\* What a dedup map holds was reported.
EventDedupInv ==
    /\ \A p, op : <<p, op>> \in DOMAIN FS_PATTERN_DEDUP =>
          \E e \in piped : Files[e.path].pattern = p /\ e.r_w = op
    /\ \A p, op, b, q : <<p, op, b, q>> \in DOMAIN FS_EVENT_DEDUP =>
          \E e \in piped : e.path = p /\ e.r_w = op

InodeDedupInv ==
    \A i \in Inodes, op \in Ops :
        <<addr[i], op>> \in DOMAIN INODE_DEDUP /\ addr[i] # NONE /\ <<"addr", addr[i]>> \notin odd
            => CoveredInode(i, op)

FsInv ==
    /\ FsTypes /\ SlotInv /\ LinkInv /\ AddrInv /\ EventDedupInv /\ InodeDedupInv
    /\ EventOfReturningCall /\ LinkReportedOnce /\ AccessInProfile

-----------------------------------------------------------------------------
(* What is piped stays piped. *)
LEMMA CoverGrows ==
    ASSUME piped \subseteq piped', NEW i, NEW op, CoveredInode(i, op)
    PROVE  CoveredInode(i, op)'
  BY DEF CoveredInode, ByPattern

LEMMA AccessGrows ==
    ASSUME piped \subseteq piped', accesses' = accesses, AccessInProfile
    PROVE  AccessInProfile'
  <1> SUFFICES ASSUME NEW a \in accesses, ~(a.slot \in {"full", "taken"} \/ a.reused)
               PROVE  Covered(a.path, a.op)'
    BY DEF AccessInProfile
  <1>1. Covered(a.path, a.op)
    BY DEF AccessInProfile
  <1>2. QED BY <1>1 DEF Covered, ByPattern

(* The dedup of an event: it is piped, or one that stands for it was. *)
LEMMA SendFacts ==
    ASSUME FsTypes, EventDedupInv, NEW ev, ev.path \in Paths, deduplicate_and_send(ev)
    PROVE  /\ Within(FS_EVENT_DEDUP, DedupSize)' /\ Within(FS_PATTERN_DEDUP, DedupSize)'
           /\ piped \subseteq piped' /\ piped' \subseteq piped \cup {ev}
           /\ EventDedupInv'
           /\ CoveredInode(Files[ev.path].ino, ev.r_w)'
  <1>0. /\ IsFiniteSet(DOMAIN FS_EVENT_DEDUP) /\ Cardinality(DOMAIN FS_EVENT_DEDUP) <= DedupSize
        /\ IsFiniteSet(DOMAIN FS_PATTERN_DEDUP) /\ Cardinality(DOMAIN FS_PATTERN_DEDUP) <= DedupSize
        /\ DedupSize \in Nat
    BY FsAssumption DEF FsTypes, DedupTypes, Within
  <1>1. CASE /\ ByPattern(ev.path)
             /\ FS_PATTERN_DEDUP' \in LruPuts(FS_PATTERN_DEDUP, FsPatternIdentity(ev), 1, DedupSize)
             /\ piped' = piped \cup {ev} /\ UNCHANGED FS_EVENT_DEDUP
    <2>1. /\ DOMAIN FS_PATTERN_DEDUP' \subseteq DOMAIN FS_PATTERN_DEDUP \cup {FsPatternIdentity(ev)}
      BY <1>1, LruPutsFacts
    <2>2. IsFiniteSet(DOMAIN FS_PATTERN_DEDUP') /\ Cardinality(DOMAIN FS_PATTERN_DEDUP') <= DedupSize
      BY <1>0, <1>1, LruPutsSize
    <2>3. EventDedupInv'
      <3>1. ASSUME NEW p, NEW op, <<p, op>> \in DOMAIN FS_PATTERN_DEDUP'
            PROVE  \E e \in piped' : Files[e.path].pattern = p /\ e.r_w = op
        <4>1. CASE <<p, op>> = FsPatternIdentity(ev)
          BY <1>1, <4>1 DEF FsPatternIdentity
        <4>2. CASE <<p, op>> \in DOMAIN FS_PATTERN_DEDUP
          BY <1>1, <4>2 DEF EventDedupInv
        <4>3. QED BY <2>1, <3>1, <4>1, <4>2
      <3>2. ASSUME NEW p, NEW op, NEW b, NEW q, <<p, op, b, q>> \in DOMAIN FS_EVENT_DEDUP'
            PROVE  \E e \in piped' : e.path = p /\ e.r_w = op
        BY <1>1, <3>2 DEF EventDedupInv
      <3>3. QED BY <3>1, <3>2 DEF EventDedupInv
    <2>4. CoveredInode(Files[ev.path].ino, ev.r_w)'
      BY <1>1 DEF CoveredInode
    <2>5. QED BY <1>0, <1>1, <2>2, <2>3, <2>4 DEF Within
  <1>2. CASE /\ FS_EVENT_DEDUP' \in LruPuts(FS_EVENT_DEDUP, FsIdentity(ev), 1, DedupSize)
             /\ piped' = piped \cup {ev} /\ UNCHANGED FS_PATTERN_DEDUP
    <2>1. /\ DOMAIN FS_EVENT_DEDUP' \subseteq DOMAIN FS_EVENT_DEDUP \cup {FsIdentity(ev)}
      BY <1>2, LruPutsFacts
    <2>2. IsFiniteSet(DOMAIN FS_EVENT_DEDUP') /\ Cardinality(DOMAIN FS_EVENT_DEDUP') <= DedupSize
      BY <1>0, <1>2, LruPutsSize
    <2>3. EventDedupInv'
      <3>1. ASSUME NEW p, NEW op, NEW b, NEW q, <<p, op, b, q>> \in DOMAIN FS_EVENT_DEDUP'
            PROVE  \E e \in piped' : e.path = p /\ e.r_w = op
        <4>1. CASE <<p, op, b, q>> = FsIdentity(ev)
          <5>1. p = ev.path /\ op = ev.r_w
            BY <4>1, Zenon DEF FsIdentity
          <5>2. QED BY <1>2, <5>1
        <4>2. CASE <<p, op, b, q>> \in DOMAIN FS_EVENT_DEDUP
          BY <1>2, <4>2 DEF EventDedupInv
        <4>3. QED BY <2>1, <3>1, <4>1, <4>2
      <3>2. ASSUME NEW p, NEW op, <<p, op>> \in DOMAIN FS_PATTERN_DEDUP'
            PROVE  \E e \in piped' : Files[e.path].pattern = p /\ e.r_w = op
        BY <1>2, <3>2 DEF EventDedupInv
      <3>3. QED BY <3>1, <3>2 DEF EventDedupInv
    <2>4. CoveredInode(Files[ev.path].ino, ev.r_w)'
      BY <1>2 DEF CoveredInode
    <2>5. QED BY <1>0, <1>2, <2>2, <2>3, <2>4 DEF Within
  <1>3. CASE /\ IF ByPattern(ev.path) THEN FsPatternIdentity(ev) \in DOMAIN FS_PATTERN_DEDUP
                                      ELSE FsIdentity(ev) \in DOMAIN FS_EVENT_DEDUP
             /\ UNCHANGED <<FS_EVENT_DEDUP, FS_PATTERN_DEDUP, piped>>
    <2>1. EventDedupInv' /\ piped' = piped
      BY <1>3 DEF EventDedupInv
    <2>2. CASE ByPattern(ev.path)
      <3>1. \E e \in piped : Files[e.path].pattern = Files[ev.path].pattern /\ e.r_w = ev.r_w
        BY <1>3, <2>2 DEF EventDedupInv, FsPatternIdentity
      <3>2. CoveredInode(Files[ev.path].ino, ev.r_w)
        BY <2>2, <3>1 DEF CoveredInode
      <3>3. QED BY <1>0, <1>3, <2>1, <3>2, CoverGrows DEF Within
    <2>3. CASE ~ByPattern(ev.path)
      <3>1. \E e \in piped : e.path = ev.path /\ e.r_w = ev.r_w
        <4> DEFINE b == ev.link # NONE
                   q == Files[ev.path].pattern
        <4>1. <<ev.path, ev.r_w, b, q>> \in DOMAIN FS_EVENT_DEDUP
          BY <1>3, <2>3 DEF FsIdentity
        <4> HIDE DEF b, q
        <4>2. QED BY <4>1 DEF EventDedupInv
      <3>2. CoveredInode(Files[ev.path].ino, ev.r_w)
        BY <3>1 DEF CoveredInode
      <3>3. QED BY <1>0, <1>3, <2>1, <3>2, CoverGrows DEF Within
    <2>4. QED BY <2>2, <2>3
  <1>4. QED BY <1>1, <1>2, <1>3 DEF deduplicate_and_send

-----------------------------------------------------------------------------
LEMMA FollowStep ==
    ASSUME FsInv, NEW t \in Tasks, NEW link \in Links, check_security_inode_follow_link(t, link)
    PROVE  FsInv'
  <1>1. /\ UNCHANGED <<VFS_STATE, dedupMaps, kernel, stack, piped, accesses>>
        /\ \/ inside[t] /\ SYMLINK_MAP' = HashPut(SYMLINK_MAP, t, link, StateSize)
                        /\ followed' = [followed EXCEPT ![t] = @ \cup {link}]
                        /\ odd' = odd \ {<<"link", t>>}
           \/ UNCHANGED <<SYMLINK_MAP, followed, odd>>
    BY DEF check_security_inode_follow_link
  <1>2. UNCHANGED <<INODE_DEDUP, FS_EVENT_DEDUP, FS_PATTERN_DEDUP, inside, addr>>
    BY <1>1 DEF dedupMaps, kernel
  <1>3. /\ StateTypes /\ DedupTypes /\ KernelTypes /\ StackTypes /\ StateSize \in Nat
        /\ Within(SYMLINK_MAP, StateSize)
    BY FsAssumption DEF FsInv, FsTypes, StateTypes
  <1>4. /\ Within(SYMLINK_MAP, StateSize)'
        /\ \/ t \notin DOMAIN SYMLINK_MAP /\ SYMLINK_MAP' = SYMLINK_MAP
           \/ SYMLINK_MAP' = SYMLINK_MAP /\ odd' = odd /\ followed' = followed
           \/ /\ DOMAIN SYMLINK_MAP' = DOMAIN SYMLINK_MAP \cup {t}
              /\ SYMLINK_MAP'[t] = link /\ link \in followed'[t]
              /\ \A x \in DOMAIN SYMLINK_MAP : x # t => SYMLINK_MAP'[x] = SYMLINK_MAP[x]
    <2>1. CASE UNCHANGED <<SYMLINK_MAP, followed, odd>>
      BY <1>3, <2>1 DEF Within
    <2>2. CASE /\ SYMLINK_MAP' = HashPut(SYMLINK_MAP, t, link, StateSize)
               /\ followed' = [followed EXCEPT ![t] = @ \cup {link}]
      <3>1. link \in followed'[t]
        BY <1>3, <2>2 DEF KernelTypes
      <3>2. IsFiniteSet(DOMAIN SYMLINK_MAP) /\ Cardinality(DOMAIN SYMLINK_MAP) <= StateSize
        BY <1>3 DEF Within
      <3>3. Within(SYMLINK_MAP, StateSize)'
        BY <1>3, <2>2, <3>2, HashPutSize DEF Within
      <3>4. \/ SYMLINK_MAP' = SYMLINK_MAP /\ t \notin DOMAIN SYMLINK_MAP
            \/ /\ DOMAIN SYMLINK_MAP' = DOMAIN SYMLINK_MAP \cup {t} /\ SYMLINK_MAP'[t] = link
               /\ \A x \in DOMAIN SYMLINK_MAP : x # t => SYMLINK_MAP'[x] = SYMLINK_MAP[x]
        BY <2>2 DEF HashPut, Put
      <3>5. QED BY <3>1, <3>3, <3>4
    <2>3. QED BY <1>1, <2>1, <2>2
  <1>5. StateTypes' /\ DedupTypes'
    BY <1>1, <1>2, <1>3, <1>4 DEF StateTypes, DedupTypes, Within
  <1>6. KernelTypes' /\ StackTypes'
    BY <1>1, <1>2, <1>3 DEF KernelTypes, StackTypes
  <1>7. LinkInv'
    <2>1. \A u \in Tasks : u # t => followed'[u] = followed[u] /\ (<<"link", u>> \in odd' <=> <<"link", u>> \in odd)
      BY <1>1, <1>3 DEF KernelTypes
    <2>2. DOMAIN SYMLINK_MAP \subseteq Tasks
      BY <1>3 DEF StateTypes
    <2>3. QED BY <1>4, <2>1, <2>2 DEF FsInv, LinkInv
  <1>8. SlotInv' /\ AddrInv'
    <2>1. \A u : <<"slot", u>> \in odd' <=> <<"slot", u>> \in odd
      BY <1>1
    <2>2. QED BY <1>1, <1>2, <2>1 DEF FsInv, SlotInv, AddrInv
  <1>9. EventDedupInv' /\ InodeDedupInv'
    <2>1. \A a : <<"addr", a>> \in odd' <=> <<"addr", a>> \in odd
      BY <1>1
    <2>2. EventDedupInv'
      BY <1>1, <1>2 DEF FsInv, EventDedupInv
    <2>3. \A i, op : CoveredInode(i, op) => CoveredInode(i, op)'
      BY <1>1, CoverGrows
    <2>4. InodeDedupInv'
      BY <1>2, <2>1, <2>3 DEF FsInv, InodeDedupInv
    <2>5. QED BY <2>2, <2>4
  <1>10. EventOfReturningCall' /\ LinkReportedOnce' /\ AccessInProfile'
    BY <1>1, AccessGrows DEF FsInv, EventOfReturningCall, LinkReportedOnce
  <1>11. QED BY <1>5, <1>6, <1>7, <1>8, <1>9, <1>10 DEF FsInv, FsTypes

LEMMA OpenStep ==
    ASSUME FsInv, NEW t \in Tasks, NEW f \in Paths, process_vfs_open(t, f)
    PROVE  FsInv'
  <1> DEFINE ev == [path |-> f, r_w |-> 0, link |-> NONE, of |-> f, own |-> TRUE, odd |-> {}]
  <1>1. /\ UNCHANGED <<VFS_STATE, SYMLINK_MAP, INODE_DEDUP, inside, addr, stack, accesses, followed, odd>>
        /\ \/ deduplicate_and_send(ev)
           \/ UNCHANGED <<FS_EVENT_DEDUP, FS_PATTERN_DEDUP, piped>>
    BY DEF process_vfs_open, stateMaps, kernel
  <1>2. ev.path \in Paths /\ ev.path = ev.of /\ ev.own
    OBVIOUS
  <1> HIDE DEF ev
  <1>3. /\ DedupTypes' /\ EventDedupInv'
        /\ piped \subseteq piped' /\ piped' \subseteq piped \cup {ev}
    <2>1. CASE deduplicate_and_send(ev)
      BY <1>1, <1>2, <2>1, SendFacts DEF FsInv, FsTypes, DedupTypes, Within
    <2>2. CASE UNCHANGED <<FS_EVENT_DEDUP, FS_PATTERN_DEDUP, piped>>
      BY <1>1, <2>2 DEF FsInv, FsTypes, DedupTypes, Within, EventDedupInv
    <2>3. QED BY <1>1, <2>1, <2>2
  <1>4. StateTypes' /\ KernelTypes' /\ StackTypes'
    BY <1>1 DEF FsInv, FsTypes, StateTypes, Within, KernelTypes, StackTypes
  <1>5. SlotInv' /\ LinkInv' /\ AddrInv'
    BY <1>1 DEF FsInv, SlotInv, LinkInv, AddrInv
  <1>6. InodeDedupInv'
    <2>1. \A i, op : CoveredInode(i, op) => CoveredInode(i, op)'
      BY <1>3, CoverGrows
    <2>2. QED BY <1>1, <2>1 DEF FsInv, InodeDedupInv
  <1>7. EventOfReturningCall' /\ LinkReportedOnce'
    BY <1>2, <1>3 DEF FsInv, EventOfReturningCall, LinkReportedOnce
  <1>8. AccessInProfile'
    BY <1>1, <1>3, AccessGrows DEF FsInv
  <1>9. QED BY <1>3, <1>4, <1>5, <1>6, <1>7, <1>8 DEF FsInv, FsTypes

-----------------------------------------------------------------------------
(* What an entry program does with the slot. *)
LEMMA SlotFacts ==
    ASSUME FsInv, NEW t \in Tasks, NEW f \in Paths, NEW op \in Ops, process_vfs_fentry(t, f, op)
    PROVE  /\ SlotOf(t, f) \in {"kept", "none", "full"}
           /\ Within(VFS_STATE, StateSize)'
           /\ SlotOf(t, f) = "kept" =>
                 /\ DOMAIN VFS_STATE' = DOMAIN VFS_STATE \cup {t} /\ VFS_STATE'[t] = f
                 /\ \A u \in DOMAIN VFS_STATE : u # t => VFS_STATE'[u] = VFS_STATE[u]
                 /\ inside[t] /\ Files[f].kind \in {"regular", "block"}
                 /\ odd' = odd \ {<<"slot", t>>}
           /\ SlotOf(t, f) # "kept" => VFS_STATE' = VFS_STATE /\ odd' = odd
           /\ SlotOf(t, f) = "full" => t \notin DOMAIN VFS_STATE
           /\ SlotOf(t, f) = "none" => ~inside[t] \/ Files[f].kind \notin {"regular", "block"}
  <1>0. /\ StateSize \in Nat /\ inside[t] \in BOOLEAN
        /\ IsFiniteSet(DOMAIN VFS_STATE) /\ Cardinality(DOMAIN VFS_STATE) <= StateSize
    BY FsAssumption DEF FsInv, FsTypes, StateTypes, Within, KernelTypes
  <1>1. odd' = IF SlotOf(t, f) = "kept" THEN odd \ {<<"slot", t>>} ELSE odd
    BY DEF process_vfs_fentry
  <1>2. CASE inside[t] /\ Files[f].kind \in {"regular", "block"}
    <2>1. VFS_STATE' = HashPut(VFS_STATE, t, f, StateSize)
      BY <1>2 DEF process_vfs_fentry, SlotPut
    <2>2. /\ Within(VFS_STATE, StateSize)'
          /\ \/ VFS_STATE' = VFS_STATE /\ t \notin DOMAIN VFS_STATE
             \/ /\ DOMAIN VFS_STATE' = DOMAIN VFS_STATE \cup {t} /\ VFS_STATE'[t] = f
                /\ \A u \in DOMAIN VFS_STATE : u # t => VFS_STATE'[u] = VFS_STATE[u]
      <3>1. Within(VFS_STATE, StateSize)'
        BY <1>0, <2>1, HashPutSize DEF Within
      <3>2. \/ VFS_STATE' = VFS_STATE /\ t \notin DOMAIN VFS_STATE
            \/ /\ DOMAIN VFS_STATE' = DOMAIN VFS_STATE \cup {t} /\ VFS_STATE'[t] = f
               /\ \A u \in DOMAIN VFS_STATE : u # t => VFS_STATE'[u] = VFS_STATE[u]
        BY <2>1 DEF HashPut, Put
      <3>3. QED BY <3>1, <3>2
    <2>3. SlotOf(t, f) = IF t \in DOMAIN VFS_STATE' THEN "kept" ELSE "full"
      BY <1>2 DEF SlotOf
    <2>4. QED BY <1>1, <1>2, <2>2, <2>3
  <1>3. CASE ~(inside[t] /\ Files[f].kind \in {"regular", "block"})
    <2>1. SlotOf(t, f) = "none"
      BY <1>3 DEF SlotOf
    <2>2. VFS_STATE' = VFS_STATE
      BY <1>3 DEF process_vfs_fentry, SlotPut
    <2>3. QED BY <1>0, <1>1, <1>3, <2>1, <2>2 DEF Within
  <1>4. QED BY <1>2, <1>3

(* The new call is the innermost one; one below it has lost its slot to it. *)
LEMMA PushFacts ==
    ASSUME FsInv, NEW t \in Tasks, NEW f \in Paths, NEW op \in Ops, process_vfs_fentry(t, f, op),
           Len(stack[t]) <= 1
    PROVE  /\ stack' \in [Tasks -> Seq(Calls)]
           /\ \A u \in Tasks : u # t => stack'[u] = stack[u]
           /\ Len(stack'[t]) = Len(stack[t]) + 1
           /\ stack'[t] # <<>>
           /\ stack'[t][1].path = f /\ stack'[t][1].slot = SlotOf(t, f)
           /\ Len(stack[t]) = 1 =>
                 /\ stack'[t][2].path = stack[t][1].path
                 /\ stack'[t][2].slot = "kept" => SlotOf(t, f) # "kept" /\ stack[t][1].slot = "kept"
  <1> DEFINE s == SlotOf(t, f)
             c == [path |-> f, op |-> op, slot |-> s]
             old == stack[t]
             rest == IF s = "kept" THEN Taken(old) ELSE old
  <1>1. s \in {"kept", "none", "full"}
    BY SlotFacts
  <1>2. stack' = [stack EXCEPT ![t] = <<c>> \o rest]
    BY DEF process_vfs_fentry
  <1>3. c \in Calls /\ c.path = f /\ c.slot = s
    BY <1>1 DEF Calls
  <1>4. stack \in [Tasks -> Seq(Calls)] /\ old \in Seq(Calls) /\ Len(old) \in Nat /\ Len(old) <= 1
    BY DEF FsInv, FsTypes, StackTypes
  <1> HIDE DEF c, s, old
  <1>5. /\ Taken(old) \in Seq(Calls) /\ Len(Taken(old)) = Len(old)
        /\ Len(old) = 1 => Taken(old)[1].path = old[1].path /\ Taken(old)[1].slot # "kept"
    <2>1. CASE old # <<>> /\ Head(old).slot = "kept"
      <3> DEFINE d == [Head(old) EXCEPT !.slot = "taken"]
      <3>1. Head(old) \in Calls /\ Tail(old) \in Seq(Calls) /\ Len(Tail(old)) = Len(old) - 1
        BY <1>4, <2>1, HeadTailProperties
      <3>2. d \in Calls /\ d.path = Head(old).path /\ d.slot = "taken"
        BY <3>1 DEF Calls
      <3>3. Taken(old) = <<d>> \o Tail(old)
        BY <2>1 DEF Taken
      <3> HIDE DEF d
      <3>4. <<d>> \in Seq(Calls) /\ Len(<<d>>) = 1 /\ <<d>>[1] = d
        BY <3>2
      <3>5. /\ Taken(old) \in Seq(Calls) /\ Len(Taken(old)) = 1 + Len(Tail(old))
            /\ \A i \in 1..(1 + Len(Tail(old))) :
                  Taken(old)[i] = IF i <= 1 THEN <<d>>[i] ELSE Tail(old)[i - 1]
        BY <3>1, <3>3, <3>4, ConcatProperties
      <3>6. Len(Tail(old)) \in Nat /\ 1 \in 1..(1 + Len(Tail(old)))
        BY <3>1
      <3>7. Taken(old)[1] = d
        BY <3>4, <3>5, <3>6
      <3>8. Head(old) = old[1]
        BY <1>4, <2>1
      <3>9. QED BY <1>4, <3>1, <3>2, <3>5, <3>7, <3>8
    <2>2. CASE ~(old # <<>> /\ Head(old).slot = "kept")
      <3>1. Taken(old) = old
        BY <2>2 DEF Taken
      <3>2. ASSUME Len(old) = 1
            PROVE  old # <<>> /\ Head(old) = old[1]
        <4>1. old # <<>>
          BY <3>2, EmptySeq
        <4>2. QED BY <1>4, <4>1
      <3>3. QED BY <1>4, <2>2, <3>1, <3>2
    <2>3. QED BY <2>1, <2>2
  <1>6. /\ rest \in Seq(Calls) /\ Len(rest) = Len(old)
        /\ Len(old) = 1 => /\ rest[1].path = old[1].path
                           /\ rest[1].slot = "kept" => s # "kept" /\ old[1].slot = "kept"
    BY <1>4, <1>5
  <1> HIDE DEF rest
  <1> DEFINE new == <<c>> \o rest
  <1>7. <<c>> \in Seq(Calls) /\ Len(<<c>>) = 1 /\ <<c>>[1] = c
    BY <1>3
  <1>8. /\ new \in Seq(Calls) /\ Len(new) = 1 + Len(rest)
        /\ \A i \in 1..(1 + Len(rest)) : new[i] = IF i <= 1 THEN <<c>>[i] ELSE rest[i - 1]
    BY <1>6, <1>7, ConcatProperties
  <1> HIDE DEF new
  <1>9. 1 \in 1..(1 + Len(rest)) /\ (Len(old) = 1 => 2 \in 1..(1 + Len(rest)))
    BY <1>4, <1>6
  <1>10. new[1] = c /\ (Len(old) = 1 => new[2] = rest[1])
    BY <1>7, <1>8, <1>9
  <1>11. new # <<>>
    BY <1>4, <1>6, <1>8
  <1>12. /\ stack' \in [Tasks -> Seq(Calls)] /\ stack'[t] = new
         /\ \A u \in Tasks : u # t => stack'[u] = stack[u]
    BY <1>2, <1>4, <1>8 DEF new
  <1>13. Len(new) = Len(old) + 1
    BY <1>4, <1>6, <1>8
  <1>14. QED BY <1>3, <1>6, <1>10, <1>11, <1>12, <1>13 DEF s, old

LEMMA NotEmpty ==
    ASSUME NEW s, Len(s) = 1
    PROVE  s # <<>>
  BY EmptySeq

LEMMA EntryStep ==
    ASSUME FsInv, NEW t \in Tasks, NEW f \in Paths, NEW op \in Ops, process_vfs_fentry(t, f, op),
           \/ Len(stack[t]) = 0
           \/ Len(stack[t]) = 1 /\ Files[f].kind = Files[stack[t][1].path].kind
    PROVE  FsInv'
  <1> DEFINE s == SlotOf(t, f)
  <1>1. /\ UNCHANGED <<SYMLINK_MAP, INODE_DEDUP, FS_EVENT_DEDUP, FS_PATTERN_DEDUP>>
        /\ UNCHANGED <<inside, addr, piped, accesses, followed>>
        /\ addr[Files[f].ino] # NONE
    BY DEF process_vfs_fentry, dedupMaps, kernel, Loaded
  <1>2. Len(stack[t]) <= 1 /\ (Len(stack[t]) = 1 => stack[t] # <<>>) /\ Len(stack[t]) \in Nat
    <2>1. Len(stack[t]) = 0 \/ Len(stack[t]) = 1
      OBVIOUS
    <2>2. Len(stack[t]) = 1 => stack[t] # <<>>
      BY NotEmpty
    <2> DEFINE n == Len(stack[t])
    <2>3. n \in {0, 1}
      BY <2>1
    <2> HIDE DEF n
    <2>4. n <= 1 /\ n \in Nat
      BY <2>3
    <2>5. QED BY <2>2, <2>4 DEF n
  <1>3. /\ s \in {"kept", "none", "full"} /\ Within(VFS_STATE, StateSize)'
        /\ s = "kept" => /\ DOMAIN VFS_STATE' = DOMAIN VFS_STATE \cup {t} /\ VFS_STATE'[t] = f
                         /\ \A u \in DOMAIN VFS_STATE : u # t => VFS_STATE'[u] = VFS_STATE[u]
                         /\ inside[t] /\ Files[f].kind \in {"regular", "block"}
                         /\ odd' = odd \ {<<"slot", t>>}
        /\ s # "kept" => VFS_STATE' = VFS_STATE /\ odd' = odd
        /\ s = "full" => t \notin DOMAIN VFS_STATE
        /\ s = "none" => ~inside[t] \/ Files[f].kind \notin {"regular", "block"}
    BY SlotFacts
  <1>4. /\ stack' \in [Tasks -> Seq(Calls)]
        /\ \A u \in Tasks : u # t => stack'[u] = stack[u]
        /\ Len(stack'[t]) = Len(stack[t]) + 1 /\ stack'[t] # <<>>
        /\ stack'[t][1].path = f /\ stack'[t][1].slot = s
        /\ Len(stack[t]) = 1 =>
              /\ stack'[t][2].path = stack[t][1].path
              /\ stack'[t][2].slot = "kept" => s # "kept" /\ stack[t][1].slot = "kept"
    BY <1>2, PushFacts
  <1> HIDE DEF s
  <1>5. StateTypes /\ DedupTypes /\ KernelTypes /\ StackTypes
    BY DEF FsInv, FsTypes
  <1>6. StateTypes' /\ DedupTypes' /\ KernelTypes'
    <2>1. DedupTypes' /\ KernelTypes'
      BY <1>1, <1>5 DEF DedupTypes, KernelTypes, Within
    <2>2. StateTypes'
      BY <1>1, <1>3, <1>5 DEF StateTypes, Within
    <2>3. QED BY <2>1, <2>2
  <1>7. StackTypes'
    <2>1. Len(stack'[t]) <= 2
      BY <1>2, <1>4
    <2>2. QED BY <1>4, <1>5, <2>1 DEF StackTypes
  <1>8. SlotInv'
    <2>1. SlotInv
      BY DEF FsInv
    <2>2. ASSUME NEW u \in Tasks, u # t
          PROVE  /\ u \in DOMAIN VFS_STATE' <=> u \in DOMAIN VFS_STATE
                 /\ u \in DOMAIN VFS_STATE => VFS_STATE'[u] = VFS_STATE[u]
                 /\ <<"slot", u>> \in odd' <=> <<"slot", u>> \in odd
                 /\ stack'[u] = stack[u] /\ inside'[u] = inside[u]
      BY <1>1, <1>3, <1>4, <2>2
    <2>3. s = "none" => ~(stack[t] # <<>> /\ stack[t][1].slot = "kept")
      BY <1>2, <1>3, <1>5, <2>1, EmptySeq DEF SlotInv, StackTypes
    <2>4. Len(stack'[t]) = 2 => stack'[t][2].slot # "kept"
      <3>1. SUFFICES ASSUME Len(stack[t]) = 1, stack[t][1].slot = "kept", s # "kept" PROVE FALSE
        <4>1. Len(stack'[t]) = Len(stack[t]) + 1 /\ Len(stack[t]) \in {0, 1}
          BY <1>4
        <4> DEFINE n == Len(stack[t])
                   m == Len(stack'[t])
        <4>2. n \in {0, 1} /\ m = n + 1
          BY <4>1
        <4> HIDE DEF n, m
        <4>3. m = 2 => n = 1
          BY <4>2
        <4>4. QED BY <1>4, <4>3 DEF n, m
      <3>2. s = "full" => FALSE
        BY <1>2, <1>3, <2>1, <3>1 DEF SlotInv
      <3>3. QED BY <1>2, <1>3, <2>3, <3>1, <3>2
    <2>5. t \in DOMAIN VFS_STATE' =>
              \/ <<"slot", t>> \in odd'
              \/ stack'[t] # <<>> /\ stack'[t][1].slot = "kept" /\ stack'[t][1].path = VFS_STATE'[t]
      BY <1>3, <1>4, <2>1, <2>3 DEF SlotInv
    <2>6. stack'[t][1].slot = "kept" =>
              /\ inside'[t] /\ t \in DOMAIN VFS_STATE' /\ VFS_STATE'[t] = stack'[t][1].path
              /\ Files[stack'[t][1].path].kind \in {"regular", "block"}
      BY <1>1, <1>3, <1>4
    <2>7. SUFFICES ASSUME NEW u \in Tasks
                   PROVE  /\ u \in DOMAIN VFS_STATE' =>
                               \/ <<"slot", u>> \in odd'
                               \/ /\ stack'[u] # <<>> /\ stack'[u][1].slot = "kept"
                                  /\ stack'[u][1].path = VFS_STATE'[u]
                          /\ stack'[u] # <<>> /\ stack'[u][1].slot = "kept" =>
                               /\ inside'[u] /\ u \in DOMAIN VFS_STATE'
                               /\ VFS_STATE'[u] = stack'[u][1].path
                               /\ Files[stack'[u][1].path].kind \in {"regular", "block"}
                          /\ Len(stack'[u]) = 2 => stack'[u][2].slot # "kept"
      BY DEF SlotInv
    <2>8. CASE u = t
      BY <2>4, <2>5, <2>6, <2>8
    <2>9. CASE u # t
      BY <2>1, <2>2, <2>9 DEF SlotInv
    <2>10. QED BY <2>8, <2>9
  <1>9. LinkInv'
    <2>1. \A u : <<"link", u>> \in odd' <=> <<"link", u>> \in odd
      BY <1>3
    <2>2. QED BY <1>1, <2>1 DEF FsInv, LinkInv
  <1>10. AddrInv'
    <2>1. AddrInv
      BY DEF FsInv
    <2>2. ASSUME NEW u \in Tasks, NEW k \in 1..Len(stack'[u])
          PROVE  addr'[Files[stack'[u][k].path].ino] # NONE
      <3>1. CASE u # t
        BY <1>1, <1>4, <2>1, <3>1 DEF AddrInv
      <3>2. CASE u = t /\ k = 1
        BY <1>1, <1>4, <3>2
      <3>3. CASE u = t /\ k # 1
        <4>1. k = 2 /\ Len(stack[t]) = 1
          BY <1>2, <1>4, <3>3
        <4>2. 1 \in 1..Len(stack[t])
          BY <4>1
        <4>3. addr[Files[stack[t][1].path].ino] # NONE
          BY <2>1, <4>2 DEF AddrInv
        <4>4. QED BY <1>1, <1>4, <3>3, <4>1, <4>3
      <3>4. QED BY <3>1, <3>2, <3>3
    <2>3. QED BY <1>1, <2>1, <2>2 DEF AddrInv
  <1>11. EventDedupInv' /\ InodeDedupInv'
    <2>1. \A a : <<"addr", a>> \in odd' <=> <<"addr", a>> \in odd
      BY <1>3
    <2>2. EventDedupInv'
      BY <1>1 DEF FsInv, EventDedupInv
    <2>3. \A i, o : CoveredInode(i, o) => CoveredInode(i, o)'
      BY <1>1, CoverGrows
    <2>4. InodeDedupInv'
      BY <1>1, <2>1, <2>3 DEF FsInv, InodeDedupInv
    <2>5. QED BY <2>2, <2>4
  <1>12. EventOfReturningCall' /\ LinkReportedOnce' /\ AccessInProfile'
    BY <1>1, AccessGrows DEF FsInv, EventOfReturningCall, LinkReportedOnce
  <1>13. QED BY <1>6, <1>7, <1>8, <1>9, <1>10, <1>11, <1>12 DEF FsInv, FsTypes

LEMMA CallStep ==
    ASSUME FsInv, NEW t \in Tasks, NEW f \in Paths, NEW op \in Ops, Call(t, f, op)
    PROVE  FsInv'
  <1>1. Len(stack[t]) = 0 /\ process_vfs_fentry(t, f, op)
    BY EmptySeq DEF Call, Free
  <1>2. QED BY <1>1, EntryStep

LEMMA CallBehindStep ==
    ASSUME FsInv, NEW t \in Tasks, CallBehind(t)
    PROVE  FsInv'
  <1> DEFINE c == Head(stack[t])
             f == Files[c.path].behind
  <1>1. stack[t] \in Seq(Calls) /\ stack[t] # <<>>
    BY NotEmpty DEF FsInv, FsTypes, StackTypes, CallBehind
  <1>2. c = stack[t][1] /\ c \in Calls
    BY <1>1, HeadTailProperties
  <1>3. Len(stack[t]) = 1 /\ f # NONE /\ process_vfs_fentry(t, f, c.op)
    BY DEF CallBehind
  <1> HIDE DEF c
  <1>4. c.path \in Paths /\ c.op \in Ops
    BY <1>2 DEF Calls
  <1>5. f \in Paths /\ Files[f].kind = Files[c.path].kind
    BY <1>3, <1>4, FsAssumption DEF Paths
  <1> HIDE DEF f
  <1>6. QED BY <1>2, <1>3, <1>4, <1>5, EntryStep

-----------------------------------------------------------------------------
(* The innermost call returns; the one below it, if any, has no slot. *)
LEMMA PopFacts ==
    ASSUME FsInv, NEW t \in Tasks, stack[t] # <<>>, stack' = [stack EXCEPT ![t] = Tail(@)]
    PROVE  /\ Head(stack[t]) = stack[t][1] /\ Head(stack[t]) \in Calls
           /\ StackTypes'
           /\ \A u \in Tasks : u # t => stack'[u] = stack[u]
           /\ Len(stack'[t]) # 2
           /\ stack'[t] # <<>> => stack'[t][1].slot # "kept"
           /\ addr' = addr => AddrInv'
  <1> DEFINE old == stack[t]
             new == Tail(stack[t])
             n == Len(old)
             m == Len(new)
  <1>1. stack \in [Tasks -> Seq(Calls)] /\ old \in Seq(Calls) /\ n <= 2
    BY DEF FsInv, FsTypes, StackTypes
  <1>2. n \in Nat \ {0}
    BY <1>1, EmptySeq
  <1>3. /\ Head(old) \in Calls /\ new \in Seq(Calls) /\ m = n - 1
        /\ \A i \in 1..m : new[i] = old[i + 1]
    BY <1>1, HeadTailProperties
  <1>4. Head(old) = old[1]
    BY <1>1
  <1>5. /\ stack' \in [Tasks -> Seq(Calls)] /\ stack'[t] = new
        /\ \A u \in Tasks : u # t => stack'[u] = stack[u]
    BY <1>1, <1>3
  <1>6. new # <<>> => m \in Nat \ {0}
    BY <1>3, EmptySeq
  <1> HIDE DEF old, new, n, m
  <1>7. m \in Nat /\ m <= 1 /\ m # 2
    BY <1>1, <1>2, <1>3
  <1>8. new # <<>> => n = 2 /\ 1 \in 1..m
    BY <1>1, <1>2, <1>3, <1>6
  <1>9. StackTypes'
    <2>1. Len(stack'[t]) = m
      BY <1>5 DEF m
    <2>2. Len(stack'[t]) <= 2
      BY <2>1, <1>7
    <2>3. QED BY <1>5, <2>2 DEF StackTypes, FsInv, FsTypes
  <1>10. new # <<>> => new[1].slot # "kept"
    <2>1. SUFFICES ASSUME new # <<>> PROVE new[1].slot # "kept"
      OBVIOUS
    <2>2. new[1] = old[2] /\ n = 2
      BY <1>3, <1>8, <2>1
    <2>3. QED BY <2>2 DEF old, n, FsInv, SlotInv
  <1>11. ASSUME addr' = addr
         PROVE  AddrInv'
    <2>1. AddrInv
      BY DEF FsInv
    <2>2. ASSUME NEW u \in Tasks, NEW k \in 1..Len(stack'[u])
          PROVE  addr[Files[stack'[u][k].path].ino] # NONE
      <3>1. CASE u # t
        BY <1>5, <2>1, <3>1 DEF AddrInv
      <3>2. CASE u = t
        <4>1. k \in 1..m
          BY <1>5, <3>2 DEF m
        <4>2. k + 1 \in 1..n /\ new[k] = old[k + 1]
          BY <1>2, <1>3, <4>1
        <4>3. addr[Files[old[k + 1].path].ino] # NONE
          BY <2>1, <4>2 DEF AddrInv, old, n
        <4>4. QED BY <1>5, <3>2, <4>2, <4>3
      <3>3. QED BY <3>1, <3>2
    <2>3. QED BY <1>11, <2>1, <2>2 DEF AddrInv
  <1>12. Len(stack'[t]) # 2
    BY <1>5, <1>7 DEF m
  <1>13. QED BY <1>3, <1>4, <1>5, <1>9, <1>10, <1>11, <1>12 DEF old

(* Then the task has no slot, or a left-over one. *)
LEMMA PopSlot ==
    ASSUME FsInv, NEW t \in Tasks, stack[t] # <<>>, stack' = [stack EXCEPT ![t] = Tail(@)],
           inside' = inside,
           t \in DOMAIN VFS_STATE' => <<"slot", t>> \in odd',
           \A u \in Tasks : u # t =>
               /\ u \in DOMAIN VFS_STATE' <=> u \in DOMAIN VFS_STATE
               /\ u \in DOMAIN VFS_STATE => VFS_STATE'[u] = VFS_STATE[u]
               /\ <<"slot", u>> \in odd' <=> <<"slot", u>> \in odd
    PROVE  SlotInv'
  <1>1. /\ \A u \in Tasks : u # t => stack'[u] = stack[u]
        /\ Len(stack'[t]) # 2
        /\ stack'[t] # <<>> => stack'[t][1].slot # "kept"
    BY PopFacts
  <1>2. SUFFICES ASSUME NEW u \in Tasks
                 PROVE  /\ u \in DOMAIN VFS_STATE' =>
                             \/ <<"slot", u>> \in odd'
                             \/ /\ stack'[u] # <<>> /\ stack'[u][1].slot = "kept"
                                /\ stack'[u][1].path = VFS_STATE'[u]
                        /\ stack'[u] # <<>> /\ stack'[u][1].slot = "kept" =>
                             /\ inside'[u] /\ u \in DOMAIN VFS_STATE'
                             /\ VFS_STATE'[u] = stack'[u][1].path
                             /\ Files[stack'[u][1].path].kind \in {"regular", "block"}
                        /\ Len(stack'[u]) = 2 => stack'[u][2].slot # "kept"
    BY DEF SlotInv
  <1>3. CASE u = t
    BY <1>1, <1>3
  <1>4. CASE u # t
    BY <1>1, <1>4 DEF FsInv, SlotInv
  <1>5. QED BY <1>3, <1>4

(* The exit program, on a slot. *)
LEMMA ExitFacts ==
    ASSUME FsInv, NEW t \in DOMAIN VFS_STATE, NEW f, f = VFS_STATE[t], NEW op \in Ops,
           stack[t] # <<>>, Head(stack[t]) = stack[t][1], addr' = addr, process_vfs_fexit(t, f, op)
    PROVE  /\ StateTypes' /\ DedupTypes' /\ followed' \in [Tasks -> SUBSET Links]
           /\ LinkInv' /\ EventDedupInv' /\ InodeDedupInv'
           /\ EventOfReturningCall' /\ LinkReportedOnce'
           /\ piped \subseteq piped'
           /\ DOMAIN VFS_STATE' = DOMAIN VFS_STATE \ {t}
           /\ \A u \in DOMAIN VFS_STATE : u # t => VFS_STATE'[u] = VFS_STATE[u]
           /\ \A u : u # t => (<<"slot", u>> \in odd' <=> <<"slot", u>> \in odd)
           /\ LET i == Files[f].ino
              IN  addr[i] = NONE \/ <<"addr", addr[i]>> \in odd \/ CoveredInode(i, op)'
  <1> DEFINE i == Files[f].ino
             key == InodeDedupKey(f, op)
  <1>0. /\ StateTypes /\ DedupTypes /\ KernelTypes /\ SlotInv /\ LinkInv /\ AddrInv
        /\ EventDedupInv /\ InodeDedupInv /\ EventOfReturningCall /\ LinkReportedOnce
        /\ StateSize \in Nat /\ InodeDedupSize \in Nat
    BY FsAssumption DEF FsInv, FsTypes
  <1>1. t \in Tasks /\ f \in Paths /\ i \in Inodes
    BY <1>0 DEF StateTypes, Inodes
  <1>2. /\ DOMAIN VFS_STATE' = DOMAIN VFS_STATE \ {t}
        /\ \A u \in DOMAIN VFS_STATE : u # t => VFS_STATE'[u] = VFS_STATE[u]
        /\ VFS_STATE' = Drop(VFS_STATE, t)
    BY DEF process_vfs_fexit, Drop
  <1>3. Within(VFS_STATE, StateSize)'
    BY <1>0, <1>2, DropSize DEF StateTypes, Within
  <1>4. key = <<addr[i], op>>
    BY DEF InodeDedupKey
  <1>5. CASE /\ key \in DOMAIN INODE_DEDUP
             /\ UNCHANGED <<SYMLINK_MAP, dedupMaps, piped, followed, odd>>
    <2>1. UNCHANGED <<INODE_DEDUP, FS_EVENT_DEDUP, FS_PATTERN_DEDUP>>
      BY <1>5 DEF dedupMaps
    <2>2. StateTypes' /\ DedupTypes' /\ followed' \in [Tasks -> SUBSET Links]
      BY <1>0, <1>2, <1>3, <1>5, <2>1 DEF StateTypes, DedupTypes, KernelTypes, Within
    <2>3. LinkInv' /\ EventDedupInv' /\ EventOfReturningCall' /\ LinkReportedOnce'
      BY <1>0, <1>5, <2>1 DEF LinkInv, EventDedupInv, EventOfReturningCall, LinkReportedOnce
    <2>4. \A j, o : CoveredInode(j, o) => CoveredInode(j, o)'
      BY <1>5, CoverGrows
    <2>5. InodeDedupInv'
      BY <1>0, <1>5, <2>1, <2>4 DEF InodeDedupInv
    <2>6. addr[i] = NONE \/ <<"addr", addr[i]>> \in odd \/ CoveredInode(i, op)'
      BY <1>0, <1>1, <1>4, <1>5, <2>4 DEF InodeDedupInv
    <2>7. QED BY <1>2, <1>5, <2>2, <2>3, <2>5, <2>6
  <1> DEFINE ev == [path |-> f, r_w |-> op, link |-> LinkOf(t), of |-> Head(stack[t]).path,
                    own |-> LinkOf(t) \in followed[t] \cup {NONE},
                    odd |-> {o \in {"slot", "link"} : <<o, t>> \in odd}]
  <1>6. CASE /\ INODE_DEDUP' = INODE_DEDUP \/ INODE_DEDUP' \in LruPuts(INODE_DEDUP, key, 1, InodeDedupSize)
             /\ deduplicate_and_send(ev)
             /\ SYMLINK_MAP' = TakenLink(t)
             /\ followed' = [followed EXCEPT ![t] = @ \ {LinkOf(t)}]
             /\ odd' = odd \ {<<"link", t>>, <<"slot", t>>}
    <2>1. ev.path = f /\ ev.r_w = op
      OBVIOUS
    <2>2. ev.path = ev.of \/ "slot" \in ev.odd
      <3>1. <<"slot", t>> \in odd \/ Head(stack[t]).path = f
        BY <1>0, <1>1 DEF SlotInv
      <3>2. QED BY <3>1
    <2>3. ev.own \/ "link" \in ev.odd
      <3>1. CASE t \notin DOMAIN SYMLINK_MAP
        <4>1. LinkOf(t) = NONE
          BY <3>1 DEF LinkOf, Pending
        <4>2. LinkOf(t) \in followed[t] \cup {NONE}
          BY <4>1
        <4>3. QED BY <4>2, Zenon
      <3>2. CASE t \in DOMAIN SYMLINK_MAP /\ SYMLINK_MAP[t] \in followed[t]
        <4>1. LinkOf(t) \in followed[t] \cup {NONE}
          BY <3>2 DEF LinkOf, Pending
        <4>2. QED BY <4>1, Zenon
      <3>3. CASE t \in DOMAIN SYMLINK_MAP /\ <<"link", t>> \in odd
        BY <3>3
      <3>4. QED BY <1>0, <3>1, <3>2, <3>3 DEF LinkInv
    <2> HIDE DEF ev
    <2>4. /\ Within(FS_EVENT_DEDUP, DedupSize)' /\ Within(FS_PATTERN_DEDUP, DedupSize)'
          /\ piped \subseteq piped' /\ piped' \subseteq piped \cup {ev}
          /\ EventDedupInv' /\ CoveredInode(i, op)'
      BY <1>0, <1>1, <1>6, <2>1, SendFacts DEF FsInv
    <2>5. /\ DOMAIN SYMLINK_MAP' = DOMAIN SYMLINK_MAP \ {t}
          /\ \A u \in DOMAIN SYMLINK_MAP : u # t => SYMLINK_MAP'[u] = SYMLINK_MAP[u]
          /\ SYMLINK_MAP' = Drop(SYMLINK_MAP, t)
      BY <1>6 DEF TakenLink, Drop
    <2>6. StateTypes'
      <3>1. Within(SYMLINK_MAP, StateSize)'
        BY <1>0, <2>5, DropSize DEF StateTypes, Within
      <3>2. QED BY <1>0, <1>2, <1>3, <2>5, <3>1 DEF StateTypes
    <2>7. DedupTypes'
      <3>1. Within(INODE_DEDUP, InodeDedupSize)'
        <4>1. CASE INODE_DEDUP' = INODE_DEDUP
          BY <1>0, <4>1 DEF DedupTypes, Within
        <4>2. CASE INODE_DEDUP' \in LruPuts(INODE_DEDUP, key, 1, InodeDedupSize)
          BY <1>0, <4>2, LruPutsSize DEF DedupTypes, Within
        <4>3. QED BY <1>6, <4>1, <4>2
      <3>2. QED BY <2>4, <3>1 DEF DedupTypes
    <2>8. followed' \in [Tasks -> SUBSET Links] /\ \A u \in Tasks : u # t => followed'[u] = followed[u]
      BY <1>0, <1>6 DEF KernelTypes
    <2>9. LinkInv'
      <3>1. DOMAIN SYMLINK_MAP \subseteq Tasks
        BY <1>0 DEF StateTypes
      <3>2. \A u : u # t => (<<"link", u>> \in odd' <=> <<"link", u>> \in odd)
        BY <1>6
      <3>3. QED BY <1>0, <2>5, <2>8, <3>1, <3>2 DEF LinkInv
    <2>10. InodeDedupInv'
      <3>1. \A j, o : CoveredInode(j, o) => CoveredInode(j, o)'
        BY <2>4, CoverGrows
      <3>2. DOMAIN INODE_DEDUP' \subseteq DOMAIN INODE_DEDUP \cup {<<addr[i], op>>}
        <4>1. CASE INODE_DEDUP' \in LruPuts(INODE_DEDUP, key, 1, InodeDedupSize)
          BY <1>4, <4>1, LruPutsFacts
        <4>2. QED BY <1>6, <4>1
      <3>3. \A a : <<"addr", a>> \in odd' <=> <<"addr", a>> \in odd
        BY <1>6
      <3>4. SUFFICES ASSUME NEW j \in Inodes, NEW o \in Ops, <<addr[j], o>> \in DOMAIN INODE_DEDUP',
                            addr[j] # NONE, <<"addr", addr[j]>> \notin odd
                     PROVE  CoveredInode(j, o)'
        BY <3>3 DEF InodeDedupInv
      <3>5. CASE <<addr[j], o>> \in DOMAIN INODE_DEDUP
        BY <1>0, <3>1, <3>4, <3>5 DEF InodeDedupInv
      <3>6. CASE addr[j] = addr[i] /\ o = op
        <4>1. j = i
          BY <1>0, <1>1, <3>4, <3>6 DEF AddrInv
        <4>2. QED BY <2>4, <3>6, <4>1
      <3>7. QED BY <3>2, <3>4, <3>5, <3>6
    <2>11. EventOfReturningCall' /\ LinkReportedOnce'
      BY <1>0, <2>2, <2>3, <2>4 DEF EventOfReturningCall, LinkReportedOnce
    <2>12. \A u : u # t => (<<"slot", u>> \in odd' <=> <<"slot", u>> \in odd)
      BY <1>6
    <2>13. QED BY <1>2, <2>4, <2>6, <2>7, <2>8, <2>9, <2>10, <2>11, <2>12
  <1>7. QED BY <1>5, <1>6 DEF process_vfs_fexit

LEMMA ReturnStep ==
    ASSUME FsInv, NEW t \in Tasks, Return(t)
    PROVE  FsInv'
  <1>1. PICK c : c = Head(stack[t])
    OBVIOUS
  <1>2. /\ stack[t] # <<>> /\ stack' = [stack EXCEPT ![t] = Tail(@)]
        /\ UNCHANGED <<inside, addr>>
    BY DEF Return, kernel
  <1>3. /\ c = stack[t][1] /\ c \in Calls /\ Head(stack[t]) = stack[t][1] /\ StackTypes' /\ AddrInv'
    BY <1>1, <1>2, PopFacts
  <1>4. /\ c.path \in Paths /\ c.op \in Ops /\ c.slot \in {"kept", "none", "full", "taken"}
        /\ Files[c.path].ino \in Inodes
    BY <1>3 DEF Calls, Inodes
  <1>5. StateTypes /\ DedupTypes /\ KernelTypes /\ SlotInv /\ AddrInv /\ DOMAIN VFS_STATE \subseteq Tasks
    BY DEF FsInv, FsTypes, StateTypes
  <1>6. CASE ~attached
    <2>1. /\ odd' = IF t \in DOMAIN VFS_STATE THEN odd \cup {<<"slot", t>>} ELSE odd
          /\ UNCHANGED <<VFS_STATE, SYMLINK_MAP, INODE_DEDUP, FS_EVENT_DEDUP, FS_PATTERN_DEDUP>>
          /\ UNCHANGED <<piped, accesses, followed>>
      BY <1>6 DEF Return, stateMaps, dedupMaps
    <2>2. StateTypes' /\ DedupTypes' /\ KernelTypes'
      BY <1>2, <1>5, <2>1 DEF StateTypes, DedupTypes, KernelTypes, Within
    <2>3. SlotInv'
      <3>1. t \in DOMAIN VFS_STATE' => <<"slot", t>> \in odd'
        BY <2>1
      <3>2. \A u : u # t => (<<"slot", u>> \in odd' <=> <<"slot", u>> \in odd)
        BY <2>1
      <3>3. QED BY <1>2, <2>1, <3>1, <3>2, PopSlot
    <2>4. LinkInv'
      <3>1. \A u : <<"link", u>> \in odd' <=> <<"link", u>> \in odd
        BY <2>1
      <3>2. QED BY <2>1, <3>1 DEF FsInv, LinkInv
    <2>5. EventDedupInv'
      BY <2>1 DEF FsInv, EventDedupInv
    <2>6. InodeDedupInv'
      <3>1. \A a : <<"addr", a>> \in odd' <=> <<"addr", a>> \in odd
        BY <2>1
      <3>2. \A j, o : CoveredInode(j, o) => CoveredInode(j, o)'
        BY <2>1, CoverGrows
      <3>3. QED BY <1>2, <2>1, <3>1, <3>2 DEF FsInv, InodeDedupInv
    <2>7. EventOfReturningCall' /\ LinkReportedOnce' /\ AccessInProfile'
      BY <2>1, AccessGrows DEF FsInv, EventOfReturningCall, LinkReportedOnce
    <2>8. QED BY <1>3, <2>2, <2>3, <2>4, <2>5, <2>6, <2>7 DEF FsInv, FsTypes
  <1>7. CASE attached
    <2> DEFINE i == Files[c.path].ino
               r == <<"addr", addr[i]>> \in odd
               new == [path |-> c.path, op |-> c.op, slot |-> c.slot, reused |-> r]
    <2>1. /\ accesses' = IF c.slot = "none" THEN accesses ELSE accesses \cup {new}
          /\ IF t \in DOMAIN VFS_STATE THEN process_vfs_fexit(t, VFS_STATE[t], c.op)
             ELSE UNCHANGED <<stateMaps, dedupMaps, piped, followed, odd>>
      BY <1>1, <1>7 DEF Return
    <2>2. new.path = c.path /\ new.op = c.op /\ new.slot = c.slot
      OBVIOUS
    <2>3. new.reused <=> r
      BY Zenon
    <2> HIDE DEF new
    <2>4. ASSUME piped \subseteq piped', c.slot = "kept" => r \/ CoveredInode(i, c.op)'
          PROVE  AccessInProfile'
      <3>1. SUFFICES ASSUME NEW a \in accesses', ~(a.slot \in {"full", "taken"} \/ a.reused)
                     PROVE  Covered(a.path, a.op)'
        BY DEF AccessInProfile
      <3>2. CASE a \in accesses
        <4>1. Covered(a.path, a.op)
          BY <3>1, <3>2 DEF FsInv, AccessInProfile
        <4>2. QED BY <2>4, <4>1 DEF Covered, ByPattern
      <3>3. CASE a = new /\ c.slot # "none"
        <4>1. c.slot = "kept" /\ ~r
          BY <1>4, <2>2, <2>3, <3>1, <3>3
        <4>2. CoveredInode(i, c.op)'
          BY <2>4, <4>1
        <4>3. QED BY <2>2, <3>3, <4>2 DEF CoveredInode, Covered, ByPattern
      <3>4. QED BY <2>1, <3>1, <3>2, <3>3
    <2>5. CASE t \notin DOMAIN VFS_STATE
      <3>1. /\ UNCHANGED <<VFS_STATE, SYMLINK_MAP, INODE_DEDUP, FS_EVENT_DEDUP, FS_PATTERN_DEDUP>>
            /\ UNCHANGED <<piped, followed, odd>>
        BY <2>1, <2>5 DEF stateMaps, dedupMaps
      <3>2. StateTypes' /\ DedupTypes' /\ KernelTypes'
        BY <1>2, <1>5, <3>1 DEF StateTypes, DedupTypes, KernelTypes, Within
      <3>3. SlotInv'
        BY <1>2, <2>5, <3>1, PopSlot
      <3>4. LinkInv' /\ EventDedupInv'
        BY <3>1 DEF FsInv, LinkInv, EventDedupInv
      <3>5. InodeDedupInv'
        <4>1. \A j, o : CoveredInode(j, o) => CoveredInode(j, o)'
          BY <3>1, CoverGrows
        <4>2. QED BY <1>2, <3>1, <4>1 DEF FsInv, InodeDedupInv
      <3>6. EventOfReturningCall' /\ LinkReportedOnce'
        BY <3>1 DEF FsInv, EventOfReturningCall, LinkReportedOnce
      <3>7. AccessInProfile'
        <4>1. c.slot # "kept"
          BY <1>2, <1>3, <1>5, <2>5 DEF SlotInv
        <4>2. QED BY <2>4, <3>1, <4>1
      <3>8. QED BY <1>3, <3>2, <3>3, <3>4, <3>5, <3>6, <3>7 DEF FsInv, FsTypes
    <2>6. CASE t \in DOMAIN VFS_STATE
      <3>1. PICK f : f = VFS_STATE[t]
        OBVIOUS
      <3>2. process_vfs_fexit(t, f, c.op)
        BY <2>1, <2>6, <3>1
      <3>3. /\ StateTypes' /\ DedupTypes' /\ followed' \in [Tasks -> SUBSET Links]
            /\ LinkInv' /\ EventDedupInv' /\ InodeDedupInv'
            /\ EventOfReturningCall' /\ LinkReportedOnce' /\ piped \subseteq piped'
            /\ DOMAIN VFS_STATE' = DOMAIN VFS_STATE \ {t}
            /\ \A u \in DOMAIN VFS_STATE : u # t => VFS_STATE'[u] = VFS_STATE[u]
            /\ \A u : u # t => (<<"slot", u>> \in odd' <=> <<"slot", u>> \in odd)
            /\ \/ addr[Files[f].ino] = NONE \/ <<"addr", addr[Files[f].ino]>> \in odd
               \/ CoveredInode(Files[f].ino, c.op)'
        BY <1>2, <1>3, <1>4, <2>6, <3>1, <3>2, ExitFacts
      <3>4. KernelTypes'
        BY <1>2, <1>5, <3>3 DEF KernelTypes
      <3>5. SlotInv'
        BY <1>2, <3>3, PopSlot
      <3>6. AccessInProfile'
        <4>1. SUFFICES ASSUME c.slot = "kept" PROVE r \/ CoveredInode(i, c.op)'
          BY <2>4, <3>3
        <4>2. f = c.path
          BY <1>2, <1>3, <1>5, <3>1, <4>1 DEF SlotInv
        <4>3. addr[i] # NONE
          <5>1. 1 \in 1..Len(stack[t])
            <6>1. stack[t] \in Seq(Calls)
              BY DEF FsInv, FsTypes, StackTypes
            <6>2. Len(stack[t]) \in Nat \ {0}
              BY <1>2, <6>1, EmptySeq
            <6>3. QED BY <6>2
          <5>2. QED BY <1>3, <1>5, <5>1 DEF AddrInv
        <4>4. QED BY <3>3, <4>2, <4>3
      <3>7. QED BY <1>3, <3>3, <3>4, <3>5, <3>6 DEF FsInv, FsTypes
    <2>7. QED BY <2>5, <2>6
  <1>8. QED BY <1>6, <1>7

-----------------------------------------------------------------------------
LEMMA LoadStep ==
    ASSUME FsInv, NEW i \in Inodes, NEW a \in Addrs, LoadInode(i, a)
    PROVE  FsInv'
  <1>1. /\ addr[i] = NONE
        /\ \A t \in Tasks, k \in {1, 2} : k <= Len(stack[t]) => addr[Files[stack[t][k].path].ino] # a
        /\ addr' = [j \in Inodes |-> IF j = i THEN a ELSE IF addr[j] = a THEN NONE ELSE addr[j]]
        /\ odd' = IF \E op \in Ops : <<a, op>> \in DOMAIN INODE_DEDUP
                  THEN odd \cup {<<"addr", a>>} ELSE odd
        /\ UNCHANGED <<VFS_STATE, SYMLINK_MAP, INODE_DEDUP, FS_EVENT_DEDUP, FS_PATTERN_DEDUP>>
        /\ UNCHANGED <<inside, stack, piped, accesses, followed>>
    BY DEF LoadInode, stateMaps, dedupMaps
  <1>2. StateTypes /\ DedupTypes /\ KernelTypes /\ StackTypes /\ AddrInv
    BY DEF FsInv, FsTypes
  <1>3. StateTypes' /\ DedupTypes' /\ KernelTypes' /\ StackTypes'
    BY <1>1, <1>2 DEF StateTypes, DedupTypes, KernelTypes, StackTypes, Within
  <1>4. SlotInv' /\ LinkInv'
    <2>1. \A u : /\ <<"slot", u>> \in odd' <=> <<"slot", u>> \in odd
                 /\ <<"link", u>> \in odd' <=> <<"link", u>> \in odd
      BY <1>1
    <2>2. QED BY <1>1, <2>1 DEF FsInv, SlotInv, LinkInv
  <1>5. AddrInv'
    <2>1. \A j, l \in Inodes : addr'[j] = addr'[l] => j = l \/ addr'[j] = NONE
      BY <1>1, <1>2 DEF AddrInv
    <2>2. ASSUME NEW t \in Tasks, NEW k \in 1..Len(stack[t])
          PROVE  addr'[Files[stack[t][k].path].ino] # NONE
      <3>1. stack[t] \in Seq(Calls) /\ Len(stack[t]) \in Nat /\ Len(stack[t]) <= 2
        BY <1>2 DEF StackTypes
      <3>2. stack[t][k] \in Calls
        BY <3>1, ElementOfSeq
      <3>3. Files[stack[t][k].path].ino \in Inodes
        BY <3>2 DEF Calls, Inodes
      <3>4. addr[Files[stack[t][k].path].ino] # NONE
        BY <1>2 DEF AddrInv
      <3>5. k \in {1, 2} /\ k <= Len(stack[t])
        <4> DEFINE n == Len(stack[t])
        <4>1. n \in Nat /\ n <= 2 /\ k \in 1..n
          BY <3>1
        <4> HIDE DEF n
        <4>2. k \in {1, 2} /\ k <= n
          BY <4>1
        <4>3. QED BY <4>2 DEF n
      <3>6. addr[Files[stack[t][k].path].ino] # a
        BY <1>1, <3>5
      <3>7. QED BY <1>1, <3>3, <3>4, <3>6
    <2>3. QED BY <1>1, <2>1, <2>2 DEF AddrInv
  <1>6. EventDedupInv'
    BY <1>1 DEF FsInv, EventDedupInv
  <1>7. InodeDedupInv'
    <2>1. \A j, o : CoveredInode(j, o) => CoveredInode(j, o)'
      BY <1>1, CoverGrows
    <2>2. SUFFICES ASSUME NEW j \in Inodes, NEW o \in Ops, <<addr'[j], o>> \in DOMAIN INODE_DEDUP,
                          addr'[j] # NONE, <<"addr", addr'[j]>> \notin odd'
                   PROVE  CoveredInode(j, o)'
      BY <1>1 DEF InodeDedupInv
    <2>3. CASE j = i
      BY <1>1, <2>2, <2>3
    <2>4. CASE j # i
      <3>1. addr'[j] = addr[j] /\ <<"addr", addr[j]>> \notin odd
        BY <1>1, <2>2, <2>4
      <3>2. QED BY <2>1, <2>2, <3>1 DEF FsInv, InodeDedupInv
    <2>5. QED BY <2>3, <2>4
  <1>8. EventOfReturningCall' /\ LinkReportedOnce' /\ AccessInProfile'
    BY <1>1, AccessGrows DEF FsInv, EventOfReturningCall, LinkReportedOnce
  <1>9. QED BY <1>3, <1>4, <1>5, <1>6, <1>7, <1>8 DEF FsInv, FsTypes

LEMMA ReplaceStep ==
    ASSUME FsInv, NEW t \in Tasks, ReplaceTask(t)
    PROVE  FsInv'
  <1>1. /\ stack[t] = <<>> /\ \E b \in BOOLEAN : inside' = [inside EXCEPT ![t] = b]
        /\ followed' = [followed EXCEPT ![t] = {}]
        /\ odd' = IF t \in DOMAIN SYMLINK_MAP THEN odd \cup {<<"link", t>>} ELSE odd
        /\ UNCHANGED <<VFS_STATE, SYMLINK_MAP, INODE_DEDUP, FS_EVENT_DEDUP, FS_PATTERN_DEDUP>>
        /\ UNCHANGED <<addr, stack, piped, accesses>>
    BY DEF ReplaceTask, stateMaps, dedupMaps, Pending
  <1>2. StateTypes /\ DedupTypes /\ KernelTypes /\ StackTypes /\ SlotInv /\ LinkInv
    BY DEF FsInv, FsTypes
  <1>3. StateTypes' /\ DedupTypes' /\ KernelTypes' /\ StackTypes'
    BY <1>1, <1>2 DEF StateTypes, DedupTypes, KernelTypes, StackTypes, Within
  <1>4. SlotInv'
    <2>1. \A u : <<"slot", u>> \in odd' <=> <<"slot", u>> \in odd
      BY <1>1
    <2>2. \A u \in Tasks : u # t => inside'[u] = inside[u]
      BY <1>1, <1>2 DEF KernelTypes
    <2>3. QED BY <1>1, <1>2, <2>1, <2>2 DEF SlotInv
  <1>5. LinkInv'
    <2>1. \A u \in Tasks : u # t => followed'[u] = followed[u]
      BY <1>1, <1>2 DEF KernelTypes
    <2>2. QED BY <1>1, <1>2, <2>1 DEF LinkInv, StateTypes
  <1>6. AddrInv' /\ EventDedupInv'
    BY <1>1 DEF FsInv, AddrInv, EventDedupInv
  <1>7. InodeDedupInv'
    <2>1. \A j, o : CoveredInode(j, o) => CoveredInode(j, o)'
      BY <1>1, CoverGrows
    <2>2. \A a : <<"addr", a>> \in odd' <=> <<"addr", a>> \in odd
      BY <1>1
    <2>3. QED BY <1>1, <2>1, <2>2 DEF FsInv, InodeDedupInv
  <1>8. EventOfReturningCall' /\ LinkReportedOnce' /\ AccessInProfile'
    BY <1>1, AccessGrows DEF FsInv, EventOfReturningCall, LinkReportedOnce
  <1>9. QED BY <1>3, <1>4, <1>5, <1>6, <1>7, <1>8 DEF FsInv, FsTypes

LEMMA NothingTrackedStep ==
    ASSUME FsInv, UNCHANGED <<stateMaps, dedupMaps, inside, addr, stack, piped, accesses, followed, odd>>
    PROVE  FsInv'
  <1>1. /\ UNCHANGED <<VFS_STATE, SYMLINK_MAP, INODE_DEDUP, FS_EVENT_DEDUP, FS_PATTERN_DEDUP>>
        /\ UNCHANGED <<inside, addr, stack, piped, accesses, followed, odd>>
    BY DEF stateMaps, dedupMaps
  <1>2. FsTypes'
    BY <1>1 DEF FsInv, FsTypes, StateTypes, DedupTypes, KernelTypes, StackTypes, Within
  <1>3. SlotInv' /\ LinkInv' /\ AddrInv' /\ EventDedupInv'
    BY <1>1 DEF FsInv, SlotInv, LinkInv, AddrInv, EventDedupInv
  <1>4. InodeDedupInv'
    <2>1. \A j, o : CoveredInode(j, o) => CoveredInode(j, o)'
      BY <1>1, CoverGrows
    <2>2. QED BY <1>1, <2>1 DEF FsInv, InodeDedupInv
  <1>5. EventOfReturningCall' /\ LinkReportedOnce' /\ AccessInProfile'
    BY <1>1, AccessGrows DEF FsInv, EventOfReturningCall, LinkReportedOnce
  <1>6. QED BY <1>2, <1>3, <1>4, <1>5 DEF FsInv

LEMMA FsInitially == FsInit => FsInv
  <1> SUFFICES ASSUME FsInit PROVE FsInv
    OBVIOUS
  <1>1. /\ DOMAIN VFS_STATE = {} /\ DOMAIN SYMLINK_MAP = {} /\ DOMAIN INODE_DEDUP = {}
        /\ DOMAIN FS_EVENT_DEDUP = {} /\ DOMAIN FS_PATTERN_DEDUP = {}
        /\ piped = {} /\ accesses = {}
    BY NoEntryFacts DEF FsInit
  <1>2. IsFiniteSet({}) /\ Cardinality({}) = 0
    BY FS_EmptySet
  <1>3. StateTypes /\ DedupTypes
    <2>1. 0 <= StateSize /\ 0 <= InodeDedupSize /\ 0 <= DedupSize
      BY FsAssumption
    <2>2. QED BY <1>1, <1>2, <2>1 DEF StateTypes, DedupTypes, Within
  <1>4. KernelTypes
    BY DEF KernelTypes, FsInit
  <1>5. stack \in [Tasks -> Seq(Calls)] /\ \A t \in Tasks : stack[t] = <<>> /\ Len(stack[t]) = 0
    BY EmptySeq DEF FsInit
  <1>6. StackTypes
    BY <1>5 DEF StackTypes
  <1>7. SlotInv /\ LinkInv
    BY <1>1, <1>5 DEF SlotInv, LinkInv
  <1>8. AddrInv
    <2>1. \A i, j \in Inodes : addr[i] = addr[j] => i = j \/ addr[i] = NONE
      BY DEF FsInit
    <2>2. \A t \in Tasks : 1..Len(stack[t]) = {}
      BY <1>5
    <2>3. QED BY <2>1, <2>2 DEF AddrInv
  <1>9. EventDedupInv /\ InodeDedupInv
    BY <1>1 DEF EventDedupInv, InodeDedupInv
  <1>10. EventOfReturningCall /\ LinkReportedOnce /\ AccessInProfile
    BY <1>1 DEF EventOfReturningCall, LinkReportedOnce, AccessInProfile
  <1>11. QED BY <1>3, <1>4, <1>6, <1>7, <1>8, <1>9, <1>10 DEF FsInv, FsTypes

LEMMA FsInduction == FsInv /\ [FsNext]_fsVars => FsInv'
  <1> SUFFICES ASSUME FsInv, [FsNext]_fsVars PROVE FsInv'
    OBVIOUS
  <1>1. ASSUME NEW t \in Tasks, NEW link \in Links, check_security_inode_follow_link(t, link)
        PROVE  FsInv'
    BY <1>1, FollowStep
  <1>2. ASSUME NEW t \in Tasks, NEW f \in Paths, process_vfs_open(t, f)
        PROVE  FsInv'
    BY <1>2, OpenStep
  <1>3. ASSUME NEW t \in Tasks, NEW f \in Paths, NEW op \in Ops, Call(t, f, op)
        PROVE  FsInv'
    BY <1>3, CallStep
  <1>4. ASSUME NEW t \in Tasks, CallBehind(t) \/ Return(t) \/ ReplaceTask(t)
        PROVE  FsInv'
    BY <1>4, CallBehindStep, ReturnStep, ReplaceStep
  <1>5. ASSUME NEW i \in Inodes, NEW a \in Addrs, LoadInode(i, a)
        PROVE  FsInv'
    BY <1>5, LoadStep
  <1>6. CASE AttachExit
    BY <1>6, NothingTrackedStep DEF AttachExit
  <1>7. CASE UNCHANGED fsVars
    BY <1>7, NothingTrackedStep DEF fsVars, kernel
  <1>8. QED BY <1>1, <1>2, <1>3, <1>4, <1>5, <1>6, <1>7 DEF FsNext

LEMMA FsAlways == FsSpec => []FsInv
  BY FsInitially, FsInduction, PTL DEF FsSpec

(* The maps of the file monitor hold what their programs put there and stay   *)
(* within max_entries; VFS_STATE never holds a socket or a pipe.              *)
THEOREM FsTypeCorrect == FsSpec => []FsTypeOK
  <1>1. FsInv => FsTypeOK
    BY DEF FsInv, FsTypes, StateTypes, DedupTypes, Within, FsTypeOK
  <1>2. QED BY <1>1, FsAlways, PTL

(* The exit of vfs_read, vfs_write or vfs_iter_* reports the file of the call *)
(* that returns, however calls nest and tasks interleave, but for a slot from *)
(* before the exit program was attached.                                      *)
THEOREM EventsNameTheirCall == FsSpec => []EventOfReturningCall
  <1>1. FsInv => EventOfReturningCall
    BY DEF FsInv
  <1>2. QED BY <1>1, FsAlways, PTL

(* SYMLINK_MAP gives a link to one event only, of the task that followed it,  *)
(* but for an entry a dead task left under a reused id.                       *)
THEOREM LinksConsumed == FsSpec => []LinkReportedOnce
  <1>1. FsInv => LinkReportedOnce
    BY DEF FsInv
  <1>2. QED BY <1>1, FsAlways, PTL

(* Whatever the three dedup maps evict or collapse, an access that got a slot *)
(* and whose inode has an address of its own is in the profile.               *)
THEOREM AccessesProfiled == FsSpec => []AccessInProfile
  <1>1. FsInv => AccessInProfile
    BY DEF FsInv
  <1>2. QED BY <1>1, FsAlways, PTL
=============================================================================
