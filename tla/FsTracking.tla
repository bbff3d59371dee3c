------------------------------ MODULE FsTracking ------------------------------
(***************************************************************************)
(* The file monitor (filesystem.rs): opens are reported from the exit of   *)
(* vfs_open; reads and writes are handed from the entry of vfs_read,       *)
(* vfs_write and vfs_iter_* to their exit through VFS_STATE, and a symbolic *)
(* link followed before through SYMLINK_MAP, both under the task's id.     *)
(* Three LRU maps deduplicate: by inode address before the path is         *)
(* resolved, then by pattern or by path.                                   *)
(*                                                                         *)
(* Around the programs, the kernel: a call on an overlay file calls        *)
(* vfs_iter_* on the file behind it; inodes are dropped and their addresses *)
(* used for others; tasks exit and their ids are given out again; the exit *)
(* programs are attached after the entry programs.  Left out: unreadable   *)
(* kernel fields, and how a path is resolved and classified (PathClassify). *)
(***************************************************************************)
EXTENDS Sequences, BpfMaps

CONSTANTS
    Files,            \* path -> [ino, kind, pattern, sensitive, behind]
    Links,            \* dentries of symbolic links
    Tasks,            \* task ids (pid_tgid)
    Addrs,            \* addresses of inode objects
    StateSize,        \* max_entries of VFS_STATE and SYMLINK_MAP (1024)
    InodeDedupSize,   \* max_entries of INODE_DEDUP (65536)
    DedupSize,        \* max_entries of FS_EVENT_DEDUP, FS_PATTERN_DEDUP (65536, 1024)
    MaxCalls,         \* bound: opens, reads, writes and links followed
    MaxTurns,         \* bound: inodes loaded and tasks replaced
    NONE

\* A file behind an overlay file is there for it and of the same kind.
ASSUME FsAssumption ==
    /\ \A f \in DOMAIN Files : Files[f].behind # NONE =>
          /\ Files[f].behind \in DOMAIN Files
          /\ Files[Files[f].behind].kind = Files[f].kind
    /\ StateSize \in Nat \ {0} /\ InodeDedupSize \in Nat \ {0} /\ DedupSize \in Nat \ {0}

VARIABLES
    inside,            \* task -> is it in the monitored container?
    stack,             \* task -> the vfs calls it is in, innermost first
    addr,              \* inode -> address of its object, or NONE
    attached,          \* are the exit programs attached?
    VFS_STATE, SYMLINK_MAP,
    INODE_DEDUP, FS_EVENT_DEDUP, FS_PATTERN_DEDUP,
    piped,             \* history: events, each with the call it was piped at
    accesses,          \* history: reads and writes of the container that returned
    followed,          \* history: task -> links it followed and no event named
    odd,               \* history: tasks with a left-over slot or link, reused addresses
    calls, turns

stateMaps == <<VFS_STATE, SYMLINK_MAP>>
dedupMaps == <<INODE_DEDUP, FS_EVENT_DEDUP, FS_PATTERN_DEDUP>>
kernel == <<inside, addr, attached>>
fsVars == <<stateMaps, dedupMaps, kernel, stack, piped, accesses, followed, odd, calls, turns>>

Paths == DOMAIN Files
Ops == {0, 1}           \* r_w: 0 read, 1 write
Inodes == {Files[f].ino : f \in Paths}

FsInit ==
    /\ inside \in {i \in [Tasks -> BOOLEAN] : \E t \in Tasks : i[t]}
    /\ stack = [t \in Tasks |-> <<>>] /\ followed = [t \in Tasks |-> {}]
    /\ addr \in {f \in [Inodes -> Addrs \cup {NONE}] :
                   \A i, j \in Inodes : f[i] = f[j] => i = j \/ f[i] = NONE}
    /\ attached = FALSE
    /\ VFS_STATE = NoEntry /\ SYMLINK_MAP = NoEntry
    /\ INODE_DEDUP = NoEntry /\ FS_EVENT_DEDUP = NoEntry /\ FS_PATTERN_DEDUP = NoEntry
    /\ piped = {} /\ accesses = {} /\ odd = {} /\ calls = 0 /\ turns = 0

\* The inode object of f is in memory.
Loaded(f) == addr[Files[f].ino] # NONE
Free(t) == stack[t] = <<>> /\ calls < MaxCalls

-----------------------------------------------------------------------------
\* All paths of a pattern are one event; regular and sensitive ones are not.
ByPattern(f) == Files[f].pattern # "Regular" /\ ~Files[f].sensitive

FsIdentity(ev) == <<ev.path, ev.r_w, ev.link # NONE, Files[ev.path].pattern>>
FsPatternIdentity(ev) == <<Files[ev.path].pattern, ev.r_w>>

\* ev.path is the file the event is about, at the call it was piped from.
deduplicate_and_send(ev) ==
    \/ /\ ByPattern(ev.path) /\ FsPatternIdentity(ev) \notin DOMAIN FS_PATTERN_DEDUP
       /\ FS_PATTERN_DEDUP' \in LruPuts(FS_PATTERN_DEDUP, FsPatternIdentity(ev), 1, DedupSize)
       /\ piped' = piped \cup {ev} /\ UNCHANGED FS_EVENT_DEDUP
    \/ /\ ~ByPattern(ev.path) /\ FsIdentity(ev) \notin DOMAIN FS_EVENT_DEDUP
       /\ FS_EVENT_DEDUP' \in LruPuts(FS_EVENT_DEDUP, FsIdentity(ev), 1, DedupSize)
       /\ piped' = piped \cup {ev} /\ UNCHANGED FS_PATTERN_DEDUP
    \/ /\ IF ByPattern(ev.path) THEN FsPatternIdentity(ev) \in DOMAIN FS_PATTERN_DEDUP
                                ELSE FsIdentity(ev) \in DOMAIN FS_EVENT_DEDUP
       /\ UNCHANGED <<FS_EVENT_DEDUP, FS_PATTERN_DEDUP, piped>>

\* The path walk of t goes through a symbolic link.  A full map keeps what it has.
check_security_inode_follow_link(t, link) ==
    /\ Free(t) /\ calls' = calls + 1
    /\ IF inside[t] THEN /\ SYMLINK_MAP' = HashPut(SYMLINK_MAP, t, link, StateSize)
                         /\ followed' = [followed EXCEPT ![t] = @ \cup {link}]
                         /\ odd' = odd \ {<<"link", t>>}
       ELSE UNCHANGED <<SYMLINK_MAP, followed, odd>>
    /\ UNCHANGED <<VFS_STATE, dedupMaps, kernel, stack, piped, accesses, turns>>

\* vfs_open succeeds.  An open is always reported as a read.
process_vfs_open(t, f) ==
    /\ Free(t) /\ Loaded(f) /\ calls' = calls + 1
    /\ IF inside[t] /\ Files[f].kind \notin {"socket", "pipe"}
       THEN deduplicate_and_send([path |-> f, r_w |-> 0, link |-> NONE, of |-> f,
                                  own |-> TRUE, odd |-> {}])
       ELSE UNCHANGED <<FS_EVENT_DEDUP, FS_PATTERN_DEDUP, piped>>
    /\ UNCHANGED <<stateMaps, INODE_DEDUP, kernel, stack, accesses, followed, odd, turns>>

-----------------------------------------------------------------------------
\* Mutants: files of every kind are kept; a slot in use is kept.
SlotPutAny(t, f) == HashPut(VFS_STATE, t, f, StateSize)
SlotPutNoexist(t, f) ==
    IF Files[f].kind \in {"regular", "block"} /\ t \notin DOMAIN VFS_STATE
    THEN HashPut(VFS_STATE, t, f, StateSize) ELSE VFS_STATE

SlotPut(t, f) ==
    IF Files[f].kind \in {"regular", "block"} THEN HashPut(VFS_STATE, t, f, StateSize) ELSE VFS_STATE

\* What became of the call's slot: kept, no file for it, or the map was full.
SlotOf(t, f) ==
    IF ~inside[t] \/ Files[f].kind \notin {"regular", "block"} THEN "none"
    ELSE IF t \in DOMAIN VFS_STATE' THEN "kept" ELSE "full"

\* The call below has lost its slot.
Taken(calls_in) ==
    IF calls_in # <<>> /\ Head(calls_in).slot = "kept"
    THEN <<[Head(calls_in) EXCEPT !.slot = "taken"]>> \o Tail(calls_in) ELSE calls_in

\* Entry of vfs_read, vfs_write, vfs_iter_read, vfs_iter_write.
process_vfs_fentry(t, f, op) ==
    /\ Loaded(f)
    /\ IF inside[t] THEN VFS_STATE' = SlotPut(t, f) ELSE UNCHANGED VFS_STATE
    /\ odd' = IF SlotOf(t, f) = "kept" THEN odd \ {<<"slot", t>>} ELSE odd
    /\ stack' = [stack EXCEPT ![t] =
            <<[path |-> f, op |-> op, slot |-> SlotOf(t, f)]>>
            \o (IF SlotOf(t, f) = "kept" THEN Taken(@) ELSE @)]
    /\ UNCHANGED <<SYMLINK_MAP, dedupMaps, kernel, piped, accesses, followed, turns>>

Call(t, f, op) == Free(t) /\ calls' = calls + 1 /\ process_vfs_fentry(t, f, op)

\* The overlay passes its call on to the file behind it.
CallBehind(t) ==
    /\ Len(stack[t]) = 1 /\ Files[Head(stack[t]).path].behind # NONE
    /\ process_vfs_fentry(t, Files[Head(stack[t]).path].behind, Head(stack[t]).op)
    /\ UNCHANGED calls

\* Mutant: reads and writes share a key.
InodeDedupKeyNoOp(f, op) == <<addr[Files[f].ino], 0>>

InodeDedupKey(f, op) == <<addr[Files[f].ino], op>>

\* Mutant: the entry stays.
TakenLinkKept(t) == SYMLINK_MAP

TakenLink(t) == Drop(SYMLINK_MAP, t)

Pending(t) == t \in DOMAIN SYMLINK_MAP
LinkOf(t) == IF Pending(t) THEN SYMLINK_MAP[t] ELSE NONE

\* Exit, with a slot: the file of the slot, the operation of the program.
process_vfs_fexit(t, f, op) ==
    /\ VFS_STATE' = Drop(VFS_STATE, t)
    /\ \/ /\ ~Pending(t) /\ InodeDedupKey(f, op) \in DOMAIN INODE_DEDUP
          /\ UNCHANGED <<SYMLINK_MAP, dedupMaps, piped, followed, odd>>
       \/ /\ Pending(t) \/ InodeDedupKey(f, op) \notin DOMAIN INODE_DEDUP
          /\ IF Pending(t) THEN UNCHANGED INODE_DEDUP
             ELSE INODE_DEDUP' \in LruPuts(INODE_DEDUP, InodeDedupKey(f, op), 1, InodeDedupSize)
          /\ deduplicate_and_send([path |-> f, r_w |-> op, link |-> LinkOf(t),
                of |-> Head(stack[t]).path, own |-> LinkOf(t) \in followed[t] \cup {NONE},
                odd |-> {o \in {"slot", "link"} : <<o, t>> \in odd}])
          /\ SYMLINK_MAP' = TakenLink(t)
          /\ followed' = [followed EXCEPT ![t] = @ \ {LinkOf(t)}]
          /\ odd' = odd \ {<<"link", t>>, <<"slot", t>>}

\* A read or write returns; an access counts once the exit program is attached.
Return(t) ==
    /\ stack[t] # <<>>
    /\ stack' = [stack EXCEPT ![t] = Tail(@)]
    /\ LET c == Head(stack[t])
       IN  IF ~attached
           THEN /\ odd' = IF t \in DOMAIN VFS_STATE THEN odd \cup {<<"slot", t>>} ELSE odd
                /\ UNCHANGED <<stateMaps, dedupMaps, piped, accesses, followed>>
           ELSE /\ IF t \in DOMAIN VFS_STATE THEN process_vfs_fexit(t, VFS_STATE[t], c.op)
                   ELSE UNCHANGED <<stateMaps, dedupMaps, piped, followed, odd>>
                /\ accesses' = IF c.slot = "none" THEN accesses
                     ELSE accesses \cup {[path |-> c.path, op |-> c.op, slot |-> c.slot,
                             reused |-> <<"addr", addr[Files[c.path].ino]>> \in odd]}
    /\ UNCHANGED <<kernel, calls, turns>>

-----------------------------------------------------------------------------
\* main attaches the exit program of a function after its entry program.
AttachExit ==
    /\ ~attached /\ attached' = TRUE
    /\ UNCHANGED <<stateMaps, dedupMaps, inside, addr, stack, piped, accesses, followed, odd, calls, turns>>

\* The inode gets an address, in place of one that no call uses.
LoadInode(i, a) ==
    /\ addr[i] = NONE /\ turns < MaxTurns /\ turns' = turns + 1
    /\ \A t \in Tasks, k \in {1, 2} :
          k <= Len(stack[t]) => addr[Files[stack[t][k].path].ino] # a
    /\ addr' = [j \in Inodes |-> IF j = i THEN a ELSE IF addr[j] = a THEN NONE ELSE addr[j]]
    /\ odd' = IF \E op \in Ops : <<a, op>> \in DOMAIN INODE_DEDUP THEN odd \cup {<<"addr", a>>} ELSE odd
    /\ UNCHANGED <<stateMaps, dedupMaps, inside, attached, stack, piped, accesses, followed, calls>>

\* A task exits, and its id is another task's, inside the container or not.
ReplaceTask(t) ==
    /\ stack[t] = <<>> /\ turns < MaxTurns /\ turns' = turns + 1
    /\ \E b \in BOOLEAN : inside' = [inside EXCEPT ![t] = b]
    /\ followed' = [followed EXCEPT ![t] = {}]
    /\ odd' = IF Pending(t) THEN odd \cup {<<"link", t>>} ELSE odd
    /\ UNCHANGED <<stateMaps, dedupMaps, addr, attached, stack, piped, accesses, calls>>

FsNext ==
    \/ \E t \in Tasks, link \in Links : check_security_inode_follow_link(t, link)
    \/ \E t \in Tasks, f \in Paths : process_vfs_open(t, f)
    \/ \E t \in Tasks, f \in Paths, op \in Ops : Call(t, f, op)
    \/ \E t \in Tasks : CallBehind(t) \/ Return(t) \/ ReplaceTask(t)
    \/ \E i \in Inodes, a \in Addrs : LoadInode(i, a)
    \/ AttachExit

FsSpec == FsInit /\ [][FsNext]_fsVars

-----------------------------------------------------------------------------
\* The maps of filesystem.rs stay within their sizes, and VFS_STATE holds
\* regular files and block devices only.
FsTypeOK ==
    /\ \A m \in {VFS_STATE, SYMLINK_MAP} :
          DOMAIN m \subseteq Tasks /\ Cardinality(DOMAIN m) <= StateSize
    /\ \A t \in DOMAIN VFS_STATE : Files[VFS_STATE[t]].kind \in {"regular", "block"}
    /\ \A t \in DOMAIN SYMLINK_MAP : SYMLINK_MAP[t] \in Links
    /\ Cardinality(DOMAIN INODE_DEDUP) <= InodeDedupSize
    /\ \A m \in {FS_EVENT_DEDUP, FS_PATTERN_DEDUP} : Cardinality(DOMAIN m) <= DedupSize

\* An event with the operation names the file or another path of its inode, or
\* a file of a pattern that stands for one of them.
Covered(f, op) ==
    \E e \in piped :
        /\ e.r_w = op
        /\ \/ Files[e.path].ino = Files[f].ino
           \/ \E g \in Paths : /\ Files[g].ino = Files[f].ino /\ ByPattern(g)
                               /\ Files[e.path].pattern = Files[g].pattern

\* A read or write of the container that returned is in the profile, with its
\* operation.  "Distinct paths that share an inode collapse to one event per
\* operation", and where that one path has a pattern, to an event of the
\* pattern, which need not name the inode at all.  The exceptions: VFS_STATE
\* was full; the call lost its slot to the call on the file behind it, which
\* is reported in its place; the address of its inode had been another inode's
\* ("a stable, per-filesystem-unique identity").
AccessInProfile ==
    \A a \in accesses : a.slot \in {"full", "taken"} \/ a.reused \/ Covered(a.path, a.op)

\* The event piped at the exit of a read or write is about the file of the
\* call that returns, the innermost one, not one that the task's slot in
\* VFS_STATE was left with, unless the slot is from a call that returned
\* before the exit program was attached.
EventOfReturningCall ==
    \A e \in piped : e.path = e.of \/ "slot" \in e.odd

\* A link named in an event was followed by the same task, and no earlier
\* event named it: SYMLINK_MAP is consumed by the first read or write that
\* gets past the inode dedup, of whatever file.  The exception is an entry
\* that a dead task left under a reused id.
LinkReportedOnce ==
    \A e \in piped : e.own \/ "link" \in e.odd
=============================================================================
