# ebpf-mon in TLA+

ebpf-mon watches one container with eBPF programs, turns what it saw into a
policy, and enforces that policy with BPF LSM hooks. This directory models the
parts of it where concurrency, failure and ordering decide whether the container
is really watched and really confined, checks the models with TLC on small
instances, and proves their safety properties with TLAPS for all instances.

Paths below are relative to the repository (`src/` here).

## 1. The system

| Part | State it keeps | Operations | Talks to |
|---|---|---|---|
| LSM hooks, `ebpf-mon-ebpf/src/enforcement.rs` | none of their own; they read `POLICY_CGROUPS` and the rule maps | `enforce_file_open`, `enforce_bprm_check`, `enforce_socket_connect` | every open, exec and connect of the host; audit perf buffer |
| Packet programs, `ebpf-mon-ebpf/src/network.rs` | `UDP_FLOWS`, `NETWORK_EVENT_DEDUP`, `REAL_SOURCE_MAP`, `INCOMPLETE_PACKETS`, `PROXY_TEMP_MAP` | `process_skb`, the two docker-proxy probes | rule maps (verdict), perf buffers |
| Policy loader, `ebpf-mon/src/enforcement.rs` | `LoadedPolicy`: rules and map handles | `load_policy`, `bind`, `apply_rules`, `rebind` | writes the maps the hooks read |
| Container watcher, `ebpf-mon/src/container.rs` | `was_running`, `current_id`, `current_cgroup_id` of a polling thread | `run`, `send_cgroup_update` | `docker inspect`; an mpsc channel to main |
| Start-up and watcher task, `ebpf-mon/src/main.rs` | `current_cgid`, the filter map `CGROUPS` | attach, load, receive, rebind | all of the above |
| File monitor, `ebpf-mon-ebpf/src/filesystem.rs` | per-task open state, symlink targets, inode dedup | entry and exit probes | perf buffers |
| Process monitor, `ebpf-mon-ebpf/src/process.rs` | exec state and dedup | exec entry and exit, fork | perf buffers |
| Per-CPU allocator, `ebpf-mon-common/src/alloc/bpf.rs` | a bump pointer per CPU | `init`, `alloc_zero` | every eBPF program |
| Event pipeline, `ebpf-mon/src/manager.rs`, `events.rs` | the set of events | perf readers, transformation, export | profile JSON |
| Policy compiler, `ebpf-mon-common/src/policy/` | rule lists | translator, six passes, linker | the loader |
| Policy formats, `policy/frontends`, `policy/backends`, `friction.rs` | none | AppArmor in and out, report of what is lost | the compiler |
| Path classes, `ebpf-mon-common/src/fs/bpf.rs`, `path.rs` | none | `to_classify_buffer`, `classify_path` | file monitor, hooks, compiler |
| CO-RE bindings, strings, buffers, paths | none | field readers, byte helpers | every eBPF program |

What is hard about it:

* **Nothing is atomic across maps.** The loader writes one entry at a time, the
  hooks read one entry at a time, on other CPUs, with no lock.
* **Maps have a fixed size.** Any insert of a bind can fail half-way; the LRU
  maps of the network monitor evict live entries.
* **The container moves.** Each start gives it a new cgroup; a polling thread
  finds out some time later, and its picture is stale when it acts on it.
* **Packets and probes race.** The packet that opens a proxied connection and
  the probe that knows its client run in either order.
* **Rule order is random.** The passes keep rules in a `HashMap`.
* **An event is handed over between probes.** Entry and exit programs meet in a
  map under the task's id; calls nest, tasks are killed, threads change ids, ids
  and inode addresses are used again.
* **Programs share a CPU.** The allocator is per CPU, not per program.
* **Events are dropped.** Perf buffers overflow, deduplication hides, the export
  does not wait.
* **Two parties classify.** The passes and the kernel decide by different tables
  what a path is, and the exact tier of the hook overrides the others.

Correctness, part by part: the hooks decide what the rules say once a bind is
complete, and never anything else afterwards; coverage moves to a new cgroup
before it leaves the old one; audit-only tells the truth about enforcement; no
restart is lost between the watcher's actors and enforcement ends up where the
container is; deduplication hides nothing that was not reported; no packet that
opens a TCP connection to a blocked destination passes, and a datagram does only
inside a live flow (it should not then either: run `udp_repeat`); a proxied
connection is reported with what was read from an accepted socket, and under its own
client unless clients overlap or the probes fall out of step; an exec or access of
the container is in the profile, and what is in the profile happened; every record is
counted, lost or on its way; a pass neither narrows what the profile allows, nor opens
what is denied, nor widens beyond its guards; the friction report is true. Where the
code falls short of one of these, section 3 says in which cases. The full list of what
can go wrong, with the line where it bites, is under `hazards` in `PROJECT.json`.

## 2. The modules

| Module | Models | Extends |
|---|---|---|
| `KernelPolicy` | the enforcement maps and what each hook and the packet verdict decide from them | |
| `PolicyLoader` | `load_policy`, `bind`/`apply_rules`, `rebind`, one map write per step; what the rules mean | `KernelPolicy` |
| `Coverage` | the promise: which cgroups the whole policy is in force for | |
| `HookRace` | one `enforce_file_open` call, one lookup per step, against the loader | `PolicyLoader` |
| `ContainerWatcher` | the container, the polling thread, the channel | |
| `RestartTracking` | start-up, watcher task, cgroup filter; composes watcher and loader | `PolicyLoader`, `ContainerWatcher` |
| `BpfMaps` | what an insert does to a hash map and to an LRU map | |
| `NetworkMonitor` | `process_skb` on several CPUs, UDP flows, event deduplication | `BpfMaps` |
| `ProxyTracking` | the docker-proxy probes, composed with the packet path | `NetworkMonitor` |
| `ExecTracking` | exec entry and exit, fork, dedup, argument redaction; processes and threads around them | `BpfMaps` |
| `FsTracking` | open, read and write probes, symlinks, dedup; tasks and inodes around them | `BpfMaps` |
| `PerCpuAllocator` | the bump allocator | |
| `EventPipeline` | record, perf buffer, reader task, channel, event map, export | `PerCpuAllocator` |
| `PathClassify` | classes of paths, as the kernel decides them | |
| `PolicyIR` | rules, the relation of patterns, what loaded rules permit | `PathClassify` |
| `PolicyPasses` | the passes and the linker as operators on sequences of rules | `PolicyIR` |
| `AppArmor` | lowering, parsing, friction reports | `PolicyIR` |
| `PolicyCompiler` | the compiler step by step, from a profile to loaded rules or an AppArmor profile and back | `PolicyPasses`, `AppArmor` |
| `BpfMaps_proofs` | lemmas on map inserts and drops, cited by the proofs below | `BpfMaps` |
| `PolicyLoader_proofs` | theorems | `HookRace` (and so `PolicyLoader`) |
| `RestartTracking_proofs` | theorems | `RestartTracking`, `PolicyLoader_proofs` |
| `Network_proofs` | theorems | `ProxyTracking` (and so `NetworkMonitor`) |
| `EventPipeline_proofs`, `FsTracking_proofs`, `ExecTracking_proofs`, `PolicyCompiler_proofs` | theorems | the module of that name |
| `SamplePolicy`, `MC*` | values for the constants of the TLC runs | |

### How they correspond to the code

**Maps.** The enforcement maps are total functions with `NONE` for "no entry",
the LRU maps are partial functions. Keys are pairs `<<cgroup id, key>>` as in
the code; `FILE_PREFIX_POLICY` packs `(cgid << 8) | slot` there and is
`<<cgid, slot>>` here. A path is an opaque value with a hash (not assumed
injective), a class and the stored prefixes it starts with, so hashing,
classification and truncation are constants and not the identity. A mode mask is
a set of modes.

**Loader.** `loader.pc` is the place in `apply_rules`: configuration, skb id,
rules, category expansion, and for `rebind` the removal of the old cgroup. Each
map write is a step; an insert of a new key into a full map fails and ends the
bind (the `?` after every insert), leaving everything written before. The
configuration is always default-deny, as in the code. `rules` is chosen once
from `RuleOrders`. `bound` is a history variable. The statistics the loader
counts are left out. The order in which a category group is filled does not
matter (only entries are added), so it is left open.

**Hooks.** `enforce_*` are state functions; `HookRace` takes
`enforce_file_open` apart. Left out: the early returns when a kernel field cannot
be read or the per-CPU buffer is missing, which pass the access.
`EXEC_PATTERN_POLICY` is never populated by the loader, so the class tier of
`enforce_bprm_check` always misses.

**Watcher.** A poll is two steps, `docker inspect` and the resolution of the
cgroup. Poll intervals are abstracted: any number of container events fall
between two polls. The thread, the container and the task of `main.rs` interleave
freely; `Send` loses the message once the receiver is gone. Container events and
`docker` itself are external. The cgroup of the n-th start is n: kernfs does not
reuse ids. The first resolution of the identifier on the command line is done
before the model starts, and ctrl-c ends everything and is left out.

**Network.** Each CPU has a frame: the packet, the clock as the program read it,
the return code. A map operation is a step. `Tick` moves the clock. The policy is
fixed: `Blocked` is the set of destinations `skb_egress_verdict` drops. A
docker-proxy goroutine may accept on one thread and dial on another, because Go
may move it. The address kept for a client is the host's end of the accepted socket,
which may be a gateway's. `docker_proxy_connect` allocates its event and may be
refused; both map entries are gone then as well. `dialing` and `disturbed` are
history. Headers that cannot be read pass the packet and are left out.

**Execs.** A task is `<<process, thread>>`. `handle_exec_common` is the entry
program, `ExecFails` and `ExecSucceeds` are the kernel's part with the exit program
in it: after a successful exec the caller has the leader's id (`de_thread`), so the
exit program of a thread's exec looks under another key than the entry program
wrote. `Exit` kills a process inside or outside an exec. A call says what of it the
programs cannot read: its file name (`nameless`), the text of some arguments
(`blank`), the pointers after the first few (`last`). The results of these reads are
ignored in the code, so the buffers stay empty and the event is sent all the same; what
can be read is cut to its buffer (`Fit`). Arguments are short strings, because
redaction looks at their text; `|` stands for a NUL byte. execveat reads the wrong
offsets (`process.rs:125`), which `ReadFilename` and `ReadArgv` say. A thread that
rewrites the caller's memory during an exec is left out.

**Files.** A task has a stack of vfs calls; `CallBehind` is overlayfs calling
`vfs_iter_*` on the file behind. `LoadInode` gives an inode a new address,
evicting what was there. The exit programs are attached at some step
(`AttachExit`), after the entry programs. Files are constants with an inode, a
kind and a class.

**Pipeline.** A program is a frame on its CPU's stack: `init`, two allocations,
header and payload, `pipe_event`. A second program may start at any point of the
first, on the same CPU: packet programs run in softirqs, and a task may be
preempted inside a probe. All programs but `docker_proxy_connect`
(`network.rs:440-478`) call `init` first; that one is `StartProgram` with `resets`
false, and begins at its allocation. `OpenBuffer` may fail for a CPU, as in the code, which
logs and goes on. The reader task holds a batch while it awaits the channel.
`EntriesFor` is the `HashMap` lookup: an equal key is only certain to be found when
its hash is the same, otherwise either outcome is possible.

**Compiler.** One pass is one step and the property is checked after each.
A pass that iterates over a `HashMap` is the set of its results in all orders.
Strings stay strings where the code compares them (paths, globs, words at fixed
offsets): the passes, the kernel and the AppArmor frontend disagree exactly there.
`FilePermitted`, `ExecPermitted` and `ConnectPermitted` say what the hooks decide
from rules loaded in a given order, the same decision `KernelPolicy` makes from the
maps. A line of an AppArmor profile is a record of what its text says, whether the
path stands in quotes included; `split_path_perms` and `SkippedLine` say what the
parser makes of a name that has a quote in it or begins like a keyword. A missing
protocol stays missing (`NoAddr`). Ids and metadata of rules are left out, and conflict detection, which only
logs: after deduplication no two rules have one signature, so it never reports.

## 3. The runs

| Run | Module, bounds | What it shows |
|---|---|---|
| `loader` | `MCPolicyLoader`; 2 cgroups, 8 rules in every order of the 5 file rules, 1 prefix slot for 2 prefixes, ample maps | `BoundPolicyInForce`, `SkbMirrorsConnect`, `AuditRehearsesEnforcement`, `RestartsDoNotFillAllowlist`, `BindReturns`, refinement of `Coverage` |
| `hook_race` | `MCHookRace`; 3 cgroups, 2 prefix entries, 5 class entries, allowlist of 2 | `CallDecidesPolicy` with the loader writing, and failing, between any two lookups; policies bound earlier stay intact and coverage is kept when any insert fails |
| `restart_tracking` | `MCRestartTracking`; 4 starts, 2 containers of one name, 1 failed inspection | `NoRestartLost`, `FilterMatchesPolicy`, `EnforcementFollows` |
| `packet_flows` | `MCNetwork`; 2 CPUs, 2 crossed UDP flows and a SYN, flow map of 1, dedup map of 2, time 0..2 with lifetimes of 1 | `BlockedPassesOnlyInFlow`, `SuppressedWasReported`, `SpacedUnlessRaced` under eviction |
| `proxy` | `MCProxyTracking`; 2 clients, 2 proxy threads, 2 CPUs, proxy maps of size 1 | `SourceWasAccepted`, `OwnUnlessDisturbed` |
| `exec_monitor` | `MCExecTracking`; 2 processes of up to 2 threads, 2 programs, 9 sample calls, 3 execs or forks, both maps of size 2, names of 7 bytes and arguments of 16 | `ExecEventTrue`, `TargetInProfile`, `SecretsRedacted` |
| `file_monitor` | `MCFsTracking`; 2 tasks, 2 inode addresses, a slot map of 1, dedup maps of 2, 3 calls, 2 inode or task changes | `AccessInProfile`, `EventOfReturningCall`, `LinkReportedOnce` |
| `pipeline` | `MCEventPipeline`; 2 CPUs, 3 programs with or without `init`, 2 nested, buffers of 2, channel of 1 | `EveryRecordAccounted`, `FrequenciesAddUp`, `NoRecordUnheard`, `RecordIsOwn`, `AllocatorSuffices`, `RecordsDelivered` |
| `compiler` | `MCPolicyCompiler`; profiles of up to 4 events, AppArmor profiles of up to 3 lines, clusters of 2, 2 prefix slots, prefixes of 15 bytes | `PermittedStaysPermitted`, `DeniedStaysDenied`, `WideningBounded`, `RelationSound`, `FrictionHonest` |

A datagram that answers another one is in `udp_repeat` only: with it `packet_flows` has
more than 16 million states. That both directions of a flow share an entry, and what
follows from it for the verdict, is proved (`AnswerHasSameKey`, `BlockedPassInFlow`).

Runs that find a disagreement between the code and what it says of itself:

| Run | Claim | What happens |
|---|---|---|
| `allowlist_fills` | "so repeated restarts can't fill it" (`ebpf-mon/src/enforcement.rs:188`) | entries of dead cgroups fill a rule map, `rebind` fails after adding the new cgroup, the old one is never removed |
| `skb_attached` | "the cgroup id the enforcing `cgroup_skb` program is guarding" (`ebpf-mon-ebpf/src/enforcement.rs:35`) | the id follows the container, the attachment does not |
| `udp_repeat` | "a repeated connection to a blocked destination is still dropped even after dedup" (`network.rs:254`) | the second datagram within 5 s passes without a verdict |

### What the exceptions in the properties stand for

A property that holds but for named cases names them because the code behaves so;
each exception is needed (TLC finds a counterexample without it).

* Loader: between the configuration insert of `apply_rules` and the insert of a
  rule, an access the rule allows is blocked. `BoundPolicyInForce` and
  `CallDecidesPolicy` therefore speak of complete binds.
* Watcher: one transient Error message ends the receiving task for good
  (`main.rs:715`), so `EnforcementFollows` and `NoRestartLost` assume a receiver.
* Proxy: the comment at `network.rs:413` speaks of the "REAL source (external client)",
  but the address stored is `skc_rcv_saddr` of the accepted socket, the host's end of it:
  the gateway's when the client dials the gateway. Only the port is the client's.
  `SourceWasAccepted` says that much. Whose port it is is the subject of
  `OwnUnlessDisturbed`: `REAL_SOURCE_MAP` is keyed by the container's end alone and its
  entries are never removed, so a probe that runs before its packet, or on another thread
  than the accept, leaves a client behind that every later packet to that port is reported
  under; clients that are open at the same time may be taken for one another.
* `ExecEventTrue`: an entry of a task killed inside an exec, or of a thread whose
  exec succeeded, stays in `EXEC_STATE` and is completed by a later exec under that id.
* `TargetInProfile`: a failed exec with the same name and arguments suppresses the
  success after it; a relative name, or one cut to 256 bytes, may mean two programs
  (`Denotes`); a name that could not be read is empty, and all execs without a name and
  with the same arguments look alike (`process.rs:184`), as all execveats do; an entry may
  be evicted. Of forks only the first of all is reported.
* `SecretsRedacted`: the flags are the ones the comments name (`SecretsAfter`). Of these
  `--api-key` (`process.rs:319`), `-p` and `-P` (`:331`) never match (`Missed`): the first
  is not what the pattern looks for, the short ones ask for a buffer of two bytes and the
  buffer has 128. A flag that could not be read, or that was overwritten as the value of
  another flag, is none. Not covered by any comment, and shown: the value in
  `--password=x`, and the bytes after the eleventh of a redacted argument, which
  `redact_arg` leaves behind its NUL. The patterns match every flag that begins with them
  (`--keyboard`), so the second half of the property speaks of those (`TakenForFlag`).
* `AllocatorSuffices` is about programs that call `init`. `docker_proxy_connect` does not:
  it goes on where the last program on the CPU stopped, is refused when the counter is at
  `MAX_ALLOCS`, and drops its event; a program it cuts into may be refused too.
* `AccessInProfile`: a full slot map, the call on the file behind an overlay file
  (reported in its place), a reused inode address. An access is "in the profile" when an
  event names some path of its inode, or when such a path has a class and an event of
  that class stands for it: after a write through `/tmp/a` that is collapsed into an event
  about `/tmp/b`, a write through a hard link `/hard` of `/tmp/a` is suppressed by
  `INODE_DEDUP` and no event names the inode at all (`filesystem.rs:285`).
* `EventOfReturningCall`, `LinkReportedOnce`: slots left by calls that returned before
  the exit programs were attached, links left by dead tasks.
* `RecordIsOwn`: a program that ran in the middle of another one's work on that CPU
  overwrites its record, since `init` resets the allocator.
* `EveryRecordAccounted` counts what the final export misses: records in the buffers,
  in a batch or in the channel at ctrl-c.
* `PermittedStaysPermitted`: (1) after a cluster was folded into a directory, or under
  a broader rule, a path that still has an exact rule for one mode loses the other,
  because the exact tier decides alone; the linker's read rule for an executed program
  is such a rule. `HiddenByExact` asks for just that: exact rules for the path stand,
  none of them is for the mode, and the tiers below still let the path through. A file
  read and written with exact rules for both is not excepted. (2) `try_classify` files `/proc/sys/*` under
  ProcPidOther and `/proc/N/stat` under ProcPidStat; the kernel gives ProcGlobalSys and,
  since `to_classify_buffer` repeats the last byte of a short path, ProcPidOther
  (`Misclassified`). (3) A class rule subsumed by a prefix takes along the siblings the
  loader would have whitelisted, or, for the two cgroup classes below, paths outside the
  prefix (`SwallowedClass`). (4) A long prefix that is not canonical is cut short where
  it names more than its canonical form does (`CutShort`). And with more prefixes than
  slots, which are enforced depends on the order of a `HashMap` (`PrefixesFit`).
* `DeniedStaysDenied` speaks of each mode by itself: denied for the mode, and allowed for
  that mode by no rule. One case concerns every path: the class and prefix tiers know no
  modes, so below a directory that is allowed for reading a rule that denies writing
  decides only as an exact entry (`OpenForOtherMode`). Three concern classified paths:
  another file of the class is allowed and generalized to the same rule
  (`AllowedNamesake`); the path has no entry left and the loader whitelists it with a
  sibling (`WhitelistedAsSibling`); the classes the relation is wrong about.
* `RelationSound` (`Unsound`): the two cgroup classes of `/sys`, whose match in the kernel
  is wider than their glob, and prefixes the loader cuts.
* `FrictionHonest`: a prefix too long is called dropped (`friction.rs:169`) but stored cut
  short, against "Kept in lockstep with the loader's match arms" (`friction.rs:144`); a
  prefix such as
  `/tmp/` is lowered to `/tmp/**` and comes back as the class TmpOther
  (`NamesakeOfClass`); a file whose name reads as a glob comes back as the pattern
  (`NameIsGlob`); a name with a blank is put in quotes, but a quote or a line break in it is
  not escaped (`backends/apparmor.rs:207`), and a name without quotes may begin like a
  keyword of the parser (`NameNotKept`); `network inet,` is imported without a protocol
  and emitted as `stream` without a warning (`backends/apparmor.rs:89`), so that it comes
  back for TCP only (`LacksProtocol`). In the last four cases the rule is reported as
  Expressed, of which `friction.rs:19` says "Lowered exactly; no semantics lost."

`CutShort` and `NameIsGlob` were found by proofs that failed; TLC then showed them.

Also seen: deduplication keys rules by `signature()`, without the verdict, and keeps the
first (`passes.rs:83`), so of an allow and a deny rule that differ in nothing else the
first one wins and no conflict is reported, although `tests/pipeline_2x2.rs:521` says
"Deny verdicts survive the whole pipeline"; `Denied` therefore asks that no rule allows
the access in the denied mode. `/x/*` is imported as a recursive prefix; a bind rule comes back from AppArmor
as a connect rule (reported as approximated); every open is learned as a read
(`filesystem.rs:167`).

### Why the bounds are enough to be interesting

Three cgroups give a rebind while another policy is in force and the maps overflow in
the configuration, in the rules and in the expansion; one slot for two prefixes
exercises the skipped rule and its dependence on the order; the third start of a
container while the second is being applied needs three starts; lifetimes of one tick
let entries expire and be renewed while another CPU still holds an older clock; maps of
size one or two make eviction the rule. Three execs give one to leave a stale entry, one
to reuse the id and one to be misreported; the file run has an overlay file, the file
behind it, two files of one class, a hard link to one of them, a sensitive one and a pipe. Three programs are one
interrupted, one that interrupts, and one to meet what they left. The compiler's files
make a cluster, for both modes and two subjects, next to a straggler, a directory too
long and one too shallow, classified and sensitive files, and a program in the cluster;
its lines deny inside allowed directories, are not canonical, and have globs that are a
class's and globs that are not. The constants the code fixes (128 bytes, 64 slots,
clusters of 4) are scaled down so that both sides of each bound occur.

Symmetry is used in the CPUs, threads, cgroups, processes or tasks where the
specification treats them alike.

Deadlock checking is off where the model may really stop: the bound on starts
(`restart_tracking`, `skb_attached`), a loader that exited after a failed first bind
(`hook_race`, `allowlist_fills`), all clients served (`proxy`), the bounds on calls and
programs (`exec_monitor`, `file_monitor`, `pipeline`), a compiler that is done.

### Fairness

`FairSpec` assumes weak fairness of the loader's steps: `apply_rules` is a
sequential function with no waiting in it. `TrackingSpec` assumes weak fairness
of the watcher task and of the watcher thread, both loops with bounded sleeps.
`PipeSpec` assumes it of the reader tasks and of the counting task, which tokio
schedules whenever they can go on; nothing is assumed of programs, of the opening
of buffers or of ctrl-c.
Nothing is assumed of the container, of `docker inspect`, or of the packets;
`EnforcementFollows` is conditional on a container that ends up running and on
no Error message reaching the task.

## 4. The proofs

All constants are arbitrary: any number of CPUs, tasks, rules, cgroups, files, clients,
any sizes of maps, buffers and heap. The assumptions are named and stand in the modules
that declare the constants (`KernelAssumption`, `NoneAssumption`, `LoaderAssumption`,
`WatcherAssumption`, `TrackingAssumption`, `NetworkAssumption`, `ProxyAssumption`,
`AllocAssumption`, `PipeAssumption`, `EventAssumption`, `FsAssumption`,
`CallAssumption`, `ExecAssumption`, `ConfigAssumption`, and those of the next paragraph): types of the
constants, sizes that are positive, category groups that
are disjoint, `NONE` that is no value, a file behind an overlay file that exists and is
of the same kind, a file name that reads as empty and names no program, a dialing address
that is one of the gateways (of the host's own address nothing is assumed). TLC evaluates each of them
in the runs. Each property below is checked by a run as well, but for two that are only
proved (`TrackingTypeOK`, `FilterFollowsTask`).

The provers have no theory of characters: to them a string literal is an unknown value.
What the proofs need of the code's literals is stated as assumptions on constants, and
TLC, which knows the characters, evaluates them: `LiteralAssumption` (the words and globs
of the classifier are sequences, how long they are, which head a glob has),
`FlagAssumption` (the patterns find the flags the comments name, but for those in
`Missed`; an overwritten argument shows `[REDACTED]` and is no flag), `KeywordAssumption`
(the words the AppArmor parser looks for are sequences, a quote is one character).
`PathAssumption`, `ResolvedAssumption`, `ProfileAssumption`, `ImportAssumption` and
`DestinationAssumption` say what the inputs of the compiler are: a path the kernel
resolved is a string that canonicalizing leaves alone, a recorded event has such a path,
an address or a program's name, a canonical form is a string, a connection has an
address. `BufferAssumption` is about two sizes the code fixes (32 and 128 bytes, at least
as long as any head of a glob).

The pattern is the same everywhere: an inductive invariant that says of every place in
the code what has been done there, one lemma per action that keeps it, and the property
as a consequence. What the invariants add to the properties is the interesting part.

**Loader** (`PolicyLoader_proofs`)

* `TypeCorrect`. `TypeOK` alone is not inductive: a rule is applied for `loader.cgid`,
  so `BindInv` adds that a bind in progress has a cgroup, that `current_cgid` is known
  between binds, and what `bound` and the allowlist hold at each place of the loader.
* `SkbMirrors`, `AuditRehearses`: from `Inv == TypeOK /\ BindInv`, case by case.
* `LoaderImplementsCoverage`: `Spec => CoverageKept`, with `covered` as the bound cgroups
  in the allowlist. `BindDone` is the only step that covers, `RemoveOld` the only one
  that releases, and `BindInv` supplies that the new cgroup is covered by then.
* `AllowlistBounded`: `Spec /\ []~InsertFails => []RestartsDoNotFillAllowlist`.
  `AllowlistInv` gives the allowlist exactly, place by place. The hypothesis is that no
  insert ever fails, as in the run `loader`, where the maps are ample; without it the
  claim is false, which the run `allowlist_fills` shows.
* `PolicyInForce`: `Spec => []BoundPolicyInForce`. To carry it through a bind in progress
  `IndInv` adds, for policies of allowing rules, `Installed` (the first `idx - 1` rules
  are in the maps, prefix rule `i` in slot `SlotOf(i)`), `ClassesExpanded`, `Justified`
  (every entry is there because of a rule, so "not permitted" implies "blocked") and
  `NoHoles` (the hook's scan stops at the first empty slot).
* `HookTypeCorrect`, `HookDecidesPolicy`: a call whose lookups interleave with the loader.
  `CallInv` says which tiers a call that has got so far has found empty, and that this
  remains true of the rules: entries of a bound cgroup are never removed.

**Watcher** (`RestartTracking_proofs`)

* `TrackingTypeCorrect`, `RestartsReachTask` (`NoRestartLost`): `TaskInv` ties the place
  of the task in its loop to the place of the loader and to the cgroup being bound,
  `StartInv` says that nothing is sent before the task receives.
* `TrackingKeepsCoverage`: the composed system still implements `Coverage`; its loader
  steps are steps of `PolicyLoader`, the others leave the maps alone.
* `FilterFollowsTask` needs no assumption; `FilterAgreesWithPolicy`, the property
  `FilterMatchesPolicy`, holds while no insert fails: a failed `rebind` moves the filter
  and leaves the old policy (`main.rs:678`).

**Network** (`Network_proofs`)

* `NetTypeCorrect`; `NothingSuppressedUnreported` (`SuppressedWasReported`): `DedupInv`
  has a report for every entry of the map, at most a lifetime before it expires, and for
  every frame that the map has sent to an early return.
* `BlockedPassInFlow` (`BlockedPassesOnlyInFlow`): `VerdictInv` has an opening packet for
  every flow entry. It rests on `normalize_udp_key` being injective on pairs of
  endpoints and the same for both directions (`AnswerHasSameKey`).
* `ReportsSpaced` (`[][SendIsSpaced]_netVars`): `SpacedInv` follows an identity through
  lookup, insert and update in one frame while no other frame works on it.
* `ReportedSourceAccepted`, `NothingSuppressedByProbes`: the composition with the probes.
  `ProxyInv` says that the proxy maps hold only clients that were accepted, and what a
  frame knows of its source at each step.
* `MisattributedOnlyIfDisturbed` (`OwnUnlessDisturbed`): `TrackInv` says where
  the clients are: one kept under a thread, and one whose packet is parked, still has its
  probe to come or is disturbed; what a probe holds is its own client's or a disturbed
  one's; every client in `REAL_SOURCE_MAP` is disturbed.

**Pipeline** (`EventPipeline_proofs`)

* `PipeTypeCorrect`; `RecordsFindReaders` (`NoRecordUnheard`): programs run after
  `attached`, `attached` after `ready`, `ready` after every buffer was tried.
* `HeapSuffices`: if `2 * MaxNesting <= MAX_ALLOCS`, `AllocatorSuffices` holds. `RoomInv`
  bounds the counter by the place of the running program and the number below it, since
  each `init` may be followed by programs that allocate before the first one goes on. It
  says so only of programs that are `sure`: that reset the counter themselves and were
  not cut into by one that does not, since only then is anything known of the counter.
  With the code's 8 entries that is four programs active on a CPU; how deep they can
  nest is the kernel's business, so the bound is a hypothesis.
* `RecordsAreOwn` (`RecordIsOwn`): `OwnInv` says that a program which was not cut into
  holds the last entry of the heap, with its own header and payload as far as it got.
* `RecordsAccounted` (`EveryRecordAccounted`): `AccountInv` is the balance of emitted
  records against lost, dropped, waiting, refused and counted ones, with what keeps the
  opening of a buffer from discarding records, and the export from differing from the map.
* `FrequenciesTrue` (`FrequenciesAddUp`): a record decoded adds one to an entry equal to
  it, found by hash or new, so the frequencies of equal events count what was decoded.
  Both rest on lemmas about sums over a function's domain (`SumRec`, `SumRemove`,
  `SumSame`, `SumChange`). The fold is a recursive function on subsets; that it exists, is
  unique and does not depend on the order is shown on a minimal subset that would be a
  counterexample (`MinimalSubset`), which takes the place of induction.

**File monitor** (`FsTracking_proofs`)

* `EventsNameTheirCall`: `SlotInv`. A slot is the innermost call's or left over from
  before the exit programs; only the innermost call has one; a call with a slot is
  inside the container and on a file that gets slots, so the file behind takes the slot
  and never leaves it to the outer file.
* `LinksConsumed`: `LinkInv`, the same for `SYMLINK_MAP`.
* `AccessesProfiled` (`AccessInProfile`): what each dedup map holds was reported
  (`EventDedupInv`); a key of `INODE_DEDUP` stands for the inode that has the address now,
  unless the address was reused (`InodeDedupInv`). It needs `AddrInv`: addresses are
  not shared, and no inode is dropped under a call. The attempt to prove the property
  as it was first written failed on the hard link above, and TLC then showed it.
* `FsTypeCorrect`.

**Process monitor** (`ExecTracking_proofs`)

* `ExecEventsTrue`: `EntryInv`. An entry of `EXEC_STATE` is of the exec its task is in,
  and of a container's process, or it is stale.
* `TargetsProfiled` (`TargetInProfile`): an exec of the container without an entry has
  had it evicted (`MissInv`); an identity in the dedup map has an event of that file name
  (`KeyInv`), and an event that is true is of a program some name resolves to that reads
  as this one does (`RanInv`), so with one such program it is the one that ran.
* `SecretsStayRedacted` (`SecretsRedacted`): the counter of `read_argv` is a recursive
  function of the position, which exists for every length (by the least position where it
  would not). It is positive behind a flag that the code matches, and `FlagAssumption`
  ties those to the flags the comments name.
* `ExecTypeCorrect`.

**Compiler** (`PolicyCompiler_proofs`), for profiles of any length, any paths and every
order in which the hash maps return the rules

* `RelationAlwaysSound` (`RelationSound`): `RulesInv` says what shape the rules and the
  frontend's rules have. Two facts carry the theorem: a class the kernel gives a path
  has a glob whose head starts the path (`HeadOf` and the lemmas about it), and
  `relation_to` compares heads.
* `DeniedAlwaysDenied`, `PermittedAlwaysPermitted`: a property of permissions says too
  little to be inductive. `SourceInv` follows rules instead: every rule has a source
  among the frontend's, with its verdict and mode and a pattern at or above the
  source's (`AllSourced`), and every rule of the frontend still stands or has a rule
  above it (`AllStand`). While it is known exactly which rules there are
  (`Deduplicated`, `Generalized`) that is said too. Deny follows from the first,
  permission from the second, through the three tiers of the hooks' decision.
* `WideningAlwaysBounded` (`WideningBounded`): `LearnedInv`. Rules are distinct when they
  are clustered, so a bucket's size is the number of names in it, and every prefix in a
  recorded profile's rules is of a cluster.
* `ReportAlwaysHonest` (`FrictionHonest`): `LoweredInv` says that what was lowered is in
  the profile and that the profile is what is read back; each form of line is shown to
  return as a rule of the same meaning, its text quoted or not (`LineRulesAre`,
  `SplitParts`, `NameReturns`). A dropped rule is in no tier, and leaving out
  its position shifts the order of the others without changing it (`Shift`).

Left to TLC is liveness (`BindReturns`, `EnforcementFollows`, `RecordsDelivered`), which is
out of the prover's reach. Every other property of a passing run is proved, with the
hypotheses named above (`AllowlistBounded` and `FilterAgreesWithPolicy`: no insert fails;
`HeapSuffices`: a bound on nesting).

## 5. Not modelled, and what is left

What would be next is the walk that resolves a path (`path/bpf.rs`) and a kernel field
that cannot be read, as steps of the programs of `FsTracking` and `HookRace`.

Not modelled:

* The generated CO-RE bindings (`co_re/gen.rs`) and the field readers: no state. That a
  kernel field cannot be read is left out of the programs that read it; they return
  early and the access passes or the event is not sent.
* How a path is resolved (`path/bpf.rs`, the dentry walk) and the byte helpers for
  strings and buffers: one program on its own buffer.
* The text of formats and reports (qualifiers, line breaks inside names, rendering), the command line,
  the files written, the periodic export, which only reads the event map.
* CPUs that come online after the buffers were opened: the code lists them once.
* Demo and harness scripts, examples.
