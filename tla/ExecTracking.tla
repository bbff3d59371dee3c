----------------------------- MODULE ExecTracking -----------------------------
(***************************************************************************)
(* The process monitor (process.rs): the programs on entry and exit of     *)
(* execve and execveat, which hand an event over through EXEC_STATE under  *)
(* the task's pid_tgid, the one on fork, and the deduplication they share. *)
(*                                                                         *)
(* Around them, the processes as the kernel runs them: a process has a     *)
(* leader thread 0 and may have a thread 1; a successful exec kills the    *)
(* other threads and goes on under the leader's id, whichever thread       *)
(* called it; a task may be killed inside an exec, and then the exit       *)
(* program never runs; ids of dead processes are given out again.          *)
(* What the programs read of the caller's memory is cut to the size of its *)
(* buffer, and a read that fails is ignored: each call comes with what is  *)
(* unreadable of it, which is up to the pages that are in memory.          *)
(* Left out: unreadable kernel fields, a missing exe_file, the fields of   *)
(* the event that no step here depends on, and a thread that rewrites the  *)
(* arguments of an exec while it runs.                                     *)
(***************************************************************************)
EXTENDS Integers, Sequences, BpfMaps

CONSTANTS
    Procs,           \* process ids (tgid)
    Programs,        \* executables
    Resolves,        \* file name -> the programs it may run (a relative name
                     \* means another file in another directory)
    ExecCalls,       \* calls of execve and execveat: see CallAssumption
    MAX_ARGS,        \* 20
    MAX_ARG_LEN,     \* 128
    MAX_FILENAME_LEN, \* 256
    ExecStateSize,   \* max_entries of EXEC_STATE (1024)
    DedupSize,       \* max_entries of PROCESS_EVENT_DEDUP (1024)
    MaxCalls,        \* bound: execs and forks
    NONE

\* What bpf_probe_read_user_str_bytes leaves of a string in a buffer of n bytes.
Fit(string, n) == IF Len(string) < n THEN string ELSE SubSeq(string, 1, n - 1)

\* at: execveat.  Unreadable are the file name (nameless), the strings of the
\* arguments in blank, and the pointers after the first last ones.
ASSUME CallAssumption ==
    ExecCalls \subseteq [at : BOOLEAN, filename : DOMAIN Resolves, argv : Seq(STRING),
                         nameless : BOOLEAN, blank : SUBSET Nat, last : Nat]

\* The empty file name names no program.
ASSUME ExecAssumption ==
    /\ NONE \notin ExecCalls
    /\ IsFiniteSet(Programs) /\ Resolves \in [DOMAIN Resolves -> SUBSET Programs]
    /\ \A name \in DOMAIN Resolves : Fit(name, MAX_FILENAME_LEN) = "" => Resolves[name] = {}
    /\ ExecStateSize \in Nat \ {0} /\ DedupSize \in Nat \ {0} /\ MAX_ARGS \in Nat

VARIABLES
    procs,                \* process -> [cgroup, exe, threads]; no threads: free id
    call,                 \* task -> the exec it is in, or NONE
    EXEC_STATE,           \* task -> event under construction
    PROCESS_EVENT_DEDUP,  \* identity -> 1
    piped,                \* history: exec events piped, with what really happened
    ran,                  \* history: execs of the container that succeeded
    stale,                \* history: tasks whose entry outlived its exec
    evicted,              \* history: tasks whose entry was evicted
    calls

execVars == <<procs, call, EXEC_STATE, PROCESS_EVENT_DEDUP, piped, ran, stale, evicted, calls>>

Tasks == Procs \X {0, 1}
Leader(t) == <<t[1], 0>>
Alive(t) == t[2] \in procs[t[1]].threads

\* cgroup_exists: the filter holds the container's cgroup.
cgroup_exists(p) == procs[p].cgroup = "container"

-----------------------------------------------------------------------------
(* Arguments.  An argument is the string in its buffer, with a bar for an    *)
(* inner NUL.  A flag is matched on the whole zero-padded buffer, so a       *)
(* pattern matches every flag that begins with it, and the short flags,      *)
(* which ask for a buffer of length two, never match.                        *)

matches_long_flag(arg, pattern) ==
    /\ Len(arg) >= Len(pattern) + 2
    /\ SubSeq(arg, 1, Len(pattern) + 2) = "--" \o pattern

\* How many of the next arguments are redacted.
check_sensitive_flag(arg) ==
    IF matches_long_flag(arg, "encrypt") THEN 2
    ELSE IF \E p \in {"pass", "secret", "key", "token"} : matches_long_flag(arg, p) THEN 1
    ELSE 0

\* redact_count when argument i is looked at.
redact_count(argv) ==
    LET left[i \in 1..Len(argv)] ==
            IF i = 1 THEN 0
            ELSE IF left[i - 1] > 0 THEN left[i - 1] - 1
            ELSE check_sensitive_flag(argv[i - 1])
    IN  left

\* Eleven bytes are overwritten; what was behind them stays in the buffer.
redact_arg(arg) == "[REDACTED]|" \o SubSeq(arg, 12, Len(arg))

\* The buffer up to its first NUL, as a user of the tool sees it.
Shown(arg) ==
    LET nul == {i \in 1..Len(arg) : SubSeq(arg, i, i) = "|"}
    IN  IF nul = {} THEN arg ELSE SubSeq(arg, 1, (CHOOSE i \in nul : \A j \in nul : i <= j) - 1)

\* The buffers the arguments of c are read into: as many as the reads of their
\* pointers find; a string that cannot be read counts and leaves its buffer empty.
Buffers(c) ==
    [i \in {k \in 1..MAX_ARGS : k <= Len(c.argv) /\ k <= c.last} |->
        IF i \in c.blank THEN "" ELSE Fit(c.argv[i], MAX_ARG_LEN)]

\* Mutant: one argument is redacted after any flag.
read_argv_once(args) ==
    [i \in DOMAIN args |->
        IF i > 1 /\ check_sensitive_flag(args[i - 1]) > 0 THEN redact_arg(args[i]) ELSE args[i]]

\* What becomes of the arguments in their buffers.
read_argv(args) ==
    [i \in DOMAIN args |-> IF redact_count(args)[i] > 0 THEN redact_arg(args[i]) ELSE args[i]]

-----------------------------------------------------------------------------
ExecInit ==
    /\ \E inside \in SUBSET Procs \ {{}} :
          procs = [p \in Procs |->
                      [cgroup |-> IF p \in inside THEN "container" ELSE "host",
                       exe |-> "/runc", threads |-> {0}]]
    /\ call = [t \in Tasks |-> NONE]
    /\ EXEC_STATE = NoEntry /\ PROCESS_EVENT_DEDUP = NoEntry
    /\ piped = {} /\ ran = {} /\ stale = {} /\ evicted = {} /\ calls = 0

\* All MAX_ARGS buffers are compared: one left empty is as good as none.
Padded(argv) == [i \in 1..MAX_ARGS |-> IF i \in DOMAIN argv THEN argv[i] ELSE ""]

\* Mutant: the file name is not part of the identity.
ProcessIdentityNoFile(ev) == <<ev.ps_type, "", Padded(ev.argv)>>

\* Of a fork nothing but the type is set.
ProcessIdentity(ev) == <<ev.ps_type, ev.filename, Padded(ev.argv)>>

Suppressed(ev) == ProcessIdentity(ev) \in DOMAIN PROCESS_EVENT_DEDUP

\* An event is piped if its identity was not in the map; records is how the
\* history of piped events goes on then.
deduplicate_and_send(ev, records) ==
    IF Suppressed(ev)
    THEN UNCHANGED <<PROCESS_EVENT_DEDUP, piped>>
    ELSE /\ PROCESS_EVENT_DEDUP' \in LruPuts(PROCESS_EVENT_DEDUP, ProcessIdentity(ev), 1, DedupSize)
         /\ piped' = piped \cup records

\* sched_process_fork: the child takes a free id.
try_fork_tracepoint(t, child) ==
    /\ Alive(t) /\ call[t] = NONE /\ calls < MaxCalls
    /\ procs[child].threads = {}
    /\ procs' = [procs EXCEPT ![child] = [procs[t[1]] EXCEPT !.threads = {0}]]
    /\ calls' = calls + 1
    /\ IF cgroup_exists(t[1])
       THEN deduplicate_and_send([ps_type |-> "fork", filename |-> "", argv |-> <<>>], {})
       ELSE UNCHANGED <<PROCESS_EVENT_DEDUP, piped>>
    /\ UNCHANGED <<call, EXEC_STATE, ran, stale, evicted>>

SpawnThread(p) ==
    /\ procs[p].threads = {0}
    /\ procs' = [procs EXCEPT ![p].threads = {0, 1}]
    /\ UNCHANGED <<call, EXEC_STATE, PROCESS_EVENT_DEDUP, piped, ran, stale, evicted, calls>>

\* What the entry program reads; a failed read is ignored and leaves an empty
\* buffer.  The program on execveat takes the first two arguments of the call,
\* a descriptor and the file name, for the file name and argv: there is no
\* string at the descriptor, nor at what the bytes of the name point to.
ReadFilename(c) == IF c.at \/ c.nameless THEN "" ELSE Fit(c.filename, MAX_FILENAME_LEN)
ReadArgv(c) ==
    IF c.at THEN [i \in {k \in 1..MAX_ARGS : k <= c.last} |-> ""] ELSE read_argv(Buffers(c))

\* Mutants: entries are kept per process; an entry that is there stays.
InsertPerProcess(t, ev) == LruPuts(EXEC_STATE, t[1], ev, ExecStateSize)
InsertNoexist(t, ev) ==
    IF t \in DOMAIN EXEC_STATE THEN {EXEC_STATE} ELSE LruPuts(EXEC_STATE, t, ev, ExecStateSize)

\* EXEC_STATE.insert, under bpf_get_current_pid_tgid.
InsertState(t, ev) == LruPuts(EXEC_STATE, t, ev, ExecStateSize)

\* sys_enter_execve(at): the event has the caller's path until the exec returns.
handle_exec_common(t, c) ==
    /\ Alive(t) /\ call[t] = NONE /\ calls < MaxCalls
    /\ call' = [call EXCEPT ![t] = c]
    /\ calls' = calls + 1
    /\ IF cgroup_exists(t[1])
       THEN /\ EXEC_STATE' \in InsertState(t,
                  [ps_type |-> "execve", path |-> procs[t[1]].exe, filename |-> ReadFilename(c),
                   argv |-> ReadArgv(c), retval |-> 0])
            /\ stale' = stale \ {t}
            /\ evicted' = (evicted \cup (DOMAIN EXEC_STATE \ DOMAIN EXEC_STATE')) \ {t}
       ELSE UNCHANGED <<EXEC_STATE, stale, evicted>>
    /\ UNCHANGED <<procs, PROCESS_EVENT_DEDUP, piped, ran>>

\* The event at the exit of an exec in the task that is now t.
ExitEvent(t, exe, retval) ==
    [EXEC_STATE[t] EXCEPT !.retval = retval, !.path = IF retval = 0 THEN exe ELSE @]

\* sys_exit_execve(at), in the task that is now t: call c returned retval and
\* the process runs exe.  The cgroup is not looked at.  others: the entry was
\* made by another exec than c.
handle_exit_exec_common(t, exe, retval, c, others) ==
    IF t \notin DOMAIN EXEC_STATE
    THEN UNCHANGED <<EXEC_STATE, PROCESS_EVENT_DEDUP, piped>>
    ELSE LET ev == ExitEvent(t, exe, retval)
         IN  /\ deduplicate_and_send(ev, {[event |-> ev, call |-> c, exe |-> exe,
                                           cgroup |-> procs[t[1]].cgroup, others |-> others]})
             /\ EXEC_STATE' = Drop(EXEC_STATE, t)

ExecFails(t) ==
    /\ Alive(t) /\ call[t] # NONE
    /\ call' = [call EXCEPT ![t] = NONE]
    /\ handle_exit_exec_common(t, procs[t[1]].exe, -1, call[t], t \in stale)
    /\ stale' = stale \ {t}
    /\ UNCHANGED <<procs, ran, evicted, calls>>

\* The tasks of p that are inside an exec.
InExec(p) == {u \in Tasks : u[1] = p /\ call[u] # NONE}

\* What becomes of the exec that succeeds in t.
Fate(t, exe) ==
    IF Leader(t) \notin DOMAIN EXEC_STATE THEN "missed"
    ELSE IF Suppressed(ExitEvent(Leader(t), exe, 0)) THEN "duplicate" ELSE "reported"

ExecSucceeds(t, exe) ==
    LET others == t # Leader(t) \/ Leader(t) \in stale
    IN  /\ Alive(t) /\ call[t] # NONE
        /\ exe \in Resolves[call[t].filename]
        /\ procs' = [procs EXCEPT ![t[1]].exe = exe, ![t[1]].threads = {0}]
        /\ call' = [u \in Tasks |-> IF u[1] = t[1] THEN NONE ELSE call[u]]
        /\ handle_exit_exec_common(Leader(t), exe, 0, call[t], others)
        /\ stale' = (stale \cup InExec(t[1])) \ {Leader(t)}
        /\ ran' = IF ~cgroup_exists(t[1]) THEN ran
                  ELSE ran \cup {[call |-> call[t], exe |-> exe, fate |-> Fate(t, exe),
                                  others |-> others, evicted |-> t \in evicted]}
        /\ UNCHANGED <<evicted, calls>>

\* The process is killed, inside an exec or not; no program runs.
Exit(p) ==
    /\ procs[p].threads # {}
    /\ procs' = [procs EXCEPT ![p].threads = {}]
    /\ call' = [u \in Tasks |-> IF u[1] = p THEN NONE ELSE call[u]]
    /\ stale' = stale \cup InExec(p)
    /\ UNCHANGED <<EXEC_STATE, PROCESS_EVENT_DEDUP, piped, ran, evicted, calls>>

ExecNext ==
    \/ \E t \in Tasks, child \in Procs : try_fork_tracepoint(t, child)
    \/ \E t \in Tasks, c \in ExecCalls : handle_exec_common(t, c)
    \/ \E t \in Tasks : ExecFails(t)
    \/ \E t \in Tasks, exe \in Programs : ExecSucceeds(t, exe)
    \/ \E p \in Procs : SpawnThread(p) \/ Exit(p)

ExecSpec == ExecInit /\ [][ExecNext]_execVars

-----------------------------------------------------------------------------
\* The types of the maps and histories of process.rs; no map outgrows its size.
ExecTypeOK ==
    /\ \A p \in Procs : /\ procs[p].exe \in Programs \cup {"/runc"}
                         /\ procs[p].threads \in {{}, {0}, {0, 1}}
    /\ DOMAIN EXEC_STATE \subseteq Tasks /\ Cardinality(DOMAIN EXEC_STATE) <= ExecStateSize
    /\ Cardinality(DOMAIN PROCESS_EVENT_DEDUP) <= DedupSize
    /\ \A t \in Tasks : call[t] # NONE => Alive(t)

\* An event that EXEC_STATE hands from the entry of an exec to its exit
\* (handle_exec_common, handle_exit_exec_common) describes that very exec: the
\* file name and arguments of the call, the program that runs now if it
\* succeeded, and a process of the container, whatever other tasks, id reuse
\* and evictions come between the two.  The exceptions are entries of tasks
\* that were killed inside an exec or lost their id to the leader's, which
\* nothing removes.
ExecEventTrue ==
    \A r \in piped : ~r.others =>
        /\ r.cgroup = "container"
        /\ r.event.filename = ReadFilename(r.call) /\ r.event.argv = ReadArgv(r.call)
        /\ r.event.retval = 0 => r.event.path = r.exe

\* The programs a file name may have run that reads as name.
Denotes(name) ==
    UNION {Resolves[n] : n \in {m \in DOMAIN Resolves : Fit(m, MAX_FILENAME_LEN) = name}}

\* "so the profile records the target binary": a program the container ran
\* with success has been reported as a target, although deduplicate_and_send
\* compares what was asked for and not what ran.  The exceptions are each a
\* property of the code: a failed exec with the same file name and arguments
\* came first, or an event mixed from two execs; the file name does not name
\* one program, or, cut to its buffer, reads as another one; the name could not
\* be read, and the exec is taken for another one without name; the call was an
\* execveat, of which nothing is read; a thread other than the leader called,
\* or the entry was evicted or another task's.
TargetInProfile ==
    \A r \in ran :
        \/ r.fate = "reported"
        \/ r.others \/ r.call.at \/ r.call.nameless
        \/ Cardinality(Denotes(ReadFilename(r.call))) > 1
        \/ r.fate = "missed" /\ r.evicted
        \/ /\ r.fate = "duplicate"
           /\ \E q \in piped : /\ q.event.filename = ReadFilename(r.call)
                               /\ q.others \/ q.event.retval # 0 \/ q.event.path = r.exe

\* The flags the comments of process.rs name as bearing secrets, and how many.
SecretsAfter(arg) ==
    IF arg = "--encrypt" THEN 2
    ELSE IF arg \in {"--password", "--pass", "--secret", "--key", "--api-key", "--token", "-p", "-P"}
    THEN 1 ELSE 0

\* Of these, is_key_flag and is_short_password_flag miss the ones they name.
Missed == {"--api-key", "-p", "-P"}

\* Matters of strings alone: the patterns find the other flags; an argument in
\* its buffer, a C string without inner NULs, shows itself, and a redacted one
\* what was written over it, which is no flag.
ASSUME FlagAssumption ==
    /\ \A arg \in {"--encrypt", "--password", "--pass", "--secret", "--key", "--token"} :
          check_sensitive_flag(arg) = SecretsAfter(arg)
    /\ \A c \in ExecCalls : \A i \in DOMAIN Buffers(c) :
          LET over == redact_arg(Buffers(c)[i])
          IN  Shown(over) = "[REDACTED]" /\ SecretsAfter(over) = 0

\* An argument is taken for a flag by the way it begins.
TakenForFlag(arg) ==
    \E p \in {"encrypt", "pass", "secret", "key", "token"} : matches_long_flag(arg, p)

\* No secret leaves the kernel readable (read_argv): the argument after a flag
\* that the comments name, the two after --encrypt, are overwritten whatever
\* they look like.  The exceptions are the flags in Missed, a flag that could
\* not be read, and one that was itself overwritten.  And the arguments that do
\* not follow something that begins like a flag are reported as they are, as
\* far as they could be read.
SecretsRedacted ==
    \A r \in piped : (~r.others /\ ~r.call.at) =>
        LET args == r.event.argv
        IN  /\ \A i, j \in DOMAIN args :
                  /\ i < j /\ j <= i + SecretsAfter(args[i])
                  /\ args[i] \notin Missed
                  => Shown(args[j]) = "[REDACTED]"
            /\ \A j \in DOMAIN args :
                  \/ args[j] = Fit(r.call.argv[j], MAX_ARG_LEN)
                  \/ args[j] = "" /\ j \in r.call.blank
                  \/ \E i \in {j - 2, j - 1} \cap DOMAIN args : TakenForFlag(args[i])
=============================================================================
