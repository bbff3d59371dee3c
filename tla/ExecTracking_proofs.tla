-------------------------- MODULE ExecTracking_proofs --------------------------
(***************************************************************************)
(* Theorems about the process monitor, for all processes, programs, file   *)
(* names and argument vectors and all sizes of its maps.                   *)
(***************************************************************************)
EXTENDS ExecTracking, BpfMaps_proofs

Processes == [cgroup : {"container", "host"}, exe : Programs \cup {"/runc"},
              threads : {{}, {0}, {0, 1}}]

\* An event under construction in EXEC_STATE.
Entries == [ps_type : {"execve"}, path : Programs \cup {"/runc"},
            filename : {ReadFilename(c) : c \in ExecCalls},
            argv : {ReadArgv(c) : c \in ExecCalls}, retval : {0}]

Within(m, size) == IsFiniteSet(DOMAIN m) /\ Cardinality(DOMAIN m) <= size

ExecTypes ==
    /\ procs \in [Procs -> Processes]
    /\ call \in [Tasks -> ExecCalls \cup {NONE}]
    /\ DOMAIN EXEC_STATE \subseteq Tasks
    /\ \A t \in DOMAIN EXEC_STATE : EXEC_STATE[t] \in Entries
    /\ Within(EXEC_STATE, ExecStateSize) /\ Within(PROCESS_EVENT_DEDUP, DedupSize)

\* Only live tasks are inside an exec.
AliveInv == \A t \in Tasks : call[t] # NONE => Alive(t)

\* An entry is of the exec its task is in, or stale.
EntryInv ==
    \A t \in DOMAIN EXEC_STATE :
        \/ t \in stale
        \/ /\ call[t] # NONE /\ cgroup_exists(t[1])
           /\ EXEC_STATE[t].filename = ReadFilename(call[t])
           /\ EXEC_STATE[t].argv = ReadArgv(call[t])

\* An exec of the container has its entry, unless that was evicted.
MissInv ==
    \A t \in Tasks : call[t] # NONE /\ cgroup_exists(t[1]) =>
        t \in DOMAIN EXEC_STATE \/ t \in evicted

\* What the dedup map holds of an exec was piped.
KeyInv ==
    \A fn, argv : <<"execve", fn, argv>> \in DOMAIN PROCESS_EVENT_DEDUP =>
        \E q \in piped : q.event.filename = fn

\* An event is of a call; a program ran that the file name of the call names.
RanInv ==
    \A q \in piped : ~q.others =>
        /\ q.call \in ExecCalls
        /\ q.event.retval = 0 => q.exe \in Resolves[q.call.filename]

ExecInv ==
    /\ ExecTypes /\ AliveInv /\ EntryInv /\ MissInv /\ KeyInv /\ RanInv
    /\ ExecEventTrue /\ TargetInProfile

-----------------------------------------------------------------------------
LEMMA TaskFacts ==
    ASSUME NEW t \in Tasks
    PROVE  t[1] \in Procs /\ Leader(t) \in Tasks /\ Leader(t)[1] = t[1]
  BY DEF Tasks, Leader

LEMMA TargetGrows ==
    ASSUME TargetInProfile, piped \subseteq piped', ran' = ran
    PROVE  TargetInProfile'
  BY DEF TargetInProfile

(* The dedup of an event: a suppressed one changes nothing, the others are    *)
(* recorded.                                                                  *)
LEMMA SendFacts ==
    ASSUME ExecInv, NEW ev, NEW records, deduplicate_and_send(ev, records),
           ev.ps_type = "execve" => \E q \in records : q.event.filename = ev.filename
    PROVE  /\ Within(PROCESS_EVENT_DEDUP, DedupSize)'
           /\ piped \subseteq piped' /\ piped' \subseteq piped \cup records
           /\ KeyInv'
  <1>0. /\ IsFiniteSet(DOMAIN PROCESS_EVENT_DEDUP) /\ Cardinality(DOMAIN PROCESS_EVENT_DEDUP) <= DedupSize
        /\ DedupSize \in Nat /\ KeyInv
    BY ExecAssumption DEF ExecInv, ExecTypes, Within
  <1>1. CASE Suppressed(ev)
    BY <1>0, <1>1 DEF deduplicate_and_send, KeyInv, Within
  <1>2. CASE ~Suppressed(ev)
    <2>1. /\ PROCESS_EVENT_DEDUP' \in LruPuts(PROCESS_EVENT_DEDUP, ProcessIdentity(ev), 1, DedupSize)
          /\ piped' = piped \cup records
      BY <1>2 DEF deduplicate_and_send
    <2>2. IsFiniteSet(DOMAIN PROCESS_EVENT_DEDUP') /\ Cardinality(DOMAIN PROCESS_EVENT_DEDUP') <= DedupSize
      BY <1>0, <2>1, LruPutsSize
    <2>3. DOMAIN PROCESS_EVENT_DEDUP' \subseteq DOMAIN PROCESS_EVENT_DEDUP \cup {ProcessIdentity(ev)}
      BY <2>1, LruPutsFacts
    <2>4. SUFFICES ASSUME NEW fn, NEW argv, <<"execve", fn, argv>> \in DOMAIN PROCESS_EVENT_DEDUP'
                   PROVE  \E q \in piped' : q.event.filename = fn
      BY <1>0, <2>1, <2>2 DEF KeyInv, Within
    <2>5. CASE <<"execve", fn, argv>> = ProcessIdentity(ev)
      <3>1. ev.ps_type = "execve" /\ ev.filename = fn
        BY <2>5 DEF ProcessIdentity
      <3>2. QED BY <2>1, <3>1
    <2>6. CASE <<"execve", fn, argv>> \in DOMAIN PROCESS_EVENT_DEDUP
      BY <1>0, <2>1, <2>6 DEF KeyInv
    <2>7. QED BY <2>3, <2>4, <2>5, <2>6
  <1>3. QED BY <1>1, <1>2

-----------------------------------------------------------------------------
LEMMA ForkStep ==
    ASSUME ExecInv, NEW t \in Tasks, NEW child \in Procs, try_fork_tracepoint(t, child)
    PROVE  ExecInv'
  <1> DEFINE ev == [ps_type |-> "fork", filename |-> "", argv |-> <<>>]
             new == [procs[t[1]] EXCEPT !.threads = {0}]
  <1>1. /\ procs[child].threads = {} /\ procs' = [procs EXCEPT ![child] = new]
        /\ deduplicate_and_send(ev, {}) \/ UNCHANGED <<PROCESS_EVENT_DEDUP, piped>>
        /\ UNCHANGED <<call, EXEC_STATE, ran, stale, evicted>>
    BY DEF try_fork_tracepoint
  <1>2. ExecTypes /\ AliveInv /\ EntryInv /\ MissInv /\ RanInv /\ ExecEventTrue
    BY DEF ExecInv
  <1>3. new \in Processes
    BY <1>2, TaskFacts DEF ExecTypes, Processes
  <1>4. procs' \in [Procs -> Processes] /\ \A p \in Procs : p # child => procs'[p] = procs[p]
    BY <1>1, <1>2, <1>3 DEF ExecTypes
  <1>5. \A u \in Tasks : call[u] # NONE => u[1] # child
    BY <1>1, <1>2 DEF AliveInv, Alive
  <1>6. /\ Within(PROCESS_EVENT_DEDUP, DedupSize)' /\ KeyInv' /\ piped' = piped
    <2>1. ev.ps_type # "execve"
      OBVIOUS
    <2> HIDE DEF ev
    <2>2. CASE deduplicate_and_send(ev, {})
      BY <2>1, <2>2, SendFacts
    <2>3. CASE UNCHANGED <<PROCESS_EVENT_DEDUP, piped>>
      BY <2>3 DEF ExecInv, ExecTypes, Within, KeyInv
    <2>4. QED BY <1>1, <2>2, <2>3
  <1>7. ExecTypes'
    BY <1>1, <1>2, <1>4, <1>6 DEF ExecTypes, Within
  <1>8. AliveInv' /\ EntryInv' /\ MissInv'
    <2>1. \A u \in Tasks : call[u] # NONE => procs'[u[1]] = procs[u[1]]
      BY <1>4, <1>5, TaskFacts
    <2>2. DOMAIN EXEC_STATE \subseteq Tasks
      BY <1>2 DEF ExecTypes
    <2>3. AliveInv'
      BY <1>1, <1>2, <2>1 DEF AliveInv, Alive
    <2>4. EntryInv'
      BY <1>1, <1>2, <2>1, <2>2 DEF EntryInv, cgroup_exists
    <2>5. MissInv'
      BY <1>1, <1>2, <2>1 DEF MissInv, cgroup_exists
    <2>6. QED BY <2>3, <2>4, <2>5
  <1>9. RanInv' /\ ExecEventTrue' /\ TargetInProfile'
    BY <1>1, <1>2, <1>6, TargetGrows DEF ExecInv, RanInv, ExecEventTrue
  <1>10. QED BY <1>6, <1>7, <1>8, <1>9 DEF ExecInv

LEMMA SpawnStep ==
    ASSUME ExecInv, NEW p \in Procs, SpawnThread(p)
    PROVE  ExecInv'
  <1> DEFINE new == [procs[p] EXCEPT !.threads = {0, 1}]
  <1>1. /\ procs[p].threads = {0} /\ procs' = [procs EXCEPT ![p] = new]
        /\ UNCHANGED <<call, EXEC_STATE, PROCESS_EVENT_DEDUP, piped, ran, stale, evicted>>
    BY DEF SpawnThread
  <1>2. ExecTypes /\ AliveInv /\ EntryInv /\ MissInv /\ RanInv /\ ExecEventTrue
    BY DEF ExecInv
  <1>3. new \in Processes /\ new.cgroup = procs[p].cgroup /\ new.threads = {0, 1}
    BY <1>2 DEF ExecTypes, Processes
  <1> HIDE DEF new
  <1>4. /\ procs' \in [Procs -> Processes]
        /\ \A q \in Procs : /\ procs'[q].cgroup = procs[q].cgroup
                            /\ procs[q].threads \subseteq procs'[q].threads
    BY <1>1, <1>2, <1>3 DEF ExecTypes
  <1>5. ExecTypes' /\ KeyInv'
    BY <1>1, <1>2, <1>4 DEF ExecInv, ExecTypes, Within, KeyInv
  <1>6. AliveInv' /\ EntryInv' /\ MissInv'
    <2>1. \A u \in Tasks : /\ procs'[u[1]].cgroup = procs[u[1]].cgroup
                           /\ procs[u[1]].threads \subseteq procs'[u[1]].threads
      BY <1>4, TaskFacts
    <2>2. DOMAIN EXEC_STATE \subseteq Tasks
      BY <1>2 DEF ExecTypes
    <2>3. AliveInv'
      BY <1>1, <1>2, <2>1 DEF AliveInv, Alive
    <2>4. EntryInv' /\ MissInv'
      BY <1>1, <1>2, <2>1, <2>2 DEF EntryInv, MissInv, cgroup_exists
    <2>5. QED BY <2>3, <2>4
  <1>7. RanInv' /\ ExecEventTrue' /\ TargetInProfile'
    BY <1>1, <1>2, TargetGrows DEF ExecInv, RanInv, ExecEventTrue
  <1>8. QED BY <1>5, <1>6, <1>7 DEF ExecInv

LEMMA EnterStep ==
    ASSUME ExecInv, NEW t \in Tasks, NEW c \in ExecCalls, handle_exec_common(t, c)
    PROVE  ExecInv'
  <1> DEFINE ev == [ps_type |-> "execve", path |-> procs[t[1]].exe, filename |-> ReadFilename(c),
                    argv |-> ReadArgv(c), retval |-> 0]
  <1>1. /\ Alive(t) /\ call[t] = NONE /\ call' = [call EXCEPT ![t] = c]
        /\ UNCHANGED <<procs, PROCESS_EVENT_DEDUP, piped, ran>>
        /\ \/ /\ cgroup_exists(t[1])
              /\ EXEC_STATE' \in LruPuts(EXEC_STATE, t, ev, ExecStateSize)
              /\ stale' = stale \ {t}
              /\ evicted' = (evicted \cup (DOMAIN EXEC_STATE \ DOMAIN EXEC_STATE')) \ {t}
           \/ ~cgroup_exists(t[1]) /\ UNCHANGED <<EXEC_STATE, stale, evicted>>
    BY DEF handle_exec_common, InsertState
  <1>2. /\ ExecTypes /\ AliveInv /\ EntryInv /\ MissInv /\ RanInv /\ ExecEventTrue
        /\ ExecStateSize \in Nat /\ NONE \notin ExecCalls
    BY ExecAssumption DEF ExecInv
  <1>3. ev \in Entries /\ ev.filename = ReadFilename(c) /\ ev.argv = ReadArgv(c)
    <2>1. procs[t[1]].exe \in Programs \cup {"/runc"}
      BY <1>2, TaskFacts DEF ExecTypes, Processes
    <2>2. /\ ReadFilename(c) \in {ReadFilename(d) : d \in ExecCalls}
          /\ ReadArgv(c) \in {ReadArgv(d) : d \in ExecCalls}
      OBVIOUS
    <2>3. QED BY <2>1, <2>2 DEF Entries
  <1> HIDE DEF ev
  <1>4. /\ call' \in [Tasks -> ExecCalls \cup {NONE}] /\ call'[t] = c /\ c # NONE
        /\ \A u \in Tasks : u # t => call'[u] = call[u]
    BY <1>1, <1>2 DEF ExecTypes
  <1>5. AliveInv'
    BY <1>1, <1>2, <1>4 DEF AliveInv, Alive
  <1>6. KeyInv' /\ RanInv' /\ ExecEventTrue' /\ TargetInProfile'
    BY <1>1, <1>2, TargetGrows DEF ExecInv, KeyInv, RanInv, ExecEventTrue
  <1>7. CASE ~cgroup_exists(t[1]) /\ UNCHANGED <<EXEC_STATE, stale, evicted>>
    <2>1. ExecTypes'
      BY <1>1, <1>2, <1>4, <1>7 DEF ExecTypes, Within
    <2>2. EntryInv' /\ MissInv'
      BY <1>1, <1>2, <1>4, <1>7 DEF ExecTypes, EntryInv, MissInv, cgroup_exists
    <2>3. QED BY <1>5, <1>6, <2>1, <2>2 DEF ExecInv
  <1>8. CASE /\ cgroup_exists(t[1])
             /\ EXEC_STATE' \in LruPuts(EXEC_STATE, t, ev, ExecStateSize)
             /\ stale' = stale \ {t}
             /\ evicted' = (evicted \cup (DOMAIN EXEC_STATE \ DOMAIN EXEC_STATE')) \ {t}
    <2>1. /\ t \in DOMAIN EXEC_STATE' /\ EXEC_STATE'[t] = ev
          /\ DOMAIN EXEC_STATE' \subseteq DOMAIN EXEC_STATE \cup {t}
          /\ \A x \in DOMAIN EXEC_STATE' : x # t => x \in DOMAIN EXEC_STATE /\ EXEC_STATE'[x] = EXEC_STATE[x]
      BY <1>8, LruPutsFacts
    <2>2. IsFiniteSet(DOMAIN EXEC_STATE') /\ Cardinality(DOMAIN EXEC_STATE') <= ExecStateSize
      BY <1>2, <1>8, LruPutsSize DEF ExecTypes, Within
    <2>3. ExecTypes'
      BY <1>1, <1>2, <1>3, <1>4, <2>1, <2>2 DEF ExecTypes, Within
    <2>4. EntryInv'
      <3>1. SUFFICES ASSUME NEW u \in DOMAIN EXEC_STATE', u \notin stale'
                     PROVE  /\ call'[u] # NONE /\ cgroup_exists(u[1])'
                            /\ EXEC_STATE'[u].filename = ReadFilename(call'[u])
                            /\ EXEC_STATE'[u].argv = ReadArgv(call'[u])
        BY DEF EntryInv, ReadFilename, ReadArgv, read_argv, Buffers
      <3>2. CASE u = t
        BY <1>1, <1>3, <1>4, <1>8, <2>1, <3>2 DEF cgroup_exists
      <3>3. CASE u # t
        <4>1. u \in DOMAIN EXEC_STATE /\ EXEC_STATE'[u] = EXEC_STATE[u] /\ u \in Tasks /\ u \notin stale
          BY <1>2, <1>8, <2>1, <3>1, <3>3 DEF ExecTypes
        <4>2. QED BY <1>1, <1>2, <1>4, <3>3, <4>1 DEF EntryInv, cgroup_exists
      <3>4. QED BY <3>2, <3>3
    <2>5. MissInv'
      BY <1>1, <1>2, <1>4, <1>8, <2>1 DEF MissInv, cgroup_exists
    <2>6. QED BY <1>5, <1>6, <2>3, <2>4, <2>5 DEF ExecInv
  <1>9. QED BY <1>1, <1>7, <1>8

(* The process is gone, or goes on in one thread: none of its tasks is inside *)
(* an exec, and the entries they had are stale or dropped.                    *)
LEMMA EndOfExecs ==
    ASSUME ExecInv, NEW p \in Procs,
           call' = [u \in Tasks |-> IF u[1] = p THEN NONE ELSE call[u]],
           procs' \in [Procs -> Processes],
           \A q \in Procs : q # p => procs'[q] = procs[q],
           procs'[p].cgroup = procs[p].cgroup,
           DOMAIN EXEC_STATE' \subseteq DOMAIN EXEC_STATE,
           \A u \in DOMAIN EXEC_STATE' : EXEC_STATE'[u] = EXEC_STATE[u],
           \A u \in DOMAIN EXEC_STATE : u[1] # p => u \in DOMAIN EXEC_STATE',
           evicted' = evicted,
           \A u \in DOMAIN EXEC_STATE' : u \in stale \cup InExec(p) => u \in stale'
    PROVE  /\ call' \in [Tasks -> ExecCalls \cup {NONE}]
           /\ AliveInv' /\ EntryInv' /\ MissInv'
  <1>1. ExecTypes /\ AliveInv /\ EntryInv /\ MissInv /\ DOMAIN EXEC_STATE \subseteq Tasks
    BY DEF ExecInv, ExecTypes
  <1>2. /\ call' \in [Tasks -> ExecCalls \cup {NONE}]
        /\ \A u \in Tasks : u[1] = p => call'[u] = NONE
        /\ \A u \in Tasks : u[1] # p => call'[u] = call[u] /\ procs'[u[1]] = procs[u[1]]
    BY <1>1, TaskFacts DEF ExecTypes
  <1>3. AliveInv'
    BY <1>1, <1>2 DEF AliveInv, Alive
  <1>4. EntryInv'
    <2>1. SUFFICES ASSUME NEW u \in DOMAIN EXEC_STATE', u \notin stale'
                   PROVE  /\ call'[u] # NONE /\ cgroup_exists(u[1])'
                          /\ EXEC_STATE'[u].filename = ReadFilename(call'[u])
                          /\ EXEC_STATE'[u].argv = ReadArgv(call'[u])
      BY DEF EntryInv, ReadFilename, ReadArgv, read_argv, Buffers
    <2>2. u \in DOMAIN EXEC_STATE /\ u \in Tasks /\ u \notin stale /\ u \notin InExec(p)
      BY <1>1, <2>1
    <2>3. call[u] # NONE /\ u[1] # p
      BY <1>1, <2>2 DEF EntryInv, InExec
    <2>4. QED BY <1>1, <1>2, <2>2, <2>3 DEF EntryInv, cgroup_exists
  <1>5. MissInv'
    BY <1>1, <1>2 DEF MissInv, cgroup_exists
  <1>6. QED BY <1>2, <1>3, <1>4, <1>5

LEMMA ExitStep ==
    ASSUME ExecInv, NEW p \in Procs, Exit(p)
    PROVE  ExecInv'
  <1> DEFINE new == [procs[p] EXCEPT !.threads = {}]
  <1>1. /\ procs' = [procs EXCEPT ![p] = new]
        /\ call' = [u \in Tasks |-> IF u[1] = p THEN NONE ELSE call[u]]
        /\ stale' = stale \cup InExec(p)
        /\ UNCHANGED <<EXEC_STATE, PROCESS_EVENT_DEDUP, piped, ran, evicted>>
    BY DEF Exit
  <1>2. ExecTypes
    BY DEF ExecInv
  <1>3. new \in Processes /\ new.cgroup = procs[p].cgroup
    BY <1>2 DEF ExecTypes, Processes
  <1> HIDE DEF new
  <1>4. /\ procs' \in [Procs -> Processes] /\ procs'[p].cgroup = procs[p].cgroup
        /\ \A q \in Procs : q # p => procs'[q] = procs[q]
    BY <1>1, <1>2, <1>3 DEF ExecTypes
  <1>5. call' \in [Tasks -> ExecCalls \cup {NONE}] /\ AliveInv' /\ EntryInv' /\ MissInv'
    BY <1>1, <1>4, EndOfExecs
  <1>6. ExecTypes'
    BY <1>1, <1>2, <1>4, <1>5 DEF ExecTypes, Within
  <1>7. KeyInv' /\ RanInv' /\ ExecEventTrue' /\ TargetInProfile'
    BY <1>1, TargetGrows DEF ExecInv, KeyInv, RanInv, ExecEventTrue
  <1>8. QED BY <1>5, <1>6, <1>7 DEF ExecInv

-----------------------------------------------------------------------------
\* r is of the entry of t, at the exit of exec c.
Reports(r, t, exe, retval, c, others) ==
    /\ t \in DOMAIN EXEC_STATE
    /\ r.call = c /\ r.exe = exe /\ r.cgroup = procs[t[1]].cgroup /\ r.others = others
    /\ r.event.filename = EXEC_STATE[t].filename /\ r.event.argv = EXEC_STATE[t].argv
    /\ r.event.retval = retval /\ (retval = 0 => r.event.path = exe)

(* The exit program: it reports the entry of the task, and drops it. *)
LEMMA ExitProgramFacts ==
    ASSUME ExecInv, NEW t \in Tasks, NEW exe, NEW retval \in {0, -1}, NEW c, NEW others,
           handle_exit_exec_common(t, exe, retval, c, others)
    PROVE  /\ DOMAIN EXEC_STATE' = DOMAIN EXEC_STATE \ {t}
           /\ \A u \in DOMAIN EXEC_STATE' : EXEC_STATE'[u] = EXEC_STATE[u]
           /\ Within(EXEC_STATE, ExecStateSize)' /\ Within(PROCESS_EVENT_DEDUP, DedupSize)'
           /\ KeyInv' /\ piped \subseteq piped'
           /\ \A r \in piped' : r \in piped \/ Reports(r, t, exe, retval, c, others)
  <1>0. ExecTypes /\ ExecStateSize \in Nat
    BY ExecAssumption DEF ExecInv
  <1>1. CASE t \notin DOMAIN EXEC_STATE
    <2>1. UNCHANGED <<EXEC_STATE, PROCESS_EVENT_DEDUP, piped>>
      BY <1>1 DEF handle_exit_exec_common
    <2>2. QED BY <1>0, <1>1, <2>1 DEF ExecInv, ExecTypes, Within, KeyInv
  <1>2. CASE t \in DOMAIN EXEC_STATE
    <2> DEFINE ev == ExitEvent(t, exe, retval)
               r0 == [event |-> ev, call |-> c, exe |-> exe, cgroup |-> procs[t[1]].cgroup,
                      others |-> others]
    <2>1. deduplicate_and_send(ev, {r0}) /\ EXEC_STATE' = Drop(EXEC_STATE, t)
      BY <1>2 DEF handle_exit_exec_common
    <2>2. EXEC_STATE[t] \in Entries
      BY <1>0, <1>2 DEF ExecTypes
    <2>3. /\ ev.ps_type = "execve" /\ ev.filename = EXEC_STATE[t].filename
          /\ ev.argv = EXEC_STATE[t].argv /\ ev.retval = retval /\ (retval = 0 => ev.path = exe)
      BY <2>2 DEF ExitEvent, Entries
    <2> HIDE DEF ev
    <2>4. r0.event = ev /\ r0.call = c /\ r0.exe = exe /\ r0.cgroup = procs[t[1]].cgroup /\ r0.others = others
      BY Zenon
    <2> HIDE DEF r0
    <2>5. /\ Within(PROCESS_EVENT_DEDUP, DedupSize)' /\ KeyInv'
          /\ piped \subseteq piped' /\ piped' \subseteq piped \cup {r0}
      <3>1. \E q \in {r0} : q.event.filename = ev.filename
        BY <2>4
      <3>2. QED BY <2>1, <3>1, SendFacts
    <2>6. /\ DOMAIN EXEC_STATE' = DOMAIN EXEC_STATE \ {t}
          /\ \A u \in DOMAIN EXEC_STATE' : EXEC_STATE'[u] = EXEC_STATE[u]
      BY <2>1 DEF Drop
    <2>7. Within(EXEC_STATE, ExecStateSize)'
      BY <1>0, <2>1, DropSize DEF ExecTypes, Within
    <2>8. Reports(r0, t, exe, retval, c, others)
      BY <1>2, <2>3, <2>4, Zenon DEF Reports
    <2>9. QED BY <2>5, <2>6, <2>7, <2>8
  <1>3. QED BY <1>1, <1>2

(* Then an event that is not another exec's is true. *)
LEMMA NewEventTrue ==
    ASSUME ExecInv, NEW t \in Tasks, NEW exe, NEW retval \in {0, -1}, NEW others,
           NEW c, c = call[t], handle_exit_exec_common(t, exe, retval, c, others),
           ~others => /\ t \notin stale /\ c \in ExecCalls
                      /\ retval = 0 => exe \in Resolves[c.filename]
    PROVE  ExecEventTrue' /\ RanInv'
  <1>1. ExecEventTrue /\ RanInv /\ EntryInv
    BY DEF ExecInv
  <1>2. SUFFICES ASSUME NEW r \in piped', ~r.others
                 PROVE  /\ r.cgroup = "container"
                        /\ r.event.filename = ReadFilename(r.call)
                        /\ r.event.argv = ReadArgv(r.call)
                        /\ r.event.retval = 0 => r.event.path = r.exe
                        /\ r.call \in ExecCalls
                        /\ r.event.retval = 0 => r.exe \in Resolves[r.call.filename]
    BY DEF ExecEventTrue, RanInv
  <1>3. CASE r \in piped
    BY <1>1, <1>2, <1>3 DEF ExecEventTrue, RanInv
  <1>4. CASE r \notin piped
    <2>0. Reports(r, t, exe, retval, c, others)
      BY <1>4, ExitProgramFacts
    <2>1. /\ t \in DOMAIN EXEC_STATE
          /\ r.call = c /\ r.exe = exe /\ r.cgroup = procs[t[1]].cgroup
          /\ r.event.filename = EXEC_STATE[t].filename /\ r.event.argv = EXEC_STATE[t].argv
          /\ r.event.retval = retval /\ (retval = 0 => r.event.path = exe)
      BY <2>0 DEF Reports
    <2>2. ~others
      BY <1>2, <2>0, Zenon DEF Reports
    <2>3. /\ procs[t[1]].cgroup = "container" /\ EXEC_STATE[t].filename = ReadFilename(c)
          /\ EXEC_STATE[t].argv = ReadArgv(c)
      BY <1>1, <2>1, <2>2 DEF EntryInv, cgroup_exists
    <2>4. QED BY <2>1, <2>2, <2>3
  <1>5. QED BY <1>3, <1>4

(* An event that is marked as another exec's is held to nothing. *)
LEMMA OthersTrue ==
    ASSUME ExecInv, NEW t \in Tasks, NEW exe, NEW retval \in {0, -1}, NEW others, NEW c,
           handle_exit_exec_common(t, exe, retval, c, others), others
    PROVE  ExecEventTrue' /\ RanInv'
  <1>1. \A r \in piped' : r \in piped \/ r.others
    <2>1. SUFFICES ASSUME NEW r \in piped', r \notin piped PROVE r.others
      OBVIOUS
    <2>2. Reports(r, t, exe, retval, c, others)
      BY <2>1, ExitProgramFacts
    <2>3. QED BY <2>2, Zenon DEF Reports
  <1>2. QED BY <1>1 DEF ExecInv, ExecEventTrue, RanInv

LEMMA FailStep ==
    ASSUME ExecInv, NEW t \in Tasks, ExecFails(t)
    PROVE  ExecInv'
  <1>1. PICK c, exe, o : c = call[t] /\ exe = procs[t[1]].exe /\ o = (t \in stale)
    OBVIOUS
  <1>2. /\ call' = [call EXCEPT ![t] = NONE] /\ stale' = stale \ {t}
        /\ handle_exit_exec_common(t, exe, -1, c, o)
        /\ UNCHANGED <<procs, ran, evicted>>
    BY <1>1 DEF ExecFails
  <1>3. ExecTypes /\ AliveInv /\ EntryInv /\ MissInv /\ DOMAIN EXEC_STATE \subseteq Tasks /\ -1 \in {0, -1}
    BY DEF ExecInv, ExecTypes
  <1>4. /\ DOMAIN EXEC_STATE' = DOMAIN EXEC_STATE \ {t}
        /\ \A u \in DOMAIN EXEC_STATE' : EXEC_STATE'[u] = EXEC_STATE[u]
        /\ Within(EXEC_STATE, ExecStateSize)' /\ Within(PROCESS_EVENT_DEDUP, DedupSize)'
        /\ KeyInv' /\ piped \subseteq piped'
    BY <1>2, <1>3, ExitProgramFacts
  <1>5. ExecEventTrue' /\ RanInv'
    <2>1. ~o => t \notin stale
      BY <1>1
    <2>2. ~o => /\ t \notin stale /\ c \in ExecCalls
                /\ -1 = 0 => exe \in Resolves[c.filename]
      BY <1>1, <1>3, <2>1 DEF ExecFails, ExecTypes
    <2>3. QED BY <1>1, <1>2, <1>3, <2>2, NewEventTrue, Zenon
  <1>6. /\ call' \in [Tasks -> ExecCalls \cup {NONE}] /\ call'[t] = NONE
        /\ \A u \in Tasks : u # t => call'[u] = call[u]
    BY <1>2, <1>3 DEF ExecTypes
  <1>7. ExecTypes'
    BY <1>2, <1>3, <1>4, <1>6 DEF ExecTypes
  <1>8. AliveInv' /\ MissInv'
    BY <1>2, <1>3, <1>4, <1>6 DEF AliveInv, Alive, MissInv, cgroup_exists
  <1>9. EntryInv'
    <2>1. SUFFICES ASSUME NEW u \in DOMAIN EXEC_STATE', u \notin stale'
                   PROVE  /\ call'[u] # NONE /\ cgroup_exists(u[1])'
                          /\ EXEC_STATE'[u].filename = ReadFilename(call'[u])
                          /\ EXEC_STATE'[u].argv = ReadArgv(call'[u])
      BY DEF EntryInv, ReadFilename, ReadArgv, read_argv, Buffers
    <2>2. u # t /\ u \in DOMAIN EXEC_STATE /\ u \in Tasks /\ u \notin stale
      BY <1>2, <1>3, <1>4, <2>1
    <2>3. QED BY <1>2, <1>3, <1>4, <1>6, <2>1, <2>2 DEF EntryInv, cgroup_exists
  <1>10. TargetInProfile'
    BY <1>2, <1>4, TargetGrows DEF ExecInv
  <1>11. QED BY <1>4, <1>5, <1>7, <1>8, <1>9, <1>10 DEF ExecInv

(* Of a set with at most one element, two are one. *)
LEMMA OnlyOne ==
    ASSUME NEW S, IsFiniteSet(S), ~(Cardinality(S) > 1), NEW x \in S, NEW y \in S
    PROVE  x = y
  <1>1. SUFFICES ASSUME x # y PROVE FALSE
    OBVIOUS
  <1>2. {x, y} \subseteq S
    OBVIOUS
  <1>3. Cardinality(S) \in Nat /\ Cardinality({x, y}) <= Cardinality(S)
    BY <1>2, FS_Subset, FS_CardinalityType
  <1>4. Cardinality({x}) = 1 /\ IsFiniteSet({x})
    BY FS_Singleton
  <1>5. {x, y} = {x} \cup {y} /\ y \notin {x}
    BY <1>1
  <1>6. Cardinality({x} \cup {y}) = Cardinality({x}) + 1
    BY <1>4, <1>5, FS_AddElement, Zenon
  <1>7. QED BY <1>3, <1>4, <1>5, <1>6

(* A program of the container that ran is in the profile, or one of the       *)
(* exceptions holds of it.                                                    *)
LEMMA NewRunInProfile ==
    ASSUME ExecInv, NEW t \in Tasks, NEW exe, NEW c \in ExecCalls, c = call[t],
           exe \in Resolves[c.filename], cgroup_exists(t[1]), call[t] # NONE
    PROVE  \/ Fate(t, exe) = "reported"
           \/ t # Leader(t) \/ Leader(t) \in stale
           \/ c.at \/ c.nameless \/ Cardinality(Denotes(ReadFilename(c))) > 1
           \/ Fate(t, exe) = "missed" /\ t \in evicted
           \/ /\ Fate(t, exe) = "duplicate"
              /\ \E q \in piped : /\ q.event.filename = ReadFilename(c)
                                  /\ q.others \/ q.event.retval # 0 \/ q.event.path = exe
  <1>0. ExecTypes /\ EntryInv /\ MissInv /\ KeyInv /\ RanInv /\ ExecEventTrue
    BY DEF ExecInv
  <1>1. SUFFICES ASSUME Leader(t) = t, t \notin stale, ~c.at, ~c.nameless,
                        ~(Cardinality(Denotes(ReadFilename(c))) > 1)
                 PROVE  \/ Fate(t, exe) = "reported"
                        \/ Fate(t, exe) = "missed" /\ t \in evicted
                        \/ /\ Fate(t, exe) = "duplicate"
                           /\ \E q \in piped :
                                 /\ q.event.filename = ReadFilename(c)
                                 /\ q.others \/ q.event.retval # 0 \/ q.event.path = exe
    OBVIOUS
  <1>2. CASE t \notin DOMAIN EXEC_STATE
    BY <1>0, <1>1, <1>2 DEF MissInv, Fate
  <1>3. CASE t \in DOMAIN EXEC_STATE
    <2> DEFINE ev == ExitEvent(t, exe, 0)
    <2>1. EXEC_STATE[t] \in Entries /\ EXEC_STATE[t].filename = ReadFilename(c)
      BY <1>0, <1>1, <1>3 DEF ExecTypes, EntryInv
    <2>2. ev.ps_type = "execve" /\ ev.filename = ReadFilename(c)
      BY <1>1, <2>1 DEF ExitEvent, Entries
    <2>3. Fate(t, exe) = IF Suppressed(ev) THEN "duplicate" ELSE "reported"
      BY <1>1, <1>3 DEF Fate
    <2> HIDE DEF ev
    <2>4. ASSUME Suppressed(ev)
          PROVE  \E q \in piped : /\ q.event.filename = ReadFilename(c)
                                  /\ q.others \/ q.event.retval # 0 \/ q.event.path = exe
      <3>1. PICK q \in piped : q.event.filename = ReadFilename(c)
        BY <1>0, <2>2, <2>4 DEF Suppressed, ProcessIdentity, KeyInv
      <3>2. ASSUME ~q.others, q.event.retval = 0
            PROVE  q.event.path = exe
        <4>1. /\ q.event.path = q.exe /\ q.event.filename = ReadFilename(q.call)
              /\ q.call \in ExecCalls /\ q.exe \in Resolves[q.call.filename]
          BY <1>0, <3>1, <3>2 DEF ExecEventTrue, RanInv
        <4>2. /\ ReadFilename(c) = Fit(c.filename, MAX_FILENAME_LEN) /\ ReadFilename(c) # ""
              /\ c.filename \in DOMAIN Resolves /\ q.call.filename \in DOMAIN Resolves
          BY <1>1, <4>1, CallAssumption, ExecAssumption DEF ReadFilename
        <4>3. Fit(q.call.filename, MAX_FILENAME_LEN) = ReadFilename(c)
          BY <3>1, <4>1, <4>2 DEF ReadFilename
        <4>4. exe \in Denotes(ReadFilename(c)) /\ q.exe \in Denotes(ReadFilename(c))
          BY <4>1, <4>2, <4>3 DEF Denotes
        <4>5. q.exe = exe
          <5>1. Denotes(ReadFilename(c)) \subseteq Programs
            <6>1. \A m \in DOMAIN Resolves : Resolves[m] \subseteq Programs
              BY ExecAssumption
            <6>2. QED BY <6>1 DEF Denotes
          <5>2. IsFiniteSet(Denotes(ReadFilename(c)))
            BY <5>1, ExecAssumption, FS_Subset
          <5>3. QED BY <1>1, <4>4, <5>2, OnlyOne
        <4>6. QED BY <4>1, <4>5
      <3>3. QED BY <3>1, <3>2
    <2>5. QED BY <2>3, <2>4
  <1>4. QED BY <1>2, <1>3

LEMMA SucceedStep ==
    ASSUME ExecInv, NEW t \in Tasks, NEW exe \in Programs, ExecSucceeds(t, exe)
    PROVE  ExecInv'
  <1>1. PICK c, o, p, new : /\ c = call[t] /\ o = (t # Leader(t) \/ Leader(t) \in stale) /\ p = t[1]
                            /\ new = [procs[p] EXCEPT !.exe = exe, !.threads = {0}]
    OBVIOUS
  <1>2. /\ c # NONE /\ exe \in Resolves[c.filename]
        /\ call' = [u \in Tasks |-> IF u[1] = p THEN NONE ELSE call[u]]
        /\ handle_exit_exec_common(Leader(t), exe, 0, c, o)
        /\ stale' = (stale \cup InExec(p)) \ {Leader(t)}
        /\ evicted' = evicted
    BY <1>1 DEF ExecSucceeds
  <1>3. procs' = [procs EXCEPT ![p].exe = exe, ![p].threads = {0}]
    BY <1>1 DEF ExecSucceeds
  <1>4. ran' = IF ~cgroup_exists(p) THEN ran
               ELSE ran \cup {[call |-> c, exe |-> exe, fate |-> Fate(t, exe),
                               others |-> o, evicted |-> t \in evicted]}
    BY <1>1 DEF ExecSucceeds
  <1>5. /\ ExecTypes /\ DOMAIN EXEC_STATE \subseteq Tasks /\ 0 \in {0, -1}
        /\ p \in Procs /\ Leader(t) \in Tasks /\ Leader(t)[1] = p
    BY <1>1, TaskFacts DEF ExecInv, ExecTypes
  <1>6. /\ procs' \in [Procs -> Processes] /\ procs'[p].cgroup = procs[p].cgroup
        /\ \A q \in Procs : q # p => procs'[q] = procs[q]
    <2>1. procs \in [Procs -> Processes]
      BY <1>5 DEF ExecTypes
    <2>2. new \in Processes /\ new.cgroup = procs[p].cgroup
      BY <1>1, <1>5, <2>1 DEF Processes
    <2>3. procs' = [procs EXCEPT ![p] = new]
      BY <1>1, <1>3, <1>5, <2>1
    <2>4. QED BY <1>5, <2>1, <2>2, <2>3
  <1>7. /\ DOMAIN EXEC_STATE' = DOMAIN EXEC_STATE \ {Leader(t)}
        /\ \A u \in DOMAIN EXEC_STATE' : EXEC_STATE'[u] = EXEC_STATE[u]
        /\ Within(EXEC_STATE, ExecStateSize)' /\ Within(PROCESS_EVENT_DEDUP, DedupSize)'
        /\ KeyInv' /\ piped \subseteq piped'
    BY <1>2, <1>5, ExitProgramFacts
  <1>8. c \in ExecCalls
    BY <1>1, <1>2, <1>5 DEF ExecTypes
  <1>9. ExecEventTrue' /\ RanInv'
    <2>1. CASE o
      BY <1>2, <1>5, <2>1, OthersTrue
    <2>2. CASE ~o
      BY <1>1, <1>2, <1>5, <1>8, <2>2, NewEventTrue
    <2>3. QED BY <2>1, <2>2
  <1>10. call' \in [Tasks -> ExecCalls \cup {NONE}] /\ AliveInv' /\ EntryInv' /\ MissInv'
    BY <1>2, <1>5, <1>6, <1>7, EndOfExecs
  <1>11. ExecTypes'
    BY <1>5, <1>6, <1>7, <1>10 DEF ExecTypes
  <1>12. TargetInProfile'
    <2>1. CASE ran' = ran
      BY <1>7, <2>1, TargetGrows DEF ExecInv
    <2>2. CASE cgroup_exists(p)
      <3> DEFINE ev == (t \in evicted)
      <3>1. PICK r0 : /\ r0 = [call |-> c, exe |-> exe, fate |-> Fate(t, exe), others |-> o, evicted |-> ev]
                      /\ ran' = ran \cup {r0}
        BY <1>4, <2>2
      <3>2. r0.call = c /\ r0.exe = exe /\ r0.fate = Fate(t, exe) /\ r0.others = o /\ r0.evicted = ev
        BY <3>1, Zenon
      <3>3. \/ r0.fate = "reported"
            \/ r0.others \/ r0.call.at \/ r0.call.nameless
            \/ Cardinality(Denotes(ReadFilename(r0.call))) > 1
            \/ r0.fate = "missed" /\ r0.evicted
            \/ /\ r0.fate = "duplicate"
               /\ \E q \in piped : /\ q.event.filename = ReadFilename(r0.call)
                                   /\ q.others \/ q.event.retval # 0 \/ q.event.path = r0.exe
        <4>1. \/ Fate(t, exe) = "reported"
              \/ t # Leader(t) \/ Leader(t) \in stale
              \/ c.at \/ c.nameless \/ Cardinality(Denotes(ReadFilename(c))) > 1
              \/ Fate(t, exe) = "missed" /\ t \in evicted
              \/ /\ Fate(t, exe) = "duplicate"
                 /\ \E q \in piped : /\ q.event.filename = ReadFilename(c)
                                     /\ q.others \/ q.event.retval # 0 \/ q.event.path = exe
          BY <1>1, <1>2, <1>8, <2>2, NewRunInProfile
        <4>2. t # Leader(t) \/ Leader(t) \in stale => r0.others
          BY <1>1, <3>2, Zenon
        <4>3. t \in evicted => r0.evicted
          BY <3>2, Zenon
        <4>4. QED BY <3>2, <4>1, <4>2, <4>3, Zenon
      <3>4. SUFFICES ASSUME NEW r \in ran'
                     PROVE  \/ r.fate = "reported"
                            \/ r.others \/ r.call.at \/ r.call.nameless
                            \/ Cardinality(Denotes(ReadFilename(r.call))) > 1
                            \/ r.fate = "missed" /\ r.evicted
                            \/ /\ r.fate = "duplicate"
                               /\ \E q \in piped' :
                                     /\ q.event.filename = ReadFilename(r.call)
                                     /\ q.others \/ q.event.retval # 0 \/ q.event.path = r.exe
        BY DEF TargetInProfile
      <3>5. CASE r \in ran
        BY <1>7, <3>5 DEF ExecInv, TargetInProfile
      <3>6. CASE r = r0
        BY <1>7, <3>3, <3>6
      <3>7. QED BY <3>1, <3>5, <3>6
    <2>3. QED BY <1>4, <2>1, <2>2
  <1>13. QED BY <1>7, <1>9, <1>10, <1>11, <1>12 DEF ExecInv

-----------------------------------------------------------------------------
LEMMA ExecInitially == ExecInit => ExecInv
  <1> SUFFICES ASSUME ExecInit PROVE ExecInv
    OBVIOUS
  <1>1. /\ DOMAIN EXEC_STATE = {} /\ DOMAIN PROCESS_EVENT_DEDUP = {} /\ piped = {} /\ ran = {}
        /\ call = [t \in Tasks |-> NONE]
    BY NoEntryFacts DEF ExecInit
  <1>2. IsFiniteSet({}) /\ Cardinality({}) = 0
    BY FS_EmptySet
  <1>3. procs \in [Procs -> Processes]
    BY DEF ExecInit, Processes
  <1>4. ExecTypes
    <2>1. ExecStateSize \in Nat \ {0} /\ DedupSize \in Nat \ {0}
      BY ExecAssumption
    <2>2. QED BY <1>1, <1>2, <1>3, <2>1 DEF ExecTypes, Within
  <1>5. AliveInv /\ EntryInv /\ MissInv /\ KeyInv /\ RanInv /\ ExecEventTrue /\ TargetInProfile
    BY <1>1 DEF AliveInv, EntryInv, MissInv, KeyInv, RanInv, ExecEventTrue, TargetInProfile
  <1>6. QED BY <1>4, <1>5 DEF ExecInv

LEMMA ExecInduction == ExecInv /\ [ExecNext]_execVars => ExecInv'
  <1> SUFFICES ASSUME ExecInv, [ExecNext]_execVars PROVE ExecInv'
    OBVIOUS
  <1>1. ASSUME NEW t \in Tasks, NEW child \in Procs, try_fork_tracepoint(t, child)
        PROVE  ExecInv'
    BY <1>1, ForkStep
  <1>2. ASSUME NEW t \in Tasks, NEW c \in ExecCalls, handle_exec_common(t, c)
        PROVE  ExecInv'
    BY <1>2, EnterStep
  <1>3. ASSUME NEW t \in Tasks, ExecFails(t)
        PROVE  ExecInv'
    BY <1>3, FailStep
  <1>4. ASSUME NEW t \in Tasks, NEW exe \in Programs, ExecSucceeds(t, exe)
        PROVE  ExecInv'
    BY <1>4, SucceedStep
  <1>5. ASSUME NEW p \in Procs, SpawnThread(p) \/ Exit(p)
        PROVE  ExecInv'
    BY <1>5, SpawnStep, ExitStep
  <1>6. CASE UNCHANGED execVars
    <2>1. UNCHANGED <<procs, call, EXEC_STATE, PROCESS_EVENT_DEDUP, piped, ran, stale, evicted>>
      BY <1>6 DEF execVars
    <2>2. ExecTypes' /\ AliveInv' /\ MissInv' /\ KeyInv' /\ RanInv' /\ ExecEventTrue'
      BY <2>1 DEF ExecInv, ExecTypes, Within, AliveInv, Alive, MissInv, cgroup_exists, KeyInv,
                  RanInv, ExecEventTrue
    <2>3. EntryInv'
      BY <2>1 DEF ExecInv, EntryInv, cgroup_exists
    <2>4. QED BY <2>1, <2>2, <2>3, TargetGrows DEF ExecInv
  <1>7. QED BY <1>1, <1>2, <1>3, <1>4, <1>5, <1>6 DEF ExecNext

LEMMA ExecAlways == ExecSpec => []ExecInv
  BY ExecInitially, ExecInduction, PTL DEF ExecSpec

(* The maps of the process monitor stay within max_entries, and only live     *)
(* tasks are inside an exec.                                                  *)
THEOREM ExecTypeCorrect == ExecSpec => []ExecTypeOK
  <1>1. ExecInv => ExecTypeOK
    BY DEF ExecInv, ExecTypes, AliveInv, Processes, Within, ExecTypeOK
  <1>2. QED BY <1>1, ExecAlways, PTL

(* What EXEC_STATE carries from the entry of an exec to its exit is of that   *)
(* exec, whatever other tasks, id reuse and evictions come between.           *)
THEOREM ExecEventsTrue == ExecSpec => []ExecEventTrue
  <1>1. ExecInv => ExecEventTrue
    BY DEF ExecInv
  <1>2. QED BY <1>1, ExecAlways, PTL

(* Although the dedup compares what was asked for and not what ran, a program *)
(* that the container ran is in the profile, but for the named exceptions.    *)
THEOREM TargetsProfiled == ExecSpec => []TargetInProfile
  <1>1. ExecInv => TargetInProfile
    BY DEF ExecInv
  <1>2. QED BY <1>1, ExecAlways, PTL

-----------------------------------------------------------------------------
(* Redaction.  The count of read_argv is a recursive function of the          *)
(* position, which has a solution for every length.                          *)

LEMMA LeastElement ==
    ASSUME NEW S \in SUBSET Nat, S # {} PROVE \E s \in S : \A t \in S : s <= t
  <1> DEFINE R == {xy \in Nat \X Nat : xy[1] < xy[2]}
  <1>1. IsWellFoundedOn(R, Nat)
    BY NatLessThanWellFounded DEF OpToRel
  <1>2. PICK s \in S : \A t \in S : ~(<<t, s>> \in R)
    <2> HIDE DEF R
    <2>1. QED BY <1>1, WFMin
  <1>3. ASSUME NEW t \in S PROVE s <= t
    <2>1. s \in Nat /\ t \in Nat /\ ~(<<t, s>> \in R)
      BY <1>2
    <2>2. QED BY <2>1
  <1>4. QED BY <1>3

LEMMA FlagCount == ASSUME NEW arg PROVE check_sensitive_flag(arg) \in 0..2
  BY DEF check_sensitive_flag

\* One step of the recursion, at position i.
LeftAt(g, a, i) ==
    IF i = 1 THEN 0 ELSE IF g[i - 1] > 0 THEN g[i - 1] - 1 ELSE check_sensitive_flag(a[i - 1])

LEMMA LeftExists ==
    ASSUME NEW a, NEW n \in Nat PROVE \E g : g = [i \in 1..n |-> LeftAt(g, a, i)]
  <1> DEFINE C == {m \in Nat : ~\E g : g = [i \in 1..m |-> LeftAt(g, a, i)]}
  <1>1. SUFFICES ASSUME C # {} PROVE FALSE
    OBVIOUS
  <1>2. PICK m \in C : \A l \in C : m <= l
    <2>1. C \in SUBSET Nat
      OBVIOUS
    <2> HIDE DEF C
    <2>2. QED BY <1>1, <2>1, LeastElement
  <1>3. m # 0
    <2> DEFINE g == [i \in 1..0 |-> 0]
    <2>1. g = [i \in 1..0 |-> LeftAt(g, a, i)]
      <3>1. 1..0 = {}
        OBVIOUS
      <3>2. QED BY <3>1
    <2> HIDE DEF g
    <2>2. QED BY <2>1
  <1>4. m - 1 \in Nat /\ m - 1 \notin C
    BY <1>2, <1>3
  <1>5. PICK g : g = [i \in 1..(m - 1) |-> LeftAt(g, a, i)]
    BY <1>4
  <1> DEFINE h == [i \in 1..m |-> IF i < m THEN g[i] ELSE LeftAt(g, a, m)]
  <1>6. ASSUME NEW i \in 1..m PROVE h[i] = LeftAt(h, a, i)
    <2>1. i > 1 => h[i - 1] = g[i - 1]
      OBVIOUS
    <2>2. LeftAt(h, a, i) = LeftAt(g, a, i)
      BY <2>1 DEF LeftAt
    <2>3. h[i] = LeftAt(g, a, i)
      <3>1. i < m => g[i] = LeftAt(g, a, i)
        BY <1>5
      <3>2. i = m \/ i < m
        OBVIOUS
      <3>3. QED BY <3>1, <3>2
    <2>4. QED BY <2>2, <2>3
  <1>7. h = [i \in 1..m |-> h[i]]
    OBVIOUS
  <1> HIDE DEF h
  <1>8. h = [i \in 1..m |-> LeftAt(h, a, i)]
    BY <1>6, <1>7
  <1>9. QED BY <1>8

\* The definition satisfies its own equation.
LEMMA CountEquation ==
    ASSUME NEW a, Len(a) \in Nat
    PROVE  redact_count(a) = [i \in 1..Len(a) |-> LeftAt(redact_count(a), a, i)]
  <1>1. redact_count(a) = CHOOSE g : g = [i \in 1..Len(a) |-> LeftAt(g, a, i)]
    BY DEF redact_count, LeftAt
  <1>2. QED BY <1>1, LeftExists

\* Where the count is positive, something taken for a flag is one or two before.
LEMMA CountFacts ==
    ASSUME NEW a, Len(a) \in Nat
    PROVE  LET left == redact_count(a)
           IN  \A i \in 1..Len(a) :
                  /\ left[i] \in 0..2
                  /\ i + 1 \in 1..Len(a) =>
                        left[i + 1] = IF left[i] > 0 THEN left[i] - 1 ELSE check_sensitive_flag(a[i])
                  /\ left[i] > 0 => \E j \in {i - 2, i - 1} :
                                        j \in 1..Len(a) /\ left[j] = 0 /\ check_sensitive_flag(a[j]) > 0
  <1> DEFINE n == Len(a)
             left == redact_count(a)
             C == {i \in Nat : i \in 1..n /\ ~(left[i] \in 0..2)}
  <1>1. \A i \in 1..n : left[i] = LeftAt(left, a, i)
    BY CountEquation
  <1>2. n \in Nat /\ \A k : check_sensitive_flag(a[k]) \in 0..2
    BY FlagCount
  <1> HIDE DEF left, n
  <1>3. \A i \in 1..n : left[i] \in 0..2
    <2>1. SUFFICES ASSUME C # {} PROVE FALSE
      OBVIOUS
    <2>2. PICK i \in C : \A l \in C : i <= l
      <3>1. C \in SUBSET Nat
        OBVIOUS
      <3> HIDE DEF C
      <3>2. QED BY <2>1, <3>1, LeastElement
    <2>3. i \in 1..n /\ left[i] = LeftAt(left, a, i) /\ ~(left[i] \in 0..2)
      BY <1>1, <2>2
    <2>4. i > 1 => left[i - 1] \in 0..2
      BY <1>2, <2>2, <2>3
    <2>5. QED BY <1>2, <2>3, <2>4 DEF LeftAt
  <1>4. ASSUME NEW i \in 1..n, i + 1 \in 1..n
        PROVE  left[i + 1] = IF left[i] > 0 THEN left[i] - 1 ELSE check_sensitive_flag(a[i])
    BY <1>1, <1>4 DEF LeftAt
  <1>5. ASSUME NEW i \in 1..n, left[i] > 0
        PROVE  \E j \in {i - 2, i - 1} : j \in 1..n /\ left[j] = 0 /\ check_sensitive_flag(a[j]) > 0
    <2>1. i > 1 /\ left[i] = IF left[i - 1] > 0 THEN left[i - 1] - 1 ELSE check_sensitive_flag(a[i - 1])
      BY <1>1, <1>5 DEF LeftAt
    <2>2. i - 1 \in 1..n /\ left[i - 1] \in 0..2
      BY <1>2, <1>3, <2>1
    <2>3. CASE left[i - 1] = 0
      BY <1>5, <2>1, <2>2, <2>3
    <2>4. CASE left[i - 1] # 0
      <3>1. left[i - 1] = 2
        BY <1>5, <2>1, <2>2, <2>4
      <3>2. /\ i - 1 > 1
            /\ left[i - 1] = IF left[i - 2] > 0 THEN left[i - 2] - 1 ELSE check_sensitive_flag(a[i - 2])
        <4>1. left[i - 1] = LeftAt(left, a, i - 1) /\ (i - 1) - 1 = i - 2
          BY <1>1, <1>2, <2>2
        <4>2. i - 1 # 1
          BY <3>1, <4>1 DEF LeftAt
        <4>3. left[i - 1] = IF left[i - 2] > 0 THEN left[i - 2] - 1 ELSE check_sensitive_flag(a[i - 2])
          BY <4>1, <4>2 DEF LeftAt
        <4>4. i - 1 > 1
          BY <2>2, <4>2, <1>2
        <4>5. QED BY <4>3, <4>4
      <3>3. i - 2 \in 1..n /\ left[i - 2] \in 0..2
        BY <1>2, <1>3, <3>2
      <3>4. left[i - 2] = 0 /\ check_sensitive_flag(a[i - 2]) = 2
        BY <3>1, <3>2, <3>3
      <3>5. QED BY <3>3, <3>4
    <2>5. QED BY <2>3, <2>4
  <1>6. QED BY <1>3, <1>4, <1>5 DEF left, n

\* The buffers of a call are a sequence.
LEMMA BufferFacts ==
    ASSUME NEW c \in ExecCalls
    PROVE  Len(Buffers(c)) \in Nat /\ DOMAIN Buffers(c) = 1..Len(Buffers(c))
  <1> DEFINE D == {k \in 1..MAX_ARGS : k <= Len(c.argv) /\ k <= c.last}
  <1>1. Len(c.argv) \in Nat /\ c.last \in Nat /\ MAX_ARGS \in Nat
    <2>1. c.argv \in Seq(STRING) /\ c.last \in Nat
      BY CallAssumption
    <2> DEFINE v == c.argv
    <2>2. v \in Seq(STRING)
      BY <2>1
    <2> HIDE DEF v
    <2>3. Len(v) \in Nat
      BY <2>2
    <2>4. QED BY <2>1, <2>3, ExecAssumption DEF v
  <1>2. \E m \in Nat : D = 1..m
    <2> DEFINE x == IF Len(c.argv) <= c.last THEN Len(c.argv) ELSE c.last
               m == IF x <= MAX_ARGS THEN x ELSE MAX_ARGS
    <2>1. m \in Nat /\ D = 1..m
      BY <1>1
    <2> HIDE DEF m, D
    <2>2. QED BY <2>1
  <1>3. DOMAIN Buffers(c) = D
    BY DEF Buffers
  <1> HIDE DEF D
  <1>4. PICK m \in Nat : DOMAIN Buffers(c) = 1..m
    BY <1>2, <1>3
  <1>5. Len(Buffers(c)) = m
    <2>1. Buffers(c) = [i \in 1..m |-> Buffers(c)[i]]
      BY <1>4 DEF Buffers
    <2>2. QED BY <1>4, <2>1
  <1>6. QED BY <1>4, <1>5

(* What read_argv (process.rs) hands over: the arguments after a flag that   *)
(* bears secrets are overwritten, two after --encrypt and one after the      *)
(* others, and an argument that does not follow something like a flag is not *)
(* touched, whatever the command line and whatever of it can be read.        *)
THEOREM SecretsStayRedacted == ExecSpec => []SecretsRedacted
  <1>1. ExecInv => SecretsRedacted
    <2> SUFFICES ASSUME ExecInv, NEW r \in piped, ~r.others, ~r.call.at
                 PROVE  /\ \A i, j \in DOMAIN r.event.argv :
                              /\ i < j /\ j <= i + SecretsAfter(r.event.argv[i])
                              /\ r.event.argv[i] \notin Missed
                              => Shown(r.event.argv[j]) = "[REDACTED]"
                        /\ \A j \in DOMAIN r.event.argv :
                              \/ r.event.argv[j] = Fit(r.call.argv[j], MAX_ARG_LEN)
                              \/ r.event.argv[j] = "" /\ j \in r.call.blank
                              \/ \E i \in {j - 2, j - 1} \cap DOMAIN r.event.argv :
                                    TakenForFlag(r.event.argv[i])
      BY DEF SecretsRedacted
    <2> DEFINE c == r.call
               a == Buffers(c)
               n == Len(a)
               args == r.event.argv
               left == redact_count(a)
    <2>1. c \in ExecCalls /\ args = ReadArgv(c)
      BY DEF ExecInv, RanInv, ExecEventTrue
    <2>2. n \in Nat /\ DOMAIN a = 1..n
      BY <2>1, BufferFacts
    <2>3. /\ DOMAIN args = 1..n
          /\ \A i \in 1..n : args[i] = IF left[i] > 0 THEN redact_arg(a[i]) ELSE a[i]
      BY <2>1, <2>2 DEF ReadArgv, read_argv
    <2>4. \A i \in 1..n : a[i] = IF i \in c.blank THEN "" ELSE Fit(c.argv[i], MAX_ARG_LEN)
      BY <2>2 DEF Buffers
    <2>5. \A i \in 1..n : Shown(redact_arg(a[i])) = "[REDACTED]" /\ SecretsAfter(redact_arg(a[i])) = 0
      BY <2>1, <2>2, FlagAssumption
    <2>6. \A i \in 1..n :
             /\ left[i] \in 0..2
             /\ i + 1 \in 1..n =>
                   left[i + 1] = IF left[i] > 0 THEN left[i] - 1 ELSE check_sensitive_flag(a[i])
             /\ left[i] > 0 => \E j \in {i - 2, i - 1} :
                                   j \in 1..n /\ left[j] = 0 /\ check_sensitive_flag(a[j]) > 0
      BY <2>2, CountFacts
    <2> HIDE DEF a, n, args, left, c
    <2>7. ASSUME NEW i \in 1..n, NEW j \in 1..n, i < j, j <= i + SecretsAfter(args[i]),
                 args[i] \notin Missed
          PROVE  Shown(args[j]) = "[REDACTED]"
      <3>1. SecretsAfter(args[i]) \in 0..2
        BY DEF SecretsAfter
      <3>2. SecretsAfter(args[i]) # 0
        BY <2>2, <2>7, <3>1
      <3>3. left[i] = 0 /\ args[i] = a[i]
        BY <2>3, <2>5, <2>6, <3>2
      <3>4. a[i] \in {"--encrypt", "--password", "--pass", "--secret", "--key", "--token"}
        BY <2>7, <3>2, <3>3 DEF SecretsAfter, Missed
      <3>5. check_sensitive_flag(a[i]) = SecretsAfter(a[i])
        BY <3>4, FlagAssumption
      <3>6. i + 1 \in 1..n /\ left[i + 1] = SecretsAfter(a[i])
        BY <2>2, <2>6, <2>7, <3>3, <3>5
      <3>7. left[j] > 0
        <4>1. j = i + 1 \/ (j = i + 2 /\ SecretsAfter(a[i]) = 2)
          BY <2>2, <2>7, <3>1, <3>3
        <4>2. CASE j = i + 1
          BY <3>1, <3>2, <3>3, <3>6, <4>2
        <4>3. CASE j = i + 2 /\ SecretsAfter(a[i]) = 2
          <5>1. (i + 1) + 1 = j /\ left[j] = left[i + 1] - 1
            BY <2>6, <3>6, <4>3
          <5>2. QED BY <3>6, <4>3, <5>1
        <4>4. QED BY <4>1, <4>2, <4>3
      <3>8. QED BY <2>3, <2>5, <3>7
    <2>8. ASSUME NEW j \in 1..n, args[j] # Fit(c.argv[j], MAX_ARG_LEN), ~(args[j] = "" /\ j \in c.blank)
          PROVE  \E i \in {j - 2, j - 1} \cap (1..n) : TakenForFlag(args[i])
      <3>1. left[j] > 0
        BY <2>3, <2>4, <2>8
      <3>2. PICK i \in {j - 2, j - 1} : i \in 1..n /\ left[i] = 0 /\ check_sensitive_flag(a[i]) > 0
        BY <2>6, <3>1
      <3>3. args[i] = a[i]
        BY <2>3, <3>2
      <3>4. TakenForFlag(args[i])
        BY <3>2, <3>3 DEF check_sensitive_flag, TakenForFlag
      <3>5. QED BY <3>2, <3>4
    <2>9. QED BY <2>3, <2>7, <2>8 DEF args, c
  <1>2. QED BY <1>1, ExecAlways, PTL
=============================================================================
