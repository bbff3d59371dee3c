--------------------------- MODULE ContainerWatcher ---------------------------
(***************************************************************************)
(* The container, the watcher thread of ebpf-mon/src/container.rs that     *)
(* polls it with `docker inspect`, and the channel on which the thread     *)
(* reports state changes to the task in main.rs.                           *)
(*                                                                         *)
(* A poll is two steps, because the container may stop, restart or be      *)
(* recreated between them: get_container_state, then the resolution of the *)
(* reported container id to a cgroup id.  Poll intervals are abstracted:   *)
(* any number of container events may fall between two polls.              *)
(***************************************************************************)
EXTENDS Integers, Sequences, FiniteSets

CONSTANTS
    MaxStarts,        \* bound on starts: the n-th start has cgroup id n
    MaxContainers,    \* bound on containers created under the name
    MaxInspectFaults  \* bound on failed `docker inspect` calls

ASSUME WatcherAssumption ==
    /\ MaxStarts \in Nat \ {0}
    /\ MaxContainers \in Nat \ {0}
    /\ MaxInspectFaults \in Nat

VARIABLES
    ctr,       \* the container: state, id, cgroup id of its last start
    watcher,   \* the watcher thread
    channel,   \* messages sent and not yet received
    receiver,  \* the receiving end still exists
    faults     \* failed inspections so far

watcherVars == <<ctr, watcher, channel, receiver, faults>>

Starts == 1..MaxStarts
States == {"running", "stopped", "absent"}

Message == [type : {"Stopped"}] \cup [type : {"Started"}, cgroup_id : Starts]
           \cup [type : {"Error"}, removed : BOOLEAN]

Watcher == [pc : {"poll", "update", "check", "done"}, was_running : BOOLEAN,
            seen_id : 1..MaxContainers, current_cgroup_id : Starts]

WatcherTypeOK ==
    /\ ctr \in [state : States, id : 1..MaxContainers, cgid : Starts]
    /\ watcher \in Watcher
    /\ channel \in Seq(Message)
    /\ receiver \in BOOLEAN
    /\ faults \in 0..MaxInspectFaults

WatcherInit ==
    /\ ctr = [state |-> "running", id |-> 1, cgid |-> 1]
    /\ watcher = [pc |-> "poll", was_running |-> TRUE, seen_id |-> 1,
                  current_cgroup_id |-> 1]
    /\ channel = <<>>
    /\ receiver = TRUE
    /\ faults = 0

-----------------------------------------------------------------------------
(* The container runtime. *)

\* docker stop, or the application exits: the cgroup is removed.
ContainerStops ==
    /\ ctr.state = "running"
    /\ ctr' = [ctr EXCEPT !.state = "stopped"]
    /\ UNCHANGED <<watcher, channel, receiver, faults>>

\* docker start or the restart policy: same id, a new cgroup.
ContainerStarts ==
    /\ ctr.state = "stopped"
    /\ ctr.cgid < MaxStarts
    /\ ctr' = [ctr EXCEPT !.state = "running", !.cgid = @ + 1]
    /\ UNCHANGED <<watcher, channel, receiver, faults>>

\* docker rm.
ContainerRemoved ==
    /\ ctr.state = "stopped"
    /\ ctr' = [ctr EXCEPT !.state = "absent"]
    /\ UNCHANGED <<watcher, channel, receiver, faults>>

\* docker run with the same name: another id and another cgroup.
ContainerRecreated ==
    /\ ctr.state = "absent"
    /\ ctr.cgid < MaxStarts /\ ctr.id < MaxContainers
    /\ ctr' = [state |-> "running", id |-> ctr.id + 1, cgid |-> ctr.cgid + 1]
    /\ UNCHANGED <<watcher, channel, receiver, faults>>

RuntimeStep == ContainerStops \/ ContainerStarts \/ ContainerRemoved \/ ContainerRecreated

-----------------------------------------------------------------------------
(* The watcher thread. *)

\* `let _ = self.tx.send(..)`: once the receiver is gone the message is lost.
Send(msg) == channel' = IF receiver THEN Append(channel, msg) ELSE channel

\* get_container_state succeeded and the container is not running.
PollStopped ==
    /\ watcher.pc = "poll"
    /\ ctr.state = "stopped"
    /\ IF watcher.was_running
       THEN /\ watcher' = [watcher EXCEPT !.was_running = FALSE]
            /\ Send([type |-> "Stopped"])
       ELSE UNCHANGED <<watcher, channel>>
    /\ UNCHANGED <<ctr, receiver, faults>>

\* It is running: resolve its cgroup next, as a start or as a routine check.
PollRunning ==
    /\ watcher.pc = "poll"
    /\ ctr.state = "running"
    /\ watcher' = [watcher EXCEPT !.pc = IF watcher.was_running THEN "check" ELSE "update",
                                  !.was_running = TRUE, !.seen_id = ctr.id]
    /\ UNCHANGED <<ctr, channel, receiver, faults>>

\* Any unsuccessful `docker inspect` reads as NotFound; a container that was
\* running is taken to be removed, and the thread ends.
InspectNotFound ==
    IF watcher.was_running
    THEN /\ watcher' = [watcher EXCEPT !.pc = "done"]
         /\ Send([type |-> "Error", removed |-> TRUE])
    ELSE UNCHANGED <<watcher, channel>>

PollAbsent ==
    /\ watcher.pc = "poll"
    /\ ctr.state = "absent"
    /\ InspectNotFound
    /\ UNCHANGED <<ctr, receiver, faults>>

\* The daemon is unreachable, or docker itself cannot be run.
PollFault ==
    /\ watcher.pc = "poll"
    /\ faults < MaxInspectFaults
    /\ faults' = faults + 1
    /\ \/ InspectNotFound
       \/ UNCHANGED watcher /\ Send([type |-> "Error", removed |-> FALSE])
    /\ UNCHANGED <<ctr, receiver>>

\* container_id_to_cgroup_path and get_cgroup_id_from_path, for the id the poll
\* reported: they fail unless that container is running now.
Resolvable == ctr.state = "running" /\ ctr.id = watcher.seen_id

\* send_cgroup_update: the container was seen stopped before.
ResolveUpdate ==
    /\ watcher.pc = "update"
    /\ IF Resolvable
       THEN /\ watcher' = [watcher EXCEPT !.pc = "poll", !.current_cgroup_id = ctr.cgid]
            /\ Send([type |-> "Started", cgroup_id |-> ctr.cgid])
       ELSE /\ watcher' = [watcher EXCEPT !.pc = "poll"]
            /\ Send([type |-> "Error", removed |-> FALSE])
    /\ UNCHANGED <<ctr, receiver, faults>>

\* Mutants: the new id is remembered and not reported; the id is not compared.
ResolveCheckSilent ==
    /\ watcher.pc = "check"
    /\ watcher' = [watcher EXCEPT !.pc = "poll",
                      !.current_cgroup_id = IF Resolvable THEN ctr.cgid ELSE @]
    /\ UNCHANGED <<ctr, channel, receiver, faults>>

ResolveCheckSkipped ==
    /\ watcher.pc = "check"
    /\ watcher' = [watcher EXCEPT !.pc = "poll"]
    /\ UNCHANGED <<ctr, channel, receiver, faults>>

\* The routine check, which finds restarts that fell between two polls.
ResolveCheck ==
    /\ watcher.pc = "check"
    /\ IF Resolvable /\ ctr.cgid # watcher.current_cgroup_id
       THEN /\ watcher' = [watcher EXCEPT !.pc = "poll", !.current_cgroup_id = ctr.cgid]
            /\ Send([type |-> "Started", cgroup_id |-> ctr.cgid])
       ELSE watcher' = [watcher EXCEPT !.pc = "poll"] /\ UNCHANGED channel
    /\ UNCHANGED <<ctr, receiver, faults>>

WatcherStep ==
    PollStopped \/ PollRunning \/ PollAbsent \/ ResolveUpdate \/ ResolveCheck
=============================================================================
