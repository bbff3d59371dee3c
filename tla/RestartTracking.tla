---------------------------- MODULE RestartTracking ----------------------------
(***************************************************************************)
(* --enforce with restart tracking, end to end: the container, the watcher *)
(* thread, its channel, the task of main.rs that receives from it, the     *)
(* monitor's cgroup filter CGROUPS and the policy loader.                  *)
(***************************************************************************)
EXTENDS PolicyLoader, ContainerWatcher

CONSTANT FilterSize    \* max_entries of CGROUPS (32 in the code)

ASSUME TrackingAssumption == CgroupIds = Starts /\ FilterSize \in Nat \ {0}

VARIABLES
    CGROUPS,       \* the monitor's cgroup filter
    consumer,      \* the watcher task of main.rs, and the new id it works on
    skb_attached   \* cgroup the cgroup_skb programs are attached to

trackingVars == <<CGROUPS, consumer, skb_attached>>
allVars == <<vars, watcherVars, trackingVars>>

TrackingTypeOK ==
    /\ TypeOK
    /\ WatcherTypeOK
    /\ CGROUPS \subseteq CgroupIds
    /\ consumer \in [pc : {"load", "attach", "recv", "filter", "call", "rebind", "stopped", "exited"},
                     cgid : CgroupIds \cup {NONE}]
    /\ skb_attached \in CgroupIds \cup {NONE}

\* main has resolved the container's cgroup and inserted it into CGROUPS.
TrackingInit ==
    /\ Init
    /\ WatcherInit
    /\ CGROUPS = {ctr.cgid}
    /\ consumer = [pc |-> "load", cgid |-> NONE]
    /\ skb_attached = NONE

-----------------------------------------------------------------------------
(* Start-up: load the policy, attach the probes, start the watcher.  The      *)
(* container may already be restarting.                                      *)

Load ==
    /\ LoadPolicy(watcher.current_cgroup_id)
    /\ UNCHANGED <<watcherVars, trackingVars>>

\* The cgroup_skb attach is not fatal: it fails if the cgroup is gone by now.
AttachProbes ==
    /\ consumer.pc = "attach"
    /\ skb_attached' = IF ctr.state = "running" /\ ctr.cgid = current_cgid
                       THEN current_cgid ELSE NONE
    /\ consumer' = [consumer EXCEPT !.pc = "recv"]
    /\ UNCHANGED <<vars, watcherVars, CGROUPS>>

-----------------------------------------------------------------------------
(* The watcher task. *)

Receive(type) ==
    /\ consumer.pc = "recv"
    /\ channel # <<>>
    /\ Head(channel).type = type

ReceiveStopped ==
    /\ Receive("Stopped")
    /\ channel' = Tail(channel)
    /\ UNCHANGED <<vars, ctr, watcher, receiver, faults, trackingVars>>

\* Mutant: the old id stays in the filter.
ReceiveStartedKeepsOld ==
    /\ Receive("Started")
    /\ channel' = Tail(channel)
    /\ IF Head(channel).cgroup_id # current_cgid
       THEN consumer' = [pc |-> "filter", cgid |-> Head(channel).cgroup_id]
       ELSE UNCHANGED consumer
    /\ UNCHANGED <<vars, ctr, watcher, receiver, faults, CGROUPS, skb_attached>>

\* A new id: the filter drops the old one, then takes the new one ...
ReceiveStarted ==
    /\ Receive("Started")
    /\ channel' = Tail(channel)
    /\ IF Head(channel).cgroup_id # current_cgid
       THEN /\ CGROUPS' = CGROUPS \ {current_cgid}
            /\ consumer' = [pc |-> "filter", cgid |-> Head(channel).cgroup_id]
       ELSE UNCHANGED <<CGROUPS, consumer>>
    /\ UNCHANGED <<vars, ctr, watcher, receiver, faults, skb_attached>>

\* ... (a full map is only logged) ...
UpdateFilter ==
    /\ consumer.pc = "filter"
    /\ CGROUPS' = IF Cardinality(CGROUPS) < FilterSize
                  THEN CGROUPS \cup {consumer.cgid} ELSE CGROUPS
    /\ consumer' = [consumer EXCEPT !.pc = "call"]
    /\ UNCHANGED <<vars, watcherVars, skb_attached>>

\* ... and the policy is re-applied under the new id.
CallRebind ==
    /\ consumer.pc = "call"
    /\ Rebind(consumer.cgid)
    /\ consumer' = [consumer EXCEPT !.pc = "rebind"]
    /\ UNCHANGED <<watcherVars, CGROUPS, skb_attached>>

BindRuns == BindStep /\ UNCHANGED <<watcherVars, trackingVars>>

BindEnds ==
    /\ BindReturned
    /\ consumer' = [pc |-> IF loader'.pc = "exited" THEN "exited"
                           ELSE IF consumer.pc = "load" THEN "attach" ELSE "recv",
                     cgid |-> NONE]
    /\ UNCHANGED <<watcherVars, CGROUPS, skb_attached>>

\* Any error ends the task, and with it the receiver.
ReceiveError ==
    /\ Receive("Error")
    /\ channel' = <<>>
    /\ receiver' = FALSE
    /\ consumer' = [consumer EXCEPT !.pc = "stopped"]
    /\ UNCHANGED <<vars, ctr, watcher, faults, CGROUPS, skb_attached>>

ConsumerStep ==
    Load \/ AttachProbes \/ ReceiveStopped \/ ReceiveStarted \/ UpdateFilter
    \/ CallRebind \/ BindRuns \/ BindEnds \/ ReceiveError

\* The watcher thread is started last.
WatcherRuns ==
    /\ consumer.pc \notin {"load", "attach", "exited"}
    /\ WatcherStep
    /\ UNCHANGED <<vars, trackingVars>>

InspectFails ==
    /\ consumer.pc \notin {"load", "attach", "exited"}
    /\ PollFault
    /\ UNCHANGED <<vars, trackingVars>>

ContainerEvent == RuntimeStep /\ UNCHANGED <<vars, trackingVars>>

TrackingNext == ConsumerStep \/ WatcherRuns \/ InspectFails \/ ContainerEvent

\* The thread and the task run as long as the process does; the container and
\* the docker daemon owe nothing.
TrackingSpec ==
    /\ TrackingInit /\ [][TrackingNext]_allVars
    /\ WF_allVars(ConsumerStep) /\ WF_allVars(WatcherRuns)

-----------------------------------------------------------------------------
(* No restart is lost between the two actors: while the receiver exists, the  *)
(* id the thread believes in is the last one on its way to the task, or else *)
(* the one the task is applying, or else the one it has applied.             *)
StartsInFlight == {i \in 1..Len(channel) : channel[i].type = "Started"}

TaskCgid == IF consumer.pc \in {"filter", "call", "rebind"} THEN consumer.cgid
            ELSE IF current_cgid = NONE THEN watcher.current_cgroup_id ELSE current_cgid

NoRestartLost ==
    receiver =>
        IF StartsInFlight = {} THEN watcher.current_cgroup_id = TaskCgid
        ELSE \E i \in StartsInFlight :
                /\ \A j \in StartsInFlight : j <= i
                /\ watcher.current_cgroup_id = channel[i].cgroup_id

(* Between messages monitoring and enforcement watch the same single cgroup:  *)
(* the filter holds the current id alone, and its policy is complete.        *)
FilterMatchesPolicy ==
    consumer.pc \in {"recv", "stopped"} =>
        /\ CGROUPS = {current_cgid}
        /\ Configured = {current_cgid} /\ current_cgid \in bound

(* The container is followed: if it ends up running for good and no error     *)
(* message ends the task, the filter and the complete policy end up on the   *)
(* cgroup it runs in.                                                        *)
Followed == CGROUPS = {ctr.cgid} /\ ctr.cgid \in bound \cap Configured

EnforcementFollows ==
    (<>[](ctr.state = "running") /\ []receiver) => <>[]Followed

(* SKB_ENFORCE_CGID is "the cgroup id the enforcing cgroup_skb program is     *)
(* guarding": the cgroup the program is attached to.                         *)
SkbGuardsAttachedCgroup ==
    skb_attached # NONE => SKB_ENFORCE_CGID = skb_attached
=============================================================================
