------------------------ MODULE RestartTracking_proofs ------------------------
(***************************************************************************)
(* Theorems about restart tracking end to end: the container, the watcher  *)
(* thread, the channel, the task that receives from it and the loader, for *)
(* every number of restarts and every policy.                              *)
(***************************************************************************)
EXTENDS RestartTracking, PolicyLoader_proofs

-----------------------------------------------------------------------------
(* The loader is where the task thinks it is. *)
Binding == {"config", "skb", "rule", "expand", "remove_old", "ok", "err"}

TaskInv ==
    /\ loader.pc = "unloaded" <=> current_cgid = NONE
    /\ consumer.pc = "load" =>
          /\ loader.pc \in {"unloaded"} \cup Binding
          /\ loader.old = NONE
          /\ loader.pc # "unloaded" => loader.cgid = current_cgid
    /\ consumer.pc \in {"attach", "recv", "filter", "call", "stopped"} => loader.pc = "idle"
    /\ consumer.pc \in {"filter", "call", "rebind"} => consumer.cgid \in CgroupIds
    /\ consumer.pc = "rebind" =>
          /\ loader.pc \in Binding
          /\ loader.cgid = consumer.cgid
          /\ loader.old = current_cgid
    /\ consumer.pc = "exited" => loader.pc = "exited"
    /\ loader.pc = "remove_old" => loader.old # NONE

(* Until the watcher thread is started it has seen nothing. *)
StartInv ==
    consumer.pc \in {"load", "attach"} =>
        /\ channel = <<>>
        /\ current_cgid \in {NONE, watcher.current_cgroup_id}

TrackInv == Inv /\ TrackingTypeOK /\ TaskInv /\ StartInv /\ NoRestartLost

-----------------------------------------------------------------------------
LEMMA TrackingInitInv == TrackingInit => TrackInv
  <1> SUFFICES ASSUME TrackingInit PROVE TrackInv OBVIOUS
  <1>1. Inv
    BY InitInv DEF TrackingInit
  <1>2. WatcherTypeOK
    BY WatcherAssumption DEF TrackingInit, WatcherInit, WatcherTypeOK, Watcher, States, Starts
  <1>3. ctr.cgid \in CgroupIds
    BY WatcherAssumption, TrackingAssumption DEF TrackingInit, WatcherInit, Starts
  <1>4. TrackingTypeOK
    BY <1>1, <1>2, <1>3 DEF Inv, TrackingInit, TrackingTypeOK
  <1>5. TaskInv /\ StartInv
    BY DEF TrackingInit, Init, WatcherInit, TaskInv, StartInv
  <1>6. NoRestartLost
    BY DEF TrackingInit, Init, WatcherInit, NoRestartLost, StartsInFlight, TaskCgid
  <1>7. QED BY <1>1, <1>4, <1>5, <1>6 DEF TrackInv

(* Whatever the actors do, the loader takes a step of its own specification   *)
(* or none.                                                                  *)
LEMMA LoaderMoves ==
    ASSUME TrackInv, [TrackingNext]_allVars PROVE [Next]_vars
  <1>1. watcher.current_cgroup_id \in CgroupIds
    BY TrackingAssumption DEF TrackInv, TrackingTypeOK, WatcherTypeOK, Watcher
  <1>2. consumer.pc = "call" => consumer.cgid \in CgroupIds
    BY DEF TrackInv, TaskInv
  <1>3. CASE Load
    BY <1>1, <1>3 DEF Load, Next
  <1>4. CASE CallRebind
    BY <1>2, <1>4 DEF CallRebind, Next
  <1>5. CASE BindRuns \/ BindEnds
    BY <1>5 DEF BindRuns, BindEnds, Next, LoaderStep
  <1>6. QED
    BY <1>3, <1>4, <1>5
    DEF TrackingNext, ConsumerStep, AttachProbes, ReceiveStopped, ReceiveStarted, UpdateFilter,
        ReceiveError, WatcherRuns, InspectFails, ContainerEvent, allVars

-----------------------------------------------------------------------------
(* The watcher thread and the container. *)

(* A message joins the queue: the last start in flight is still the one the   *)
(* thread believes in.                                                       *)
LEMMA SendKeeps ==
    ASSUME TrackInv, UNCHANGED <<receiver, consumer, current_cgid>>, NEW msg \in Message,
           Send(msg), current_cgid # NONE,
           IF msg.type = "Started" THEN watcher'.current_cgroup_id = msg.cgroup_id
           ELSE UNCHANGED watcher.current_cgroup_id
    PROVE  NoRestartLost' /\ channel' \in Seq(Message)
  <1> DEFINE n == Len(channel) + 1
  <1>1. channel \in Seq(Message) /\ NoRestartLost
    BY DEF TrackInv, TrackingTypeOK, WatcherTypeOK
  <1>2. CASE ~receiver
    BY <1>1, <1>2 DEF Send, NoRestartLost
  <1>3. CASE receiver
    <2>1. channel' = Append(channel, msg)
      BY <1>3 DEF Send
    <2>2. /\ channel' \in Seq(Message) /\ Len(channel') = n /\ channel'[n] = msg
          /\ \A i \in 1..Len(channel) : channel'[i] = channel[i]
          /\ Len(channel) \in Nat
      BY <1>1, <2>1
    <2>3. StartsInFlight' =
             IF msg.type = "Started" THEN StartsInFlight \cup {n} ELSE StartsInFlight
      BY <2>2 DEF StartsInFlight
    <2>4. \A i \in StartsInFlight : i \in 1..Len(channel) /\ i < n /\ channel'[i] = channel[i]
      BY <2>2 DEF StartsInFlight
    <2>5. CASE msg.type = "Started"
      <3>1. n \in StartsInFlight' /\ \A j \in StartsInFlight' : j <= n
        BY <2>2, <2>3, <2>4, <2>5
      <3>2. QED BY <2>2, <2>5, <3>1 DEF NoRestartLost
    <2>6. CASE msg.type # "Started"
      <3>1. UNCHANGED <<TaskCgid, watcher.current_cgroup_id, StartsInFlight>>
        BY <2>3, <2>6 DEF TaskCgid
      <3>2. CASE StartsInFlight = {}
        BY <1>1, <1>3, <2>2, <3>1, <3>2 DEF NoRestartLost
      <3>3. CASE StartsInFlight # {}
        <4>1. PICK i \in StartsInFlight :
                 /\ \A j \in StartsInFlight : j <= i
                 /\ watcher.current_cgroup_id = channel[i].cgroup_id
          BY <1>1, <1>3, <3>3 DEF NoRestartLost
        <4>2. QED BY <2>2, <2>4, <3>1, <3>3, <4>1 DEF NoRestartLost
      <3>4. QED BY <3>2, <3>3
    <2>7. QED BY <2>2, <2>5, <2>6
  <1>4. QED BY <1>2, <1>3

(* The types of the messages the thread sends. *)
LEMMA MessageTypes ==
    /\ [type |-> "Stopped"] \in Message
    /\ \A b \in BOOLEAN : [type |-> "Error", removed |-> b] \in Message
    /\ \A c \in Starts : [type |-> "Started", cgroup_id |-> c] \in Message
  BY DEF Message

LEMMA WatcherMoves ==
    ASSUME TrackInv, UNCHANGED <<receiver, consumer, current_cgid>>, current_cgid # NONE,
           WatcherStep \/ PollFault
    PROVE  NoRestartLost' /\ WatcherTypeOK'
  <1>0. /\ watcher \in Watcher /\ channel \in Seq(Message) /\ receiver \in BOOLEAN
        /\ ctr \in [state : States, id : 1..MaxContainers, cgid : Starts]
        /\ faults \in 0..MaxInspectFaults /\ NoRestartLost
    BY DEF TrackInv, TrackingTypeOK, WatcherTypeOK
  <1>1. ASSUME UNCHANGED <<channel, watcher.current_cgroup_id>> PROVE NoRestartLost'
    BY <1>0, <1>1 DEF NoRestartLost, StartsInFlight, TaskCgid
  <1>2. UNCHANGED ctr /\ faults' \in 0..MaxInspectFaults
    BY <1>0, WatcherAssumption
    DEF WatcherStep, PollStopped, PollRunning, PollAbsent, ResolveUpdate, ResolveCheck, PollFault
  <1>3. ASSUME watcher' \in Watcher, NoRestartLost' /\ channel' \in Seq(Message)
        PROVE  NoRestartLost' /\ WatcherTypeOK'
    BY <1>0, <1>2, <1>3 DEF WatcherTypeOK
  <1>4. CASE PollStopped
    <2>1. /\ watcher' \in Watcher
          /\ UNCHANGED watcher.current_cgroup_id
          /\ UNCHANGED channel \/ Send([type |-> "Stopped"])
      BY <1>0, <1>4 DEF PollStopped, Watcher
    <2>2. NoRestartLost' /\ channel' \in Seq(Message)
      BY <1>0, <1>1, <2>1, MessageTypes, SendKeeps
    <2>3. QED BY <1>3, <2>1, <2>2
  <1>5. CASE PollRunning
    <2>1. watcher' \in Watcher /\ UNCHANGED <<channel, watcher.current_cgroup_id>>
      BY <1>0, <1>5 DEF PollRunning, Watcher
    <2>2. QED BY <1>0, <1>1, <1>3, <2>1
  <1>6. ASSUME InspectNotFound PROVE NoRestartLost' /\ WatcherTypeOK'
    <2>1. /\ watcher' \in Watcher
          /\ UNCHANGED watcher.current_cgroup_id
          /\ UNCHANGED channel \/ Send([type |-> "Error", removed |-> TRUE])
      BY <1>0, <1>6 DEF InspectNotFound, Watcher
    <2>2. NoRestartLost' /\ channel' \in Seq(Message)
      BY <1>0, <1>1, <2>1, MessageTypes, SendKeeps
    <2>3. QED BY <1>3, <2>1, <2>2
  <1>7. ASSUME watcher' \in Watcher, UNCHANGED watcher.current_cgroup_id,
               Send([type |-> "Error", removed |-> FALSE])
        PROVE  NoRestartLost' /\ WatcherTypeOK'
    <2>1. NoRestartLost' /\ channel' \in Seq(Message)
      BY <1>7, MessageTypes, SendKeeps
    <2>2. QED BY <1>3, <1>7, <2>1
  <1>8. ASSUME watcher' = [watcher EXCEPT !.pc = "poll", !.current_cgroup_id = ctr.cgid],
               Send([type |-> "Started", cgroup_id |-> ctr.cgid])
        PROVE  NoRestartLost' /\ WatcherTypeOK'
    <2>1. ctr.cgid \in Starts
      BY <1>0
    <2>2. watcher' \in Watcher /\ watcher'.current_cgroup_id = ctr.cgid
      BY <1>0, <1>8, <2>1 DEF Watcher
    <2>3. NoRestartLost' /\ channel' \in Seq(Message)
      BY <1>8, <2>1, <2>2, MessageTypes, SendKeeps
    <2>4. QED BY <1>3, <2>2, <2>3
  <1>9. ASSUME watcher' = [watcher EXCEPT !.pc = "poll"]
        PROVE  watcher' \in Watcher /\ UNCHANGED watcher.current_cgroup_id
    BY <1>0, <1>9 DEF Watcher
  <1>10. CASE ResolveUpdate
    BY <1>7, <1>8, <1>9, <1>10 DEF ResolveUpdate
  <1>11. CASE ResolveCheck
    <2>1. CASE Resolvable /\ ctr.cgid # watcher.current_cgroup_id
      BY <1>8, <1>11, <2>1 DEF ResolveCheck
    <2>2. CASE ~(Resolvable /\ ctr.cgid # watcher.current_cgroup_id)
      BY <1>0, <1>1, <1>3, <1>9, <1>11, <2>2 DEF ResolveCheck
    <2>3. QED BY <2>1, <2>2
  <1>12. CASE PollFault
    <2>1. CASE UNCHANGED watcher /\ Send([type |-> "Error", removed |-> FALSE])
      BY <1>0, <1>7, <2>1
    <2>2. QED BY <1>6, <1>12, <2>1 DEF PollFault
  <1>13. QED
    BY <1>4, <1>5, <1>6, <1>10, <1>11, <1>12 DEF WatcherStep, PollAbsent

(* Steps of the thread and of the container keep the invariant. *)
LEMMA WatcherKeeps ==
    ASSUME TrackInv, WatcherRuns \/ InspectFails \/ ContainerEvent
    PROVE  TrackInv'
  <1>1. UNCHANGED vars /\ UNCHANGED trackingVars
    BY DEF WatcherRuns, InspectFails, ContainerEvent
  <1>2. UNCHANGED <<loader, current_cgid, consumer>>
    BY <1>1 DEF vars, trackingVars
  <1>3. Inv'
    BY <1>1, NextInv DEF TrackInv
  <1>4. TaskInv'
    BY <1>2 DEF TrackInv, TaskInv
  <1>5. ASSUME WatcherTypeOK' PROVE TrackingTypeOK'
    BY <1>1, <1>3, <1>5 DEF TrackInv, TrackingTypeOK, trackingVars, Inv
  <1>6. CASE WatcherRuns \/ InspectFails
    <2>1. /\ consumer.pc \notin {"load", "attach", "exited"}
          /\ WatcherStep \/ PollFault
      BY <1>6 DEF WatcherRuns, InspectFails
    <2>2. current_cgid # NONE /\ UNCHANGED receiver
      <3>1. consumer.pc \in {"recv", "filter", "call", "rebind", "stopped"}
        BY <2>1 DEF TrackInv, TrackingTypeOK
      <3>2. loader.pc # "unloaded"
        BY <3>1 DEF TrackInv, TaskInv, Binding
      <3>3. QED
        BY <2>1, <3>2 DEF TrackInv, TaskInv, WatcherStep, PollStopped, PollRunning, PollAbsent,
           ResolveUpdate, ResolveCheck, PollFault
    <2>3. NoRestartLost' /\ WatcherTypeOK'
      BY <1>2, <2>1, <2>2, WatcherMoves
    <2>4. QED BY <1>2, <1>3, <1>4, <1>5, <2>1, <2>3 DEF TrackInv, StartInv
  <1>7. CASE ContainerEvent
    <2>1. UNCHANGED <<watcher, channel, receiver, faults>>
      BY <1>7 DEF ContainerEvent, RuntimeStep, ContainerStops, ContainerStarts, ContainerRemoved,
         ContainerRecreated
    <2>2. ctr' \in [state : States, id : 1..MaxContainers, cgid : Starts]
      <3>0. ctr \in [state : States, id : 1..MaxContainers, cgid : Starts]
        BY DEF TrackInv, TrackingTypeOK, WatcherTypeOK
      <3>1. CASE ContainerStops \/ ContainerRemoved
        BY <3>0, <3>1 DEF ContainerStops, ContainerRemoved, States
      <3>2. CASE ContainerStarts
        <4>1. PICK n \in Starts : n = ctr.cgid + 1
          BY <3>0, <3>2, WatcherAssumption DEF ContainerStarts, Starts
        <4>2. ctr' = [ctr EXCEPT !.state = "running", !.cgid = n]
          BY <3>2, <4>1 DEF ContainerStarts
        <4>3. QED BY <3>0, <4>2 DEF States
      <3>3. CASE ContainerRecreated
        BY <3>0, <3>3, WatcherAssumption DEF ContainerRecreated, States, Starts
      <3>4. QED BY <1>7, <3>1, <3>2, <3>3 DEF ContainerEvent, RuntimeStep
    <2>3. WatcherTypeOK'
      BY <2>1, <2>2 DEF TrackInv, TrackingTypeOK, WatcherTypeOK
    <2>4. NoRestartLost' /\ StartInv'
      BY <1>2, <2>1 DEF TrackInv, NoRestartLost, StartsInFlight, TaskCgid, StartInv
    <2>5. QED BY <1>3, <1>4, <1>5, <2>3, <2>4 DEF TrackInv
  <1>8. QED BY <1>6, <1>7

-----------------------------------------------------------------------------
(* The task. *)

(* The first message is taken off the queue: what the thread believes in is   *)
(* the last start left in it, or else the message itself if it was a start.  *)
LEMMA ReceiveKeeps ==
    ASSUME TrackInv, receiver, channel # <<>>, channel' = Tail(channel),
           UNCHANGED <<watcher, receiver>>,
           StartsInFlight = {} => TaskCgid' = TaskCgid,
           Head(channel).type = "Started" => TaskCgid' = Head(channel).cgroup_id
    PROVE  NoRestartLost' /\ channel' \in Seq(Message)
  <1>1. /\ channel \in Seq(Message) /\ Len(channel) \in Nat \ {0}
        /\ Head(channel) = channel[1] /\ NoRestartLost
    BY DEF TrackInv, TrackingTypeOK, WatcherTypeOK
  <1>2. /\ channel' \in Seq(Message) /\ Len(channel') = Len(channel) - 1
        /\ \A i \in 1..Len(channel') : channel'[i] = channel[i + 1]
    BY <1>1
  <1>3. \A i \in 1..Len(channel') : i \in StartsInFlight' <=> i + 1 \in StartsInFlight
    BY <1>1, <1>2 DEF StartsInFlight
  <1>3a. StartsInFlight \subseteq 1..Len(channel) /\ StartsInFlight' \subseteq 1..Len(channel')
    BY DEF StartsInFlight
  <1>4. CASE StartsInFlight = {}
    <2>1. StartsInFlight' = {}
      BY <1>3, <1>3a, <1>4
    <2>2. QED BY <1>1, <1>2, <1>4, <2>1 DEF NoRestartLost
  <1>5. CASE StartsInFlight # {}
    <2>1. PICK i \in StartsInFlight :
             /\ \A j \in StartsInFlight : j <= i
             /\ watcher.current_cgroup_id = channel[i].cgroup_id
      BY <1>1, <1>5 DEF NoRestartLost
    <2>2. CASE i = 1
      <3>1. StartsInFlight' = {}
        BY <1>1, <1>2, <1>3, <1>3a, <2>1, <2>2
      <3>2. Head(channel).type = "Started"
        BY <1>1, <2>1, <2>2 DEF StartsInFlight
      <3>3. QED BY <1>1, <1>2, <2>1, <2>2, <3>1, <3>2 DEF NoRestartLost
    <2>3. CASE i # 1
      <3>1. i - 1 \in 1..Len(channel') /\ (i - 1) + 1 = i
        BY <1>1, <1>2, <1>3a, <2>3
      <3>2. i - 1 \in StartsInFlight' /\ channel'[i - 1] = channel[i]
        BY <1>2, <1>3, <3>1
      <3>3. \A j \in StartsInFlight' : j <= i - 1
        BY <1>1, <1>2, <1>3, <1>3a, <2>1
      <3>4. QED BY <1>2, <2>1, <3>2, <3>3 DEF NoRestartLost
    <2>4. QED BY <2>2, <2>3
  <1>6. QED BY <1>4, <1>5

(* What a step of a bind leaves alone. *)
LEMMA BindStepFacts ==
    ASSUME Inv, BindStep
    PROVE  /\ loader.pc \in Binding /\ loader'.pc \in Binding
           /\ UNCHANGED <<loader.cgid, loader.old, current_cgid>>
           /\ loader'.pc = "remove_old" => loader.old # NONE
  <1>0. loader \in Loader
    BY DEF Inv, TypeOK
  <1>1. UNCHANGED current_cgid
    BY DEF BindStep, InsertConfig, PublishSkbCgid, ApplyRule, SkipRule, RulesDone, ExpandCategory,
       BindDone, RemoveOld
  <1>2. CASE ApplyRule
    BY <1>1, <1>2, ApplyRuleStep DEF Binding
  <1>3. CASE ExpandCategory
    BY <1>1, <1>3, ExpandStep DEF Binding
  <1>4. CASE SkipRule
    BY <1>0, <1>1, <1>4 DEF SkipRule, Binding, Loader
  <1>5. CASE InsertConfig \/ PublishSkbCgid \/ RulesDone \/ BindDone \/ RemoveOld
    <2>1. PICK pc \in {"skb", "err", "rule", "expand", "ok", "remove_old"} :
             loader' = [loader EXCEPT !.pc = pc] /\ (pc = "remove_old" => loader.old # NONE)
      BY <1>5 DEF InsertConfig, PublishSkbCgid, RulesDone, BindDone, RemoveOld, Fail
    <2>2. loader'.pc = pc /\ UNCHANGED <<loader.cgid, loader.old>>
      BY <1>0, <2>1 DEF Loader
    <2>3. loader.pc \in Binding
      BY <1>5 DEF InsertConfig, PublishSkbCgid, RulesDone, BindDone, RemoveOld, Binding
    <2>4. QED BY <1>1, <2>1, <2>2, <2>3 DEF Binding
  <1>6. QED BY <1>2, <1>3, <1>4, <1>5 DEF BindStep

(* How the task moves from one place in its code to the next. *)
TaskPcs == {"load", "attach", "recv", "filter", "call", "rebind", "stopped", "exited"}

LEMMA TaskMoves ==
    ASSUME TrackInv, NEW pc \in TaskPcs, consumer' = [consumer EXCEPT !.pc = pc]
    PROVE  /\ consumer' \in [pc : TaskPcs, cgid : CgroupIds \cup {NONE}]
           /\ consumer'.pc = pc /\ consumer'.cgid = consumer.cgid
  BY DEF TrackInv, TrackingTypeOK, TaskPcs

LEMMA ConsumerKeeps ==
    ASSUME TrackInv, ConsumerStep, Inv'
    PROVE  TrackInv'
  <1>0. /\ Inv /\ TaskInv /\ StartInv /\ NoRestartLost /\ WatcherTypeOK
        /\ loader \in Loader /\ watcher \in Watcher /\ channel \in Seq(Message)
        /\ CGROUPS \subseteq CgroupIds /\ skb_attached \in CgroupIds \cup {NONE}
        /\ consumer \in [pc : TaskPcs, cgid : CgroupIds \cup {NONE}]
        /\ NONE \notin CgroupIds /\ current_cgid \in CgroupIds \cup {NONE}
        /\ watcher.current_cgroup_id \in CgroupIds
    BY KernelAssumption, TrackingAssumption
    DEF TrackInv, TrackingTypeOK, TypeOK, WatcherTypeOK, Watcher, TaskPcs
  <1>1. ASSUME WatcherTypeOK', CGROUPS' \subseteq CgroupIds, skb_attached' \in CgroupIds \cup {NONE},
               consumer' \in [pc : TaskPcs, cgid : CgroupIds \cup {NONE}],
               TaskInv', StartInv', NoRestartLost'
        PROVE  TrackInv'
    BY <1>1 DEF TrackInv, TrackingTypeOK, Inv, TaskPcs
  <1>2. ASSUME UNCHANGED watcherVars PROVE WatcherTypeOK' /\ UNCHANGED StartsInFlight
    BY <1>0, <1>2 DEF watcherVars, WatcherTypeOK, StartsInFlight
  <1>3. ASSUME UNCHANGED watcherVars, TaskCgid' = TaskCgid PROVE NoRestartLost'
    BY <1>0, <1>2, <1>3 DEF watcherVars, NoRestartLost
  <1>4. CASE Load
    <2>1. /\ loader.pc = "unloaded" /\ current_cgid' = watcher.current_cgroup_id
          /\ loader' = [pc |-> "config", cgid |-> watcher.current_cgroup_id, old |-> NONE,
                        idx |-> 1, slot |-> 0]
          /\ UNCHANGED <<watcherVars, CGROUPS, consumer, skb_attached>>
      BY <1>4 DEF Load, LoadPolicy, StartBind, trackingVars
    <2>2. current_cgid = NONE /\ consumer.pc = "load"
      BY <1>0, <2>1 DEF TaskInv, Binding, TaskPcs
    <2>3. TaskInv'
      BY <1>0, <2>1, <2>2 DEF TaskInv, Binding
    <2>4. TaskCgid' = TaskCgid /\ StartInv'
      BY <1>0, <2>1, <2>2 DEF TaskCgid, StartInv, watcherVars
    <2>5. QED BY <1>0, <1>1, <1>2, <1>3, <2>1, <2>3, <2>4
  <1>5. CASE AttachProbes
    <2>1. /\ consumer.pc = "attach" /\ consumer' = [consumer EXCEPT !.pc = "recv"]
          /\ UNCHANGED <<vars, watcherVars, CGROUPS>> /\ skb_attached' \in CgroupIds \cup {NONE}
      BY <1>0, <1>5 DEF AttachProbes
    <2>2. /\ consumer' \in [pc : TaskPcs, cgid : CgroupIds \cup {NONE}] /\ consumer'.pc = "recv"
      BY <2>1, TaskMoves DEF TaskPcs
    <2>3. UNCHANGED <<loader, current_cgid>>
      BY <2>1 DEF vars
    <2>4. TaskInv' /\ StartInv' /\ TaskCgid' = TaskCgid
      BY <1>0, <2>1, <2>2, <2>3 DEF TaskInv, StartInv, TaskCgid, watcherVars
    <2>5. QED BY <1>0, <1>1, <1>2, <1>3, <2>1, <2>2, <2>4
  <1>6. CASE ReceiveStopped
    <2>1. /\ consumer.pc = "recv" /\ channel # <<>> /\ Head(channel).type = "Stopped"
          /\ channel' = Tail(channel)
          /\ UNCHANGED <<vars, ctr, watcher, receiver, faults, CGROUPS, consumer, skb_attached>>
      BY <1>6 DEF ReceiveStopped, Receive, trackingVars
    <2>2. UNCHANGED <<loader, current_cgid, TaskCgid>>
      BY <2>1 DEF vars, TaskCgid
    <2>3. channel' \in Seq(Message) /\ NoRestartLost'
      <3>1. CASE receiver
        BY <2>1, <2>2, <3>1, ReceiveKeeps
      <3>2. CASE ~receiver
        BY <1>0, <2>1, <3>2 DEF NoRestartLost
      <3>3. QED BY <3>1, <3>2
    <2>4. WatcherTypeOK'
      BY <1>0, <2>1, <2>3 DEF WatcherTypeOK
    <2>5. TaskInv' /\ StartInv'
      BY <1>0, <2>1, <2>2 DEF TaskInv, StartInv
    <2>6. QED BY <1>0, <1>1, <2>1, <2>3, <2>4, <2>5
  <1>7. CASE ReceiveStarted
    <2> DEFINE new == Head(channel).cgroup_id
    <2>1. /\ consumer.pc = "recv" /\ channel # <<>> /\ Head(channel).type = "Started"
          /\ channel' = Tail(channel)
          /\ IF new # current_cgid
             THEN /\ CGROUPS' = CGROUPS \ {current_cgid}
                  /\ consumer' = [pc |-> "filter", cgid |-> new]
             ELSE UNCHANGED <<CGROUPS, consumer>>
          /\ UNCHANGED <<vars, ctr, watcher, receiver, faults, skb_attached>>
      BY <1>7 DEF ReceiveStarted, Receive
    <2>2. UNCHANGED <<loader, current_cgid>> /\ loader.pc = "idle" /\ current_cgid \in CgroupIds
      BY <1>0, <2>1 DEF vars, TaskInv
    <2>3. new \in CgroupIds
      <3>1. Head(channel) \in Message
        BY <1>0, <2>1
      <3>2. QED BY <2>1, <3>1, TrackingAssumption DEF Message
    <2> HIDE DEF new
    <2>4. /\ consumer' \in [pc : TaskPcs, cgid : CgroupIds \cup {NONE}]
          /\ CGROUPS' \subseteq CgroupIds
          /\ TaskCgid' = new
          /\ consumer'.pc \in {"recv", "filter"} /\ (consumer'.pc = "filter" => consumer'.cgid = new)
      BY <1>0, <2>1, <2>2, <2>3 DEF TaskPcs, TaskCgid
    <2>5. StartsInFlight # {}
      <3>1. 1 \in StartsInFlight
        BY <1>0, <2>1 DEF StartsInFlight
      <3>2. QED BY <3>1
    <2>6. channel' \in Seq(Message) /\ NoRestartLost'
      <3>1. CASE receiver
        BY <2>1, <2>4, <2>5, <3>1, ReceiveKeeps DEF new
      <3>2. CASE ~receiver
        BY <1>0, <2>1, <3>2 DEF NoRestartLost
      <3>3. QED BY <3>1, <3>2
    <2>7. WatcherTypeOK'
      BY <1>0, <2>1, <2>6 DEF WatcherTypeOK
    <2>8. TaskInv' /\ StartInv'
      BY <1>0, <2>2, <2>3, <2>4 DEF TaskInv, StartInv
    <2>9. QED BY <1>0, <1>1, <2>1, <2>4, <2>6, <2>7, <2>8
  <1>8. CASE UpdateFilter
    <2>1. /\ consumer.pc = "filter" /\ consumer' = [consumer EXCEPT !.pc = "call"]
          /\ UNCHANGED <<vars, watcherVars, skb_attached>>
          /\ CGROUPS' \subseteq CGROUPS \cup {consumer.cgid}
      BY <1>8 DEF UpdateFilter
    <2>2. /\ consumer' \in [pc : TaskPcs, cgid : CgroupIds \cup {NONE}]
          /\ consumer'.pc = "call" /\ consumer'.cgid = consumer.cgid
      BY <2>1, TaskMoves DEF TaskPcs
    <2>3. UNCHANGED <<loader, current_cgid>> /\ consumer.cgid \in CgroupIds
      BY <1>0, <2>1 DEF vars, TaskInv
    <2>4. TaskInv' /\ StartInv' /\ TaskCgid' = TaskCgid
      BY <1>0, <2>1, <2>2, <2>3 DEF TaskInv, StartInv, TaskCgid
    <2>5. QED BY <1>0, <1>1, <1>2, <1>3, <2>1, <2>2, <2>3, <2>4
  <1>9. CASE CallRebind
    <2>1. /\ consumer.pc = "call" /\ consumer' = [consumer EXCEPT !.pc = "rebind"]
          /\ loader' = [pc |-> "config", cgid |-> consumer.cgid, old |-> current_cgid,
                        idx |-> 1, slot |-> 0]
          /\ UNCHANGED <<watcherVars, CGROUPS, skb_attached, current_cgid>>
      BY <1>9 DEF CallRebind, Rebind, StartBind
    <2>2. /\ consumer' \in [pc : TaskPcs, cgid : CgroupIds \cup {NONE}]
          /\ consumer'.pc = "rebind" /\ consumer'.cgid = consumer.cgid
      BY <2>1, TaskMoves DEF TaskPcs
    <2>3. current_cgid # NONE
      BY <1>0, <2>1 DEF TaskInv
    <2>4. TaskInv'
      BY <1>0, <2>1, <2>2, <2>3 DEF TaskInv, Binding
    <2>5. StartInv' /\ TaskCgid' = TaskCgid
      BY <1>0, <2>1, <2>2, <2>3 DEF StartInv, TaskCgid
    <2>6. QED BY <1>0, <1>1, <1>2, <1>3, <2>1, <2>2, <2>4, <2>5
  <1>10. CASE BindRuns
    <2>1. /\ loader.pc \in Binding /\ loader'.pc \in Binding
          /\ UNCHANGED <<loader.cgid, loader.old, current_cgid>>
          /\ loader'.pc = "remove_old" => loader.old # NONE
          /\ UNCHANGED <<watcherVars, CGROUPS, consumer, skb_attached>>
      BY <1>0, <1>10, BindStepFacts DEF BindRuns, trackingVars
    <2>2. consumer.pc \in {"load", "rebind"}
      BY <1>0, <2>1 DEF TaskInv, TaskPcs, Binding
    <2>3. TaskInv'
      BY <1>0, <2>1, <2>2 DEF TaskInv, Binding
    <2>4. StartInv' /\ TaskCgid' = TaskCgid
      BY <1>0, <2>1 DEF StartInv, TaskCgid, watcherVars
    <2>5. QED BY <1>0, <1>1, <1>2, <1>3, <2>1, <2>3, <2>4
  <1>11. CASE BindEnds
    <2>1. /\ loader.pc \in {"ok", "err"}
          /\ UNCHANGED <<watcherVars, CGROUPS, skb_attached>>
          /\ consumer' = [pc |-> IF loader'.pc = "exited" THEN "exited"
                                 ELSE IF consumer.pc = "load" THEN "attach" ELSE "recv",
                          cgid |-> NONE]
      BY <1>11 DEF BindEnds, BindReturned
    <2>2. consumer.pc \in {"load", "rebind"}
      BY <1>0, <2>1 DEF TaskInv, TaskPcs
    <2>3. loader.cgid \in CgroupIds /\ loader.cgid # NONE /\ current_cgid # NONE
      BY <1>0, <2>1 DEF Inv, BindInv
    <2>4. consumer' \in [pc : TaskPcs, cgid : CgroupIds \cup {NONE}]
      BY <2>1 DEF TaskPcs
    <2>5. CASE loader.pc = "err" /\ loader.old = NONE
      <3>1. loader' = [loader EXCEPT !.pc = "exited"] /\ UNCHANGED current_cgid
        BY <1>11, <2>5 DEF BindEnds, BindReturned
      <3>2. loader'.pc = "exited" /\ consumer'.pc = "exited"
        BY <1>0, <2>1, <3>1 DEF Loader
      <3>3. consumer.pc = "load"
        BY <1>0, <2>2, <2>3, <2>5 DEF TaskInv
      <3>4. TaskInv' /\ StartInv' /\ TaskCgid' = TaskCgid
        BY <1>0, <2>1, <2>3, <3>1, <3>2, <3>3 DEF TaskInv, StartInv, TaskCgid, watcherVars
      <3>5. QED BY <1>0, <1>1, <1>2, <1>3, <2>1, <2>4, <3>4
    <2>6. CASE ~(loader.pc = "err" /\ loader.old = NONE)
      <3>1. loader' = [loader EXCEPT !.pc = "idle"] /\ current_cgid' = loader.cgid
        BY <1>11, <2>6 DEF BindEnds, BindReturned
      <3>2. loader'.pc = "idle"
        BY <1>0, <3>1 DEF Loader
      <3>3. /\ consumer'.pc = IF consumer.pc = "load" THEN "attach" ELSE "recv"
            /\ consumer'.cgid = NONE
        BY <2>1, <3>2
      <3>4. TaskInv'
        BY <1>0, <2>2, <2>3, <3>1, <3>2, <3>3 DEF TaskInv
      <3>5. StartInv' /\ TaskCgid' = TaskCgid
        BY <1>0, <2>1, <2>2, <2>3, <3>1, <3>3 DEF TaskInv, StartInv, TaskCgid, watcherVars
      <3>6. QED BY <1>0, <1>1, <1>2, <1>3, <2>1, <2>4, <3>4, <3>5
    <2>7. QED BY <2>5, <2>6
  <1>12. CASE ReceiveError
    <2>1. /\ consumer.pc = "recv" /\ channel' = <<>> /\ receiver' = FALSE
          /\ consumer' = [consumer EXCEPT !.pc = "stopped"]
          /\ UNCHANGED <<vars, ctr, watcher, faults, CGROUPS, skb_attached>>
      BY <1>12 DEF ReceiveError, Receive
    <2>2. consumer' \in [pc : TaskPcs, cgid : CgroupIds \cup {NONE}] /\ consumer'.pc = "stopped"
      BY <2>1, TaskMoves DEF TaskPcs
    <2>3. UNCHANGED <<loader, current_cgid>>
      BY <2>1 DEF vars
    <2>4. channel' \in Seq(Message)
      BY <2>1
    <2>5. WatcherTypeOK' /\ NoRestartLost'
      BY <1>0, <2>1, <2>4 DEF WatcherTypeOK, NoRestartLost
    <2>6. TaskInv' /\ StartInv'
      BY <1>0, <2>1, <2>2, <2>3 DEF TaskInv, StartInv
    <2>7. QED BY <1>0, <1>1, <2>1, <2>2, <2>5, <2>6
  <1>13. QED
    BY <1>4, <1>5, <1>6, <1>7, <1>8, <1>9, <1>10, <1>11, <1>12 DEF ConsumerStep

LEMMA TrackingNextInv == TrackInv /\ [TrackingNext]_allVars => TrackInv'
  <1> SUFFICES ASSUME TrackInv, [TrackingNext]_allVars PROVE TrackInv' OBVIOUS
  <1>1. Inv'
    BY LoaderMoves, NextInv DEF TrackInv
  <1>2. CASE UNCHANGED allVars
    <2>1. /\ UNCHANGED vars /\ UNCHANGED watcherVars /\ UNCHANGED trackingVars
      BY <1>2 DEF allVars
    <2>2. UNCHANGED <<loader, current_cgid, ctr, watcher, channel, receiver, faults, CGROUPS,
                      consumer, skb_attached>>
      BY <2>1 DEF vars, watcherVars, trackingVars
    <2>3. TrackingTypeOK'
      BY <1>1, <2>2 DEF TrackInv, TrackingTypeOK, WatcherTypeOK, Inv
    <2>4. TaskInv' /\ StartInv' /\ NoRestartLost'
      BY <2>2 DEF TrackInv, TaskInv, StartInv, NoRestartLost, StartsInFlight, TaskCgid
    <2>5. QED BY <1>1, <2>3, <2>4 DEF TrackInv
  <1>3. QED BY <1>1, <1>2, WatcherKeeps, ConsumerKeeps DEF TrackingNext

LEMMA TrackInvHolds == TrackingSpec => []TrackInv
  BY TrackingInitInv, TrackingNextInv, PTL DEF TrackingSpec

(* The task, the thread, the channel and the loader keep their types. *)
THEOREM TrackingTypeCorrect == TrackingSpec => []TrackingTypeOK
  <1>1. TrackInv => TrackingTypeOK
    BY DEF TrackInv
  <1>2. QED BY <1>1, TrackInvHolds, PTL

(* No restart is lost between the thread that polls the container and the     *)
(* task that applies the policy: restarts while a rebind runs, restarts seen *)
(* twice, inspect faults and failed rebinds included.                        *)
THEOREM RestartsReachTask == TrackingSpec => []NoRestartLost
  <1>1. TrackInv => NoRestartLost
    BY DEF TrackInv
  <1>2. QED BY <1>1, TrackInvHolds, PTL

(* Driven by the watcher the loader still implements Coverage. *)
THEOREM TrackingKeepsCoverage == TrackingSpec => CoverageKept
  <1>1. TrackingInit => Promise!Init
    BY DEF TrackingInit, Init, Promise!Init
  <1>2. TrackInv /\ [TrackingNext]_allVars => [Promise!Next]_(bound \cap Configured)
    BY LoaderMoves, StepCovers DEF TrackInv
  <1>3. QED BY <1>1, <1>2, TrackInvHolds, PTL DEF TrackingSpec, CoverageKept, Promise!Spec

-----------------------------------------------------------------------------
(* What the monitor's filter holds at each place in the task's code. *)
FilterInv ==
    /\ consumer.pc = "load" => CGROUPS = {watcher.current_cgroup_id}
    /\ consumer.pc \in {"attach", "recv", "stopped"} => CGROUPS = {current_cgid}
    /\ consumer.pc = "filter" => CGROUPS = {}
    /\ consumer.pc \in {"call", "rebind"} => CGROUPS = {consumer.cgid}

LEMMA FilterNextInv ==
    ASSUME TrackInv, FilterInv, [TrackingNext]_allVars
    PROVE  FilterInv'
  <1>0. /\ TaskInv /\ StartInv /\ Inv /\ loader \in Loader
        /\ consumer \in [pc : TaskPcs, cgid : CgroupIds \cup {NONE}]
        /\ watcher.current_cgroup_id \in CgroupIds /\ NONE \notin CgroupIds
    BY KernelAssumption, TrackingAssumption
    DEF TrackInv, TrackingTypeOK, TypeOK, WatcherTypeOK, Watcher, TaskPcs
  <1>1. CASE UNCHANGED allVars
    BY <1>1 DEF FilterInv, allVars, vars, watcherVars, trackingVars
  <1>2. CASE WatcherRuns \/ InspectFails
    <2>1. consumer.pc \notin {"load", "attach", "exited"}
      BY <1>2 DEF WatcherRuns, InspectFails
    <2>2. UNCHANGED <<CGROUPS, consumer, current_cgid>>
      BY <1>2 DEF WatcherRuns, InspectFails, vars, trackingVars
    <2>3. QED BY <2>1, <2>2 DEF FilterInv
  <1>3. CASE ContainerEvent
    <2>1. UNCHANGED <<CGROUPS, consumer, current_cgid, watcher>>
      BY <1>3 DEF ContainerEvent, RuntimeStep, ContainerStops, ContainerStarts, ContainerRemoved,
         ContainerRecreated, vars, trackingVars
    <2>2. QED BY <2>1 DEF FilterInv
  <1>4. CASE Load
    <2>1. loader.pc = "unloaded" /\ UNCHANGED <<CGROUPS, consumer, watcher>>
      BY <1>4 DEF Load, LoadPolicy, trackingVars, watcherVars
    <2>2. consumer.pc = "load"
      BY <1>0, <2>1 DEF TaskInv, Binding, TaskPcs
    <2>3. QED BY <2>1, <2>2 DEF FilterInv
  <1>5. CASE AttachProbes
    <2>1. /\ consumer.pc = "attach" /\ consumer' = [consumer EXCEPT !.pc = "recv"]
          /\ UNCHANGED <<CGROUPS, current_cgid>>
      BY <1>5 DEF AttachProbes, vars
    <2>2. consumer'.pc = "recv"
      BY <2>1, TaskMoves DEF TaskPcs
    <2>3. QED BY <2>1, <2>2 DEF FilterInv
  <1>6. CASE ReceiveStopped
    <2>1. UNCHANGED <<CGROUPS, consumer, current_cgid, watcher>>
      BY <1>6 DEF ReceiveStopped, vars, trackingVars
    <2>2. QED BY <2>1 DEF FilterInv
  <1>7. CASE ReceiveStarted
    <2>1. /\ consumer.pc = "recv" /\ UNCHANGED current_cgid
          /\ \/ /\ CGROUPS' = CGROUPS \ {current_cgid}
                /\ consumer' = [pc |-> "filter", cgid |-> Head(channel).cgroup_id]
             \/ UNCHANGED <<CGROUPS, consumer>>
      BY <1>7 DEF ReceiveStarted, Receive, vars
    <2>2. QED BY <2>1 DEF FilterInv
  <1>8. CASE UpdateFilter
    <2>1. /\ consumer.pc = "filter" /\ consumer' = [consumer EXCEPT !.pc = "call"]
          /\ CGROUPS' = IF Cardinality(CGROUPS) < FilterSize
                        THEN CGROUPS \cup {consumer.cgid} ELSE CGROUPS
      BY <1>8 DEF UpdateFilter
    <2>2. CGROUPS = {}
      BY <2>1 DEF FilterInv
    <2>3. Cardinality(CGROUPS) = 0
      BY <2>2, FS_EmptySet, Zenon
    <2>4. CGROUPS' = {consumer.cgid}
      BY <2>1, <2>2, <2>3, TrackingAssumption
    <2>5. consumer'.pc = "call" /\ consumer'.cgid = consumer.cgid
      BY <2>1, TaskMoves DEF TaskPcs
    <2>6. QED BY <2>4, <2>5 DEF FilterInv
  <1>9. CASE CallRebind
    <2>1. /\ consumer.pc = "call" /\ consumer' = [consumer EXCEPT !.pc = "rebind"]
          /\ UNCHANGED CGROUPS
      BY <1>9 DEF CallRebind
    <2>2. consumer'.pc = "rebind" /\ consumer'.cgid = consumer.cgid
      BY <2>1, TaskMoves DEF TaskPcs
    <2>3. QED BY <2>1, <2>2 DEF FilterInv
  <1>10. CASE BindRuns
    <2>1. UNCHANGED <<CGROUPS, consumer, current_cgid, watcher>>
      BY <1>0, <1>10, BindStepFacts DEF BindRuns, trackingVars, watcherVars
    <2>2. QED BY <2>1 DEF FilterInv
  <1>11. CASE BindEnds
    <2>1. /\ loader.pc \in {"ok", "err"} /\ UNCHANGED <<CGROUPS, watcher>>
          /\ consumer'.pc = IF loader'.pc = "exited" THEN "exited"
                            ELSE IF consumer.pc = "load" THEN "attach" ELSE "recv"
          /\ \/ loader' = [loader EXCEPT !.pc = "exited"]
             \/ current_cgid' = loader.cgid
      BY <1>11 DEF BindEnds, BindReturned, watcherVars
    <2>2. CASE loader' = [loader EXCEPT !.pc = "exited"]
      <3>1. loader'.pc = "exited"
        BY <1>0, <2>2 DEF Loader
      <3>2. QED BY <2>1, <3>1 DEF FilterInv
    <2>3. CASE current_cgid' = loader.cgid
      <3>1. consumer.pc \in {"load", "rebind"}
        BY <1>0, <2>1 DEF TaskInv, TaskPcs
      <3>2. CASE consumer.pc = "load"
        <4>1. current_cgid = watcher.current_cgroup_id /\ loader.cgid = current_cgid
          BY <1>0, <2>1, <3>2 DEF TaskInv, StartInv
        <4>2. QED BY <2>1, <2>3, <3>2, <4>1 DEF FilterInv
      <3>3. CASE consumer.pc = "rebind"
        <4>1. loader.cgid = consumer.cgid
          BY <1>0, <3>3 DEF TaskInv
        <4>2. QED BY <2>1, <2>3, <3>3, <4>1 DEF FilterInv
      <3>4. QED BY <3>1, <3>2, <3>3
    <2>4. QED BY <2>1, <2>2, <2>3
  <1>12. CASE ReceiveError
    <2>1. /\ consumer.pc = "recv" /\ consumer' = [consumer EXCEPT !.pc = "stopped"]
          /\ UNCHANGED <<CGROUPS, current_cgid>>
      BY <1>12 DEF ReceiveError, Receive, vars
    <2>2. consumer'.pc = "stopped"
      BY <2>1, TaskMoves DEF TaskPcs
    <2>3. QED BY <2>1, <2>2 DEF FilterInv
  <1>13. QED
    BY <1>1, <1>2, <1>3, <1>4, <1>5, <1>6, <1>7, <1>8, <1>9, <1>10, <1>11, <1>12
    DEF TrackingNext, ConsumerStep

LEMMA FilterInvHolds == TrackingSpec => []FilterInv
  <1>1. TrackingInit => FilterInv
    BY DEF TrackingInit, WatcherInit, FilterInv
  <1>2. TrackInv /\ FilterInv /\ [TrackingNext]_allVars => FilterInv'
    BY FilterNextInv
  <1>3. QED BY <1>1, <1>2, TrackInvHolds, PTL DEF TrackingSpec

(* Even when inserts fail, between messages the monitor watches the cgroup    *)
(* the task last moved to and no other: no stale id is left in CGROUPS and   *)
(* the new one always finds room.                                            *)
FilterOnCurrent == consumer.pc \in {"recv", "stopped"} => CGROUPS = {current_cgid}

THEOREM FilterFollowsTask == TrackingSpec => []FilterOnCurrent
  <1>1. FilterInv => FilterOnCurrent
    BY DEF FilterInv, FilterOnCurrent
  <1>2. QED BY <1>1, FilterInvHolds, PTL

(* As long as no insert fails, monitoring and enforcement watch the same      *)
(* single cgroup between messages, with its policy complete.  (A failed      *)
(* rebind moves the filter on and leaves the old cgroup's policy in place.)  *)
THEOREM FilterAgreesWithPolicy == TrackingSpec /\ []~InsertFails => []FilterMatchesPolicy
  <1>1. TrackingInit => AllowlistInv
    <2> SUFFICES ASSUME TrackingInit PROVE AllowlistInv OBVIOUS
    <2>1. Configured = {}
      BY DEF TrackingInit, Init, Configured
    <2>2. QED BY <2>1 DEF TrackingInit, Init, AllowlistInv
  <1>2. TrackInv /\ AllowlistInv /\ [TrackingNext]_allVars /\ ~InsertFails /\ ~InsertFails'
           => AllowlistInv'
    BY LoaderMoves, AllowlistNextInv DEF TrackInv
  <1>3. TrackInv /\ FilterInv /\ AllowlistInv => FilterMatchesPolicy
    BY DEF TrackInv, TaskInv, FilterInv, AllowlistInv, FilterMatchesPolicy
  <1>4. QED BY <1>1, <1>2, <1>3, TrackInvHolds, FilterInvHolds, PTL DEF TrackingSpec
=============================================================================
