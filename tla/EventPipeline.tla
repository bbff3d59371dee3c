---------------------------- MODULE EventPipeline ----------------------------
(***************************************************************************)
(* The way of an event from an eBPF program to the profile: the program    *)
(* builds the record in its CPU's allocator and writes it to the CPU's     *)
(* perf buffer; a reader task per CPU moves records into a bounded         *)
(* channel; one task decodes them and counts them in event_map; main       *)
(* exports the map on ctrl-c (manager.rs, events.rs, modules/bpf.rs and    *)
(* the second half of main).  The periodic export to events.json only      *)
(* reads the map and is left out.                                          *)
(*                                                                         *)
(* What the programs observe is left open: any program may run on any CPU  *)
(* once it is attached, and another one may run in the middle of it on the *)
(* same CPU (a packet program in a softirq, a probe of the task that       *)
(* preempted it).                                                          *)
(***************************************************************************)
EXTENDS PerCpuAllocator, BpfMaps, Sequences, FiniteSetsExt, Functions

CONSTANTS
    Events,        \* what programs may report: records with a field kind
    BufferSize,    \* records a perf buffer holds
    ReadBuffers,   \* records one read_events takes: 10
    ChannelSize,   \* 100
    Enforcing,     \* --enforce: no final export
    MaxPrograms,   \* bound: programs started
    MaxNesting     \* bound: programs active on a CPU

\* The fields from_raw takes from a record, as far as Eq or Hash look at them.
NetworkFields == {"kind", "src_ip", "dst_ip", "dst_port", "direction"}
FsFields == {"kind", "path", "inode", "r_w"}
ProcessFields == {"kind", "inode", "ps_type", "cgroup_id", "argv"}

\* What arrives in a perf buffer: the header and payload the heap entry held,
\* NONE while they are zero; by and cut are history.
Records == [header : {NONE} \cup {e.kind : e \in Events}, payload : {NONE} \cup Events,
            by : Events, cut : BOOLEAN]

ASSUME PipeAssumption ==
    /\ IsFiniteSet(Cpus) /\ NONE \notin Seq(Records)
    /\ BufferSize \in Nat \ {0} /\ ReadBuffers \in Nat \ {0} /\ ChannelSize \in Nat \ {0}
    /\ Enforcing \in BOOLEAN
    /\ MaxPrograms \in Nat /\ MaxNesting \in Nat

\* The fields have fixed widths, so there are finitely many events.
ASSUME EventAssumption ==
    /\ IsFiniteSet(Events)
    /\ \A e \in Events : /\ e.kind \in {"Network", "Fs", "Process"}
                          /\ DOMAIN e = [Network |-> NetworkFields, Fs |-> FsFields,
                                         Process |-> ProcessFields][e.kind]

VARIABLES
    prog,          \* CPU -> stack of active programs, the running one last
    unopened,      \* CPUs whose perf buffer is still to be opened
    ready,         \* listen_all_events has sent ready
    attached,      \* main has attached the probes
    buffers,       \* CPU -> records in its perf buffer; NONE without one
    batch,         \* CPU -> records read, not yet sent to the channel
    channel,
    event_map,     \* event -> frequency
    exported,      \* final-events.json; NONE before ctrl-c
    running,
    hist           \* history: what became of the records

pipeVars == <<allocVars, prog, unopened, ready, attached, buffers, batch, channel,
              event_map, exported, running, hist>>

-----------------------------------------------------------------------------
(* Identity of events (events.rs). *)

\* PartialEq and Hash of each type.
NetworkEq(e, f) == e.dst_ip = f.dst_ip /\ e.dst_port = f.dst_port /\ e.direction = f.direction
NetworkHash(e) == <<e.src_ip, e.dst_ip, e.dst_port>>

FsEq(e, f) == e.path = f.path /\ e.inode = f.inode /\ e.r_w = f.r_w
FsHash(e) == <<e.path, e.inode, e.r_w>>

ProcessEq(e, f) == e.inode = f.inode /\ e.ps_type = f.ps_type /\ e.cgroup_id = f.cgroup_id
ProcessHash(e) == <<e.inode, e.ps_type, e.cgroup_id, e.argv>>

SameEvent(e, f) ==
    /\ e.kind = f.kind
    /\ CASE e.kind = "Network" -> NetworkEq(e, f)
         [] e.kind = "Fs"      -> FsEq(e, f)
         [] e.kind = "Process" -> ProcessEq(e, f)

\* What is hashed: not the fields that are compared.
HashFields(e) ==
    CASE e.kind = "Network" -> NetworkHash(e)
      [] e.kind = "Fs"      -> FsHash(e)
      [] e.kind = "Process" -> ProcessHash(e)

\* Mutant: entries are told apart by hash alone.
EntriesForByHash(e) ==
    LET hit == {k \in DOMAIN event_map : k.kind = e.kind /\ HashFields(k) = HashFields(e)}
    IN  IF hit # {} THEN hit ELSE {e}

\* The keys event_map.entry(e) may yield.  An equal key is found for sure if it
\* hashes alike; one that hashes differently is met only if the probe sequences
\* happen to cross.
EntriesFor(e) ==
    LET equal == {k \in DOMAIN event_map : SameEvent(k, e)}
    IN  IF \E k \in equal : HashFields(k) = HashFields(e) THEN equal ELSE equal \cup {e}

\* A larger record may be decoded as a smaller one, not the other way round.
SizeOf == [Network |-> 1, Fs |-> 2, Process |-> 3]

\* event_type of a record: a zeroed header reads as InetOut.
TypeOf(rec) == IF rec.header = NONE THEN "Network" ELSE rec.header

\* transform_event: what a record may be decoded as, {} if it is refused.  The
\* payload of one type read as another is some event of that type.
transform_event(rec) ==
    IF SizeOf[rec.by.kind] < SizeOf[TypeOf(rec)] THEN {}
    ELSE IF rec.payload # NONE /\ rec.payload.kind = TypeOf(rec) THEN {rec.payload}
    ELSE {e \in Events : e.kind = TypeOf(rec)}

-----------------------------------------------------------------------------
PipeInit ==
    /\ AllocInit
    /\ prog = [c \in Cpus |-> <<>>]
    /\ unopened = Cpus /\ ready = FALSE /\ attached = FALSE
    /\ buffers = [c \in Cpus |-> NONE]
    /\ batch = [c \in Cpus |-> <<>>]
    /\ channel = <<>>
    /\ event_map = <<>> /\ exported = NONE
    /\ running = TRUE
    /\ hist = [started |-> 0, refused |-> 0, starved |-> 0, lost |-> 0, rejected |-> 0,
               emitted |-> 0, unheard |-> [c \in Cpus |-> 0], counted |-> [e \in Events |-> 0]]

-----------------------------------------------------------------------------
(* A program: init, alloc_zero, event.init, payload, alloc_zero for the       *)
(* identity, pipe_event.  A network program has its identity on the stack;   *)
(* docker_proxy_connect, alone, does not call init.                          *)

Top(cpu) == prog[cpu][Len(prog[cpu])]
At(cpu, pc) == running /\ prog[cpu] # <<>> /\ Top(cpu).pc = pc
Goto(cpu, pc) == prog' = [prog EXCEPT ![cpu][Len(prog[cpu])].pc = pc]
Pop(cpu) == prog' = [prog EXCEPT ![cpu] = SubSeq(@, 1, Len(@) - 1)]

\* The program under a new one is cut into if it holds a buffer at that point.
\* sure is history: the program, and every one that ran on top of it so far,
\* resets the allocator.
Cut(stack, resets) ==
    [i \in DOMAIN stack |->
        [stack[i] EXCEPT !.cut = @ \/ stack[i].pc \in {"header", "payload", "identity", "pipe"},
                         !.sure = @ /\ resets]]

StartProgram(cpu, e, resets) ==
    /\ running /\ attached
    /\ hist.started < MaxPrograms /\ Len(prog[cpu]) < MaxNesting
    /\ resets \/ e.kind = "Network"
    /\ prog' = [prog EXCEPT ![cpu] =
                   Append(Cut(@, resets), [pc |-> IF resets THEN "init" ELSE "alloc", ev |-> e,
                                           slot |-> 0, cut |-> FALSE, sure |-> resets])]
    /\ hist' = [hist EXCEPT !.started = @ + 1]
    /\ UNCHANGED <<allocVars, unopened, ready, attached, buffers, batch, channel, event_map,
                   exported, running>>

InitAllocator(cpu) ==
    /\ At(cpu, "init")
    /\ init(cpu)
    /\ Goto(cpu, "alloc")
    /\ UNCHANGED <<unopened, ready, attached, buffers, batch, channel, event_map, exported,
                   running, hist>>

\* The buffer of the event, or of the dedup identity; without one the program
\* returns.
Alloc(cpu) ==
    /\ At(cpu, "alloc") \/ At(cpu, "identity")
    /\ IF CanAlloc(cpu)
       THEN /\ alloc_zero(cpu)
            /\ IF Top(cpu).pc = "identity" THEN Goto(cpu, "pipe")
               ELSE prog' = [prog EXCEPT ![cpu][Len(prog[cpu])].pc = "header",
                                         ![cpu][Len(prog[cpu])].slot = i_next[cpu]]
            /\ UNCHANGED hist
       ELSE /\ Pop(cpu)
            /\ hist' = IF Top(cpu).sure THEN [hist EXCEPT !.refused = @ + 1]
                       ELSE [hist EXCEPT !.starved = @ + 1]
            /\ UNCHANGED allocVars
    /\ UNCHANGED <<unopened, ready, attached, buffers, batch, channel, event_map, exported,
                   running>>

Fill(cpu) ==
    /\ \/ /\ At(cpu, "header")
          /\ HEAP' = [HEAP EXCEPT ![cpu][Top(cpu).slot].header = Top(cpu).ev.kind]
          /\ Goto(cpu, "payload")
       \/ /\ At(cpu, "payload")
          /\ HEAP' = [HEAP EXCEPT ![cpu][Top(cpu).slot].payload = Top(cpu).ev]
          /\ Goto(cpu, IF Top(cpu).ev.kind = "Network" THEN "pipe" ELSE "identity")
    /\ UNCHANGED <<i_next, unopened, ready, attached, buffers, batch, channel, event_map,
                   exported, running, hist>>

\* pipe_event: no buffer on this CPU, a full one, or one record more.
pipe_event(cpu) ==
    /\ At(cpu, "pipe")
    /\ LET built == HEAP[cpu][Top(cpu).slot]
           rec  == [header |-> built.header, payload |-> built.payload,
                    by |-> Top(cpu).ev, cut |-> Top(cpu).cut]
           sent == [hist EXCEPT !.emitted = @ + 1]
       IN  IF buffers[cpu] = NONE
           THEN hist' = [sent EXCEPT !.unheard[cpu] = @ + 1] /\ UNCHANGED buffers
           ELSE IF Len(buffers[cpu]) = BufferSize
           THEN hist' = [sent EXCEPT !.lost = @ + 1] /\ UNCHANGED buffers
           ELSE hist' = sent /\ buffers' = [buffers EXCEPT ![cpu] = Append(@, rec)]
    /\ Pop(cpu)
    /\ UNCHANGED <<allocVars, unopened, ready, attached, batch, channel, event_map, exported,
                   running>>

ProgramStep(cpu) == InitAllocator(cpu) \/ Alloc(cpu) \/ Fill(cpu) \/ pipe_event(cpu)

-----------------------------------------------------------------------------
(* listen_all_events and main. *)

\* An open that fails is logged and the CPU stays without a buffer.
OpenBuffer(cpu) ==
    /\ running /\ cpu \in unopened
    /\ unopened' = unopened \ {cpu}
    /\ \/ buffers' = [buffers EXCEPT ![cpu] = <<>>]
       \/ UNCHANGED buffers
    /\ UNCHANGED <<allocVars, prog, ready, attached, batch, channel, event_map, exported,
                   running, hist>>

SignalReady ==
    /\ running /\ unopened = {} /\ ~ready
    /\ ready' = TRUE
    /\ UNCHANGED <<allocVars, prog, unopened, attached, buffers, batch, channel, event_map,
                   exported, running, hist>>

\* Mutant: main attaches without waiting for the readers.
AttachEarly ==
    /\ running /\ ~attached
    /\ attached' = TRUE
    /\ UNCHANGED <<allocVars, prog, unopened, ready, buffers, batch, channel, event_map,
                   exported, running, hist>>

Attach ==
    /\ running /\ ready /\ ~attached
    /\ attached' = TRUE
    /\ UNCHANGED <<allocVars, prog, unopened, ready, buffers, batch, channel, event_map,
                   exported, running, hist>>

\* Mutant: the reader waits for a full batch.
ReadFullBatch(cpu) ==
    /\ running /\ ready /\ batch[cpu] = <<>>
    /\ buffers[cpu] # NONE /\ Len(buffers[cpu]) >= ReadBuffers
    /\ batch' = [batch EXCEPT ![cpu] = SubSeq(buffers[cpu], 1, ReadBuffers)]
    /\ buffers' = [buffers EXCEPT ![cpu] = SubSeq(@, ReadBuffers + 1, Len(@))]
    /\ UNCHANGED <<allocVars, prog, unopened, ready, attached, channel, event_map, exported,
                   running, hist>>

\* read_events of the reader task; records lost meanwhile are only logged.
Read(cpu) ==
    /\ running /\ ready /\ batch[cpu] = <<>>
    /\ buffers[cpu] \notin {NONE, <<>>}
    /\ LET n == Min({ReadBuffers, Len(buffers[cpu])})
       IN  /\ batch' = [batch EXCEPT ![cpu] = SubSeq(buffers[cpu], 1, n)]
           /\ buffers' = [buffers EXCEPT ![cpu] = SubSeq(@, n + 1, Len(@))]
    /\ UNCHANGED <<allocVars, prog, unopened, ready, attached, channel, event_map, exported,
                   running, hist>>

\* Mutant: try_send in place of send.
SendOrDrop(cpu) ==
    /\ running /\ batch[cpu] # <<>>
    /\ channel' = IF Len(channel) < ChannelSize THEN Append(channel, Head(batch[cpu]))
                  ELSE channel
    /\ batch' = [batch EXCEPT ![cpu] = Tail(@)]
    /\ UNCHANGED <<allocVars, prog, unopened, ready, attached, buffers, event_map, exported,
                   running, hist>>

\* Mutant: an unbounded channel.
SendUnbounded(cpu) ==
    /\ running /\ batch[cpu] # <<>>
    /\ channel' = Append(channel, Head(batch[cpu]))
    /\ batch' = [batch EXCEPT ![cpu] = Tail(@)]
    /\ UNCHANGED <<allocVars, prog, unopened, ready, attached, buffers, event_map, exported,
                   running, hist>>

\* The reader task sends one record; it waits while the channel is full.
SendRecord(cpu) ==
    /\ running /\ batch[cpu] # <<>>
    /\ Len(channel) < ChannelSize
    /\ channel' = Append(channel, Head(batch[cpu]))
    /\ batch' = [batch EXCEPT ![cpu] = Tail(@)]
    /\ UNCHANGED <<allocVars, prog, unopened, ready, attached, buffers, event_map, exported,
                   running, hist>>

\* simple_event_reader: one record, decoded and counted under the map's lock.
CountEvent ==
    /\ running /\ channel # <<>>
    /\ channel' = Tail(channel)
    /\ LET found == transform_event(Head(channel))
       IN  \/ /\ found = {}
              /\ hist' = [hist EXCEPT !.rejected = @ + 1]
              /\ UNCHANGED event_map
           \/ \E e \in found : \E k \in EntriesFor(e) :
              /\ event_map' = Put(event_map, k,
                                  IF k \in DOMAIN event_map THEN event_map[k] + 1 ELSE 1)
              /\ hist' = [hist EXCEPT !.counted[e] = @ + 1]
    /\ UNCHANGED <<allocVars, prog, unopened, ready, attached, buffers, batch, exported, running>>

\* The final export and the end of main: tasks, buffers and probes go with it.
CtrlC ==
    /\ running /\ attached
    /\ exported' = IF Enforcing THEN exported ELSE event_map
    /\ running' = FALSE
    /\ UNCHANGED <<allocVars, prog, unopened, ready, attached, buffers, batch, channel,
                   event_map, hist>>

PipeNext ==
    \/ \E cpu \in Cpus : \/ \E e \in Events, resets \in BOOLEAN : StartProgram(cpu, e, resets)
                         \/ ProgramStep(cpu)
                         \/ OpenBuffer(cpu) \/ Read(cpu) \/ SendRecord(cpu)
    \/ SignalReady \/ Attach \/ CountEvent \/ CtrlC

\* The tokio tasks make progress; nothing is assumed of programs and of ctrl-c.
PipeSpec ==
    /\ PipeInit /\ [][PipeNext]_pipeVars
    /\ \A cpu \in Cpus : WF_pipeVars(Read(cpu)) /\ WF_pipeVars(SendRecord(cpu))
    /\ WF_pipeVars(CountEvent)

-----------------------------------------------------------------------------
Buffered(cpu) == IF buffers[cpu] = NONE THEN <<>> ELSE buffers[cpu]

\* How many records are on their way from a program to event_map.
Waiting == [cpu \in Cpus |-> Len(Buffered(cpu)) + Len(batch[cpu])]
InFlightCount == Len(channel) + SumFunction(Waiting)

Frames == [pc : {"init", "alloc", "header", "payload", "identity", "pipe"}, ev : Events,
           slot : 0..(MAX_ALLOCS - 1), cut : BOOLEAN, sure : BOOLEAN]

PipeTypeOK ==
    /\ \A cpu \in Cpus :
          /\ i_next[cpu] \in 0..MAX_ALLOCS
          /\ prog[cpu] \in Seq(Frames) /\ Len(prog[cpu]) <= MaxNesting
          /\ Len(Buffered(cpu)) <= BufferSize /\ Len(batch[cpu]) <= ReadBuffers
    /\ Len(channel) <= ChannelSize
    /\ DOMAIN event_map \subseteq Events
    /\ \A e \in DOMAIN event_map : event_map[e] \in Nat \ {0}

(* No record is dropped for want of a perf buffer but on a CPU whose buffer   *)
(* could not be opened: probes are attached only after ready.  Such a drop   *)
(* is not counted as lost and nobody learns of it.                           *)
NoRecordUnheard ==
    \A cpu \in Cpus : hist.unheard[cpu] > 0 => buffers[cpu] = NONE

(* Every record a program piped is accounted for: it met no buffer or a full  *)
(* one, is on its way, was refused by transform_event, or is in a frequency  *)
(* of the profile; after ctrl-c, of the exported profile.  Records still on   *)
(* their way at ctrl-c are what the final export misses.                     *)
EveryRecordAccounted ==
    hist.emitted = hist.lost + SumFunction(hist.unheard) + InFlightCount + hist.rejected
                   + SumFunction(IF running \/ Enforcing THEN event_map ELSE exported)

(* Frequencies add up event by event: however the entries of equal events     *)
(* are split (Hash looks at fields PartialEq ignores), together they count   *)
(* the events decoded as equal to them, and no others.                       *)
FrequenciesAddUp ==
    \A e \in Events :
        LET equal == {f \in Events : SameEvent(e, f)}
        IN  SumFunctionOnSet(event_map, equal \cap DOMAIN event_map)
            = SumFunctionOnSet(hist.counted, equal)

(* A record is the event its program reported, header and payload, unless     *)
(* another program ran on the same CPU while it held its buffer.             *)
RecordIsOwn ==
    \A cpu \in Cpus : \A i \in DOMAIN Buffered(cpu) :
        LET rec == buffers[cpu][i]
        IN  ~rec.cut => rec.header = rec.by.kind /\ rec.payload = rec.by

(* The allocator is dry for none of the programs that reset it: whatever ran  *)
(* before on the CPU, and with programs cutting into each other, each gets   *)
(* the buffers it asks for.  Two are excepted: docker_proxy_connect, which   *)
(* allocates without init and goes on where the last program stopped, and a  *)
(* program that it cut into, from which it takes entries.                    *)
AllocatorSuffices == hist.refused = 0

(* The queues drain: a record that is in a perf buffer reaches event_map (or  *)
(* is refused) unless the program ends first; no task waits for ever on a    *)
(* full channel.                                                             *)
RecordsDelivered == <>[](InFlightCount = 0 \/ ~running)
=============================================================================
