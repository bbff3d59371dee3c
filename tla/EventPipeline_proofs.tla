-------------------------- MODULE EventPipeline_proofs --------------------------
(***************************************************************************)
(* Theorems about the event pipeline, for every number of CPUs, all events *)
(* and all sizes of heap, perf buffers, batches and channel.               *)
(***************************************************************************)
EXTENDS EventPipeline, SequenceTheorems, FiniteSetTheorems, TLAPS

Slots == 0..(MAX_ALLOCS - 1)

\* What an entry of HEAP may hold.
Cells == [header : {NONE} \cup {e.kind : e \in Events}, payload : {NONE} \cup Events]

Histories ==
    [started : Nat, refused : Nat, starved : Nat, lost : Nat, rejected : Nat, emitted : Nat,
     unheard : [Cpus -> Nat], counted : [Events -> Nat]]

AllocTypes ==
    /\ i_next \in [Cpus -> 0..MAX_ALLOCS]
    /\ HEAP \in [Cpus -> [Slots -> Cells]]

ProgTypes ==
    /\ prog \in [Cpus -> Seq(Frames)]
    /\ \A cpu \in Cpus : Len(prog[cpu]) <= MaxNesting

QueueTypes ==
    /\ buffers \in [Cpus -> {NONE} \cup Seq(Records)]
    /\ batch \in [Cpus -> Seq(Records)]
    /\ \A cpu \in Cpus : /\ buffers[cpu] # NONE => Len(buffers[cpu]) <= BufferSize
                         /\ Len(batch[cpu]) <= ReadBuffers
    /\ channel \in Seq(Records) /\ Len(channel) <= ChannelSize

CountTypes ==
    /\ DOMAIN event_map \subseteq Events
    /\ \A e \in DOMAIN event_map : event_map[e] \in Nat \ {0}
    /\ hist \in Histories

PipeTypes == AllocTypes /\ ProgTypes /\ QueueTypes /\ CountTypes /\ unopened \subseteq Cpus

-----------------------------------------------------------------------------
(* What happens to the stack of programs. *)

\* Nothing but the stack of cpu changes.
Only(cpu) ==
    /\ prog' \in [Cpus -> Seq(Frames)]
    /\ \A c \in Cpus : c # cpu => prog'[c] = prog[c]

\* The running program goes on with frame g.
Steps(cpu, g) ==
    LET n == Len(prog[cpu])
    IN  /\ Only(cpu) /\ Len(prog'[cpu]) = n /\ prog'[cpu][n] = g
        /\ \A i \in 1..(n - 1) : prog'[cpu][i] = prog[cpu][i]

\* The running program ends.
Ends(cpu) ==
    LET n == Len(prog[cpu])
    IN  /\ Only(cpu) /\ Len(prog'[cpu]) = n - 1
        /\ \A i \in 1..(n - 1) : prog'[cpu][i] = prog[cpu][i]

LEMMA TopFacts ==
    ASSUME PipeTypes, NEW cpu \in Cpus, prog[cpu] # <<>>
    PROVE  /\ Len(prog[cpu]) \in Nat \ {0} /\ prog[cpu] \in Seq(Frames)
           /\ Top(cpu) = prog[cpu][Len(prog[cpu])] /\ Top(cpu) \in Frames
  <1>1. prog[cpu] \in Seq(Frames)
    BY DEF PipeTypes, ProgTypes
  <1>2. Len(prog[cpu]) \in Nat /\ Len(prog[cpu]) # 0
    BY <1>1, EmptySeq
  <1>3. QED BY <1>1, <1>2, ElementOfSeq DEF Top

LEMMA StepsFacts ==
    ASSUME PipeTypes, NEW cpu \in Cpus, prog[cpu] # <<>>, NEW g \in Frames,
           prog' = [prog EXCEPT ![cpu] = [prog[cpu] EXCEPT ![Len(prog[cpu])] = g]]
    PROVE  Steps(cpu, g)
  <1> DEFINE n == Len(prog[cpu])
             s == [prog[cpu] EXCEPT ![n] = g]
  <1>1. n \in 1..n /\ n \in Nat /\ prog[cpu] \in Seq(Frames)
    BY TopFacts
  <1>2. /\ s \in Seq(Frames) /\ Len(s) = n
        /\ \A j \in 1..n : s[j] = IF j = n THEN g ELSE prog[cpu][j]
    BY <1>1, ExceptSeq
  <1>3. prog' = [prog EXCEPT ![cpu] = s] /\ prog \in [Cpus -> Seq(Frames)]
    BY DEF PipeTypes, ProgTypes
  <1> HIDE DEF s
  <1>4. Only(cpu) /\ prog'[cpu] = s
    BY <1>2, <1>3 DEF Only
  <1>5. QED BY <1>1, <1>2, <1>4 DEF Steps

LEMMA EndsFacts ==
    ASSUME PipeTypes, NEW cpu \in Cpus, prog[cpu] # <<>>, Pop(cpu)
    PROVE  Ends(cpu)
  <1> DEFINE n == Len(prog[cpu])
             s == SubSeq(prog[cpu], 1, n - 1)
  <1>1. n \in Nat \ {0} /\ prog[cpu] \in Seq(Frames)
    BY TopFacts
  <1>2. \A i \in 1..(n - 1) : prog[cpu][i] \in Frames
    BY <1>1, ElementOfSeq
  <1>3. /\ s \in Seq(Frames) /\ Len(s) = n - 1
        /\ \A i \in 1..(n - 1) : s[i] = prog[cpu][i]
    BY <1>1, <1>2, SubSeqProperties
  <1>4. prog' = [prog EXCEPT ![cpu] = s] /\ prog \in [Cpus -> Seq(Frames)]
    BY DEF PipeTypes, ProgTypes, Pop
  <1> HIDE DEF s
  <1>5. Only(cpu) /\ prog'[cpu] = s
    BY <1>3, <1>4 DEF Only
  <1>6. QED BY <1>1, <1>3, <1>5 DEF Ends

Pcs == {"init", "alloc", "header", "payload", "identity", "pipe"}

LEMMA GotoFacts ==
    ASSUME PipeTypes, NEW cpu \in Cpus, prog[cpu] # <<>>, NEW pc \in Pcs, Goto(cpu, pc)
    PROVE  \E g \in Frames :
              /\ Steps(cpu, g) /\ g.pc = pc /\ g.ev = Top(cpu).ev /\ g.slot = Top(cpu).slot
              /\ g.cut = Top(cpu).cut /\ g.sure = Top(cpu).sure
  <1> DEFINE top == prog[cpu][Len(prog[cpu])]
             g == [top EXCEPT !.pc = pc]
  <1>1. top \in Frames /\ top = Top(cpu)
    BY TopFacts
  <1>2. prog' = [prog EXCEPT ![cpu] = [prog[cpu] EXCEPT ![Len(prog[cpu])] = g]]
    BY DEF Goto
  <1> HIDE DEF top
  <1>3. /\ g \in Frames /\ g.pc = pc /\ g.ev = top.ev /\ g.slot = top.slot /\ g.cut = top.cut
        /\ g.sure = top.sure
    BY <1>1 DEF Frames, Pcs
  <1> HIDE DEF g
  <1>4. Steps(cpu, g)
    BY <1>2, <1>3, StepsFacts
  <1>5. QED BY <1>1, <1>3, <1>4

\* Programs that hold a buffer.
Holding == {"header", "payload", "identity", "pipe"}

\* The frame of a program that reports e.
Fresh(e, resets) ==
    [pc |-> IF resets THEN "init" ELSE "alloc", ev |-> e, slot |-> 0, cut |-> FALSE,
     sure |-> resets]

\* Frame g under a program that starts: f.
CutFrom(f, g, resets) ==
    /\ f.pc = g.pc /\ f.cut = (g.cut \/ g.pc \in Holding) /\ f.sure = (g.sure /\ resets)

\* A program starts on top of the others, which are cut into.
Starts(cpu, e, resets) ==
    LET n == Len(prog[cpu])
    IN  /\ Only(cpu) /\ Len(prog'[cpu]) = n + 1
        /\ prog'[cpu][n + 1] = Fresh(e, resets)
        /\ \A i \in 1..n : CutFrom(prog'[cpu][i], prog[cpu][i], resets)

LEMMA CutFacts ==
    ASSUME NEW s \in Seq(Frames), NEW resets \in BOOLEAN
    PROVE  /\ Cut(s, resets) \in Seq(Frames) /\ Len(Cut(s, resets)) = Len(s)
           /\ \A i \in 1..Len(s) : CutFrom(Cut(s, resets)[i], s[i], resets)
  <1>1. DOMAIN s = 1..Len(s) /\ Len(s) \in Nat
    OBVIOUS
  <1> DEFINE r(i) == [s[i] EXCEPT !.cut = @ \/ s[i].pc \in {"header", "payload", "identity", "pipe"},
                                  !.sure = @ /\ resets]
  <1>2. ASSUME NEW i \in 1..Len(s)
        PROVE  r(i) \in Frames /\ CutFrom(r(i), s[i], resets)
    <2>1. s[i] \in Frames
      BY ElementOfSeq
    <2>2. s[i].cut \in BOOLEAN /\ s[i].sure \in BOOLEAN
      BY <2>1 DEF Frames
    <2> DEFINE b == s[i].cut \/ s[i].pc \in Holding
               d == s[i].sure /\ resets
    <2>3. r(i) = [s[i] EXCEPT !.cut = b, !.sure = d] /\ b \in BOOLEAN /\ d \in BOOLEAN
      BY <2>2 DEF Holding
    <2> HIDE DEF b, d
    <2>4. r(i) \in Frames /\ r(i).pc = s[i].pc /\ r(i).cut = b /\ r(i).sure = d
      BY <2>1, <2>3 DEF Frames
    <2>5. QED BY <2>4 DEF b, d, CutFrom
  <1>3. Cut(s, resets) = [i \in 1..Len(s) |-> r(i)]
    BY <1>1 DEF Cut
  <1> HIDE DEF r
  <1>4. Cut(s, resets) \in [1..Len(s) -> Frames]
    BY <1>2, <1>3
  <1>5. Cut(s, resets) \in Seq(Frames) /\ Len(Cut(s, resets)) = Len(s)
    BY <1>1, <1>4
  <1>6. QED BY <1>2, <1>3, <1>5

LEMMA StartStep ==
    ASSUME PipeTypes, NEW cpu \in Cpus, NEW e \in Events, NEW resets \in BOOLEAN,
           StartProgram(cpu, e, resets)
    PROVE  /\ Starts(cpu, e, resets) /\ attached /\ Len(prog[cpu]) < MaxNesting
           /\ hist' = [hist EXCEPT !.started = @ + 1]
           /\ UNCHANGED <<allocVars, unopened, ready, attached, buffers, batch, channel,
                          event_map, exported, running>>
  <1> DEFINE g == Fresh(e, resets)
             s == Cut(prog[cpu], resets)
             r == Append(s, g)
             n == Len(prog[cpu])
  <1>1. prog \in [Cpus -> Seq(Frames)] /\ prog[cpu] \in Seq(Frames) /\ n \in Nat
    BY DEF PipeTypes, ProgTypes
  <1>2. /\ s \in Seq(Frames) /\ Len(s) = n
        /\ \A i \in 1..n : CutFrom(s[i], prog[cpu][i], resets)
    BY <1>1, CutFacts
  <1>3. g \in Frames
    BY AllocAssumption DEF Frames, Fresh
  <1>4. prog' = [prog EXCEPT ![cpu] = r]
    BY DEF StartProgram, Fresh
  <1> HIDE DEF s, g
  <1>5. /\ r \in Seq(Frames) /\ Len(r) = n + 1 /\ r[n + 1] = g
        /\ \A i \in 1..n : r[i] = s[i]
    BY <1>1, <1>2, <1>3, AppendProperties
  <1> HIDE DEF r
  <1>6. Only(cpu) /\ prog'[cpu] = r
    BY <1>1, <1>4, <1>5 DEF Only
  <1>7. Starts(cpu, e, resets)
    <2>1. \A i \in 1..n : CutFrom(prog'[cpu][i], prog[cpu][i], resets)
      BY <1>2, <1>5, <1>6
    <2>2. QED BY <1>5, <1>6, <2>1 DEF Starts, g
  <1>8. QED BY <1>7 DEF StartProgram

LEMMA InitStep ==
    ASSUME PipeTypes, NEW cpu \in Cpus, InitAllocator(cpu)
    PROVE  /\ prog[cpu] # <<>> /\ Top(cpu).pc = "init"
           /\ i_next' = [i_next EXCEPT ![cpu] = 0]
           /\ \E g \in Frames : Steps(cpu, g) /\ g.pc = "alloc" /\ g.sure = Top(cpu).sure
           /\ UNCHANGED <<HEAP, unopened, ready, attached, buffers, batch, channel, event_map,
                          exported, running, hist>>
  <1>1. prog[cpu] # <<>> /\ Top(cpu).pc = "init" /\ Goto(cpu, "alloc")
    BY DEF InitAllocator, At
  <1>2. \E g \in Frames : Steps(cpu, g) /\ g.pc = "alloc" /\ g.sure = Top(cpu).sure
    BY <1>1, GotoFacts DEF Pcs
  <1>3. QED BY <1>1, <1>2 DEF InitAllocator, init

(* The entry a program gets is zeroed, the others stay. *)
LEMMA AllocZero ==
    ASSUME PipeTypes, NEW cpu \in Cpus, CanAlloc(cpu), alloc_zero(cpu)
    PROVE  /\ i_next[cpu] \in Slots /\ AllocTypes'
           /\ i_next'[cpu] = i_next[cpu] + 1
           /\ \A k \in Slots : k # i_next[cpu] => HEAP'[cpu][k] = HEAP[cpu][k]
           /\ \A c \in Cpus : c # cpu => i_next'[c] = i_next[c] /\ HEAP'[c] = HEAP[c]
  <1>1. /\ i_next \in [Cpus -> 0..MAX_ALLOCS] /\ HEAP \in [Cpus -> [Slots -> Cells]]
        /\ i_next[cpu] # MAX_ALLOCS
    BY DEF PipeTypes, AllocTypes, CanAlloc
  <1>2. i_next[cpu] \in Slots /\ i_next[cpu] + 1 \in 0..MAX_ALLOCS
    BY <1>1, AllocAssumption DEF Slots
  <1>3. Zeros \in Cells
    BY DEF Zeros, Cells
  <1> DEFINE h == [HEAP[cpu] EXCEPT ![i_next[cpu]] = Zeros]
  <1>4. /\ HEAP' = [HEAP EXCEPT ![cpu] = h]
        /\ i_next' = [i_next EXCEPT ![cpu] = i_next[cpu] + 1]
    BY <1>1 DEF alloc_zero
  <1>5. h \in [Slots -> Cells] /\ \A k \in Slots : k # i_next[cpu] => h[k] = HEAP[cpu][k]
    BY <1>1, <1>2, <1>3
  <1> HIDE DEF h
  <1>6. QED BY <1>1, <1>2, <1>4, <1>5 DEF AllocTypes

LEMMA AllocStep ==
    ASSUME PipeTypes, NEW cpu \in Cpus, Alloc(cpu)
    PROVE  /\ prog[cpu] # <<>> /\ Top(cpu).pc \in {"alloc", "identity"}
           /\ UNCHANGED <<unopened, ready, attached, buffers, batch, channel, event_map, exported,
                          running>>
           /\ \/ /\ CanAlloc(cpu) /\ alloc_zero(cpu) /\ UNCHANGED hist
                 /\ \E g \in Frames :
                       /\ Steps(cpu, g) /\ g.ev = Top(cpu).ev /\ g.cut = Top(cpu).cut
                       /\ g.sure = Top(cpu).sure
                       /\ \/ /\ Top(cpu).pc = "alloc"
                             /\ g.pc = "header" /\ g.slot = i_next[cpu]
                          \/ /\ Top(cpu).pc = "identity"
                             /\ g.pc = "pipe" /\ g.slot = Top(cpu).slot
              \/ /\ ~CanAlloc(cpu) /\ Ends(cpu) /\ UNCHANGED allocVars
                 /\ \/ Top(cpu).sure /\ hist' = [hist EXCEPT !.refused = @ + 1]
                    \/ ~Top(cpu).sure /\ hist' = [hist EXCEPT !.starved = @ + 1]
  <1>1. /\ prog[cpu] # <<>> /\ Top(cpu).pc \in {"alloc", "identity"}
        /\ UNCHANGED <<unopened, ready, attached, buffers, batch, channel, event_map, exported,
                       running>>
    BY DEF Alloc, At
  <1>2. CASE ~CanAlloc(cpu)
    BY <1>1, <1>2, EndsFacts DEF Alloc
  <1>3. CASE CanAlloc(cpu) /\ Top(cpu).pc = "identity"
    <2>1. alloc_zero(cpu) /\ Goto(cpu, "pipe") /\ UNCHANGED hist
      BY <1>3 DEF Alloc
    <2>2. QED BY <1>1, <1>3, <2>1, GotoFacts DEF Pcs
  <1>4. CASE CanAlloc(cpu) /\ Top(cpu).pc = "alloc"
    <2> DEFINE n == Len(prog[cpu])
               top == prog[cpu][n]
               g == [top EXCEPT !.pc = "header", !.slot = i_next[cpu]]
    <2>1. alloc_zero(cpu) /\ UNCHANGED hist
      BY <1>4 DEF Alloc
    <2>2. n \in 1..n /\ prog[cpu] \in Seq(Frames) /\ top \in Frames /\ top = Top(cpu)
      BY <1>1, TopFacts
    <2>3. prog' = [prog EXCEPT ![cpu][n].pc = "header", ![cpu][n].slot = i_next[cpu]]
      BY <1>4 DEF Alloc
    <2>4. prog' = [prog EXCEPT ![cpu] = [prog[cpu] EXCEPT ![n] = g]]
      BY <2>2, <2>3 DEF PipeTypes, ProgTypes
    <2>5. i_next[cpu] \in Slots
      BY <1>4, <2>1, AllocZero
    <2> HIDE DEF top
    <2>6. /\ g \in Frames /\ g.pc = "header" /\ g.slot = i_next[cpu] /\ g.ev = top.ev
          /\ g.cut = top.cut /\ g.sure = top.sure
      BY <2>2, <2>5 DEF Frames, Slots
    <2> HIDE DEF g
    <2>7. Steps(cpu, g)
      BY <1>1, <2>4, <2>6, StepsFacts
    <2>8. QED BY <1>1, <1>4, <2>1, <2>2, <2>6, <2>7
  <1>5. QED BY <1>1, <1>2, <1>3, <1>4

(* The buffer of the running program is filled, the others stay. *)
LEMMA FillStep ==
    ASSUME PipeTypes, NEW cpu \in Cpus, Fill(cpu)
    PROVE  LET top == Top(cpu)
           IN  /\ prog[cpu] # <<>> /\ top.pc \in {"header", "payload"}
               /\ AllocTypes' /\ UNCHANGED i_next
               /\ \A c \in Cpus : c # cpu => HEAP'[c] = HEAP[c]
               /\ \E g \in Frames :
                     /\ Steps(cpu, g) /\ g.ev = top.ev /\ g.slot = top.slot /\ g.cut = top.cut
                     /\ g.sure = top.sure
                     /\ \/ /\ top.pc = "header" /\ g.pc = "payload"
                           /\ HEAP'[cpu][top.slot].header = top.ev.kind
                        \/ /\ top.pc = "payload" /\ g.pc \in {"identity", "pipe"}
                           /\ HEAP'[cpu][top.slot].header = HEAP[cpu][top.slot].header
                           /\ HEAP'[cpu][top.slot].payload = top.ev
               /\ UNCHANGED <<unopened, ready, attached, buffers, batch, channel, event_map,
                              exported, running, hist>>
  <1> DEFINE top == Top(cpu)
             old == HEAP[cpu][top.slot]
  <1>1. /\ prog[cpu] # <<>> /\ top.pc \in {"header", "payload"} /\ UNCHANGED i_next
        /\ UNCHANGED <<unopened, ready, attached, buffers, batch, channel, event_map, exported,
                       running, hist>>
    BY DEF Fill, At
  <1>2. top \in Frames /\ top.slot \in Slots /\ top.ev \in Events
    BY <1>1, TopFacts DEF Frames, Slots
  <1>3. HEAP \in [Cpus -> [Slots -> Cells]] /\ old \in Cells
    BY <1>2 DEF PipeTypes, AllocTypes
  <1>4. ASSUME NEW cell \in Cells,
               HEAP' = [HEAP EXCEPT ![cpu] = [HEAP[cpu] EXCEPT ![top.slot] = cell]]
        PROVE  /\ AllocTypes' /\ HEAP'[cpu][top.slot] = cell
               /\ \A c \in Cpus : c # cpu => HEAP'[c] = HEAP[c]
    BY <1>1, <1>2, <1>3, <1>4 DEF PipeTypes, AllocTypes
  <1>5. CASE top.pc = "header"
    <2> DEFINE cell == [old EXCEPT !.header = top.ev.kind]
    <2>1. HEAP' = [HEAP EXCEPT ![cpu] = [HEAP[cpu] EXCEPT ![top.slot] = cell]]
      BY <1>2, <1>3, <1>5 DEF Fill, At
    <2>2. cell \in Cells /\ cell.header = top.ev.kind
      <3>1. top.ev.kind \in {e.kind : e \in Events}
        BY <1>2
      <3> HIDE DEF old
      <3>2. QED BY <1>3, <3>1 DEF Cells
    <2>3. Goto(cpu, "payload")
      BY <1>5 DEF Fill, At
    <2> HIDE DEF cell
    <2>4. /\ AllocTypes' /\ HEAP'[cpu][top.slot] = cell
          /\ \A c \in Cpus : c # cpu => HEAP'[c] = HEAP[c]
      BY <1>4, <2>1, <2>2
    <2>5. QED BY <1>1, <1>5, <2>2, <2>3, <2>4, GotoFacts DEF Pcs
  <1>6. CASE top.pc = "payload"
    <2> DEFINE cell == [old EXCEPT !.payload = top.ev]
    <2>1. HEAP' = [HEAP EXCEPT ![cpu] = [HEAP[cpu] EXCEPT ![top.slot] = cell]]
      BY <1>2, <1>3, <1>6 DEF Fill, At
    <2>2. cell \in Cells /\ cell.header = old.header /\ cell.payload = top.ev
      <3> HIDE DEF old
      <3>1. QED BY <1>2, <1>3 DEF Cells
    <2>3. Goto(cpu, "identity") \/ Goto(cpu, "pipe")
      BY <1>6 DEF Fill, At
    <2> HIDE DEF cell
    <2>4. /\ AllocTypes' /\ HEAP'[cpu][top.slot] = cell
          /\ \A c \in Cpus : c # cpu => HEAP'[c] = HEAP[c]
      BY <1>4, <2>1, <2>2
    <2>5. QED BY <1>1, <1>6, <2>2, <2>3, <2>4, GotoFacts DEF Pcs
  <1>7. QED BY <1>1, <1>5, <1>6

LEMMA PipeStep ==
    ASSUME PipeTypes, NEW cpu \in Cpus, pipe_event(cpu)
    PROVE  /\ prog[cpu] # <<>> /\ Top(cpu).pc = "pipe" /\ Ends(cpu)
           /\ hist' \in Histories /\ hist'.refused = hist.refused
           /\ hist'.emitted = hist.emitted + 1
           /\ hist'.rejected = hist.rejected /\ hist'.counted = hist.counted
           /\ \/ /\ buffers[cpu] = NONE /\ UNCHANGED buffers /\ hist'.lost = hist.lost
                 /\ hist'.unheard = [hist.unheard EXCEPT ![cpu] = @ + 1]
              \/ /\ buffers[cpu] # NONE /\ UNCHANGED buffers /\ hist'.lost = hist.lost + 1
                 /\ hist'.unheard = hist.unheard
              \/ /\ buffers[cpu] # NONE /\ Len(buffers[cpu]) < BufferSize
                 /\ hist'.unheard = hist.unheard /\ hist'.lost = hist.lost
                 /\ \E rec \in Records :
                       /\ buffers' = [buffers EXCEPT ![cpu] = Append(@, rec)]
                       /\ rec.by = Top(cpu).ev /\ rec.cut = Top(cpu).cut
                       /\ rec.header = HEAP[cpu][Top(cpu).slot].header
                       /\ rec.payload = HEAP[cpu][Top(cpu).slot].payload
           /\ UNCHANGED <<allocVars, unopened, ready, attached, batch, channel, event_map, exported,
                          running>>
  <1> DEFINE top == Top(cpu)
             built == HEAP[cpu][top.slot]
             rec == [header |-> built.header, payload |-> built.payload,
                     by |-> top.ev, cut |-> top.cut]
             sent == [hist EXCEPT !.emitted = @ + 1]
  <1>1. /\ prog[cpu] # <<>> /\ top.pc = "pipe" /\ Ends(cpu)
        /\ UNCHANGED <<allocVars, unopened, ready, attached, batch, channel, event_map, exported,
                       running>>
    BY EndsFacts DEF pipe_event, At
  <1>2. hist \in Histories
    BY DEF PipeTypes, CountTypes
  <1>3. /\ sent \in Histories /\ sent.refused = hist.refused /\ sent.unheard = hist.unheard
        /\ sent.lost = hist.lost /\ sent.emitted = hist.emitted + 1
        /\ sent.rejected = hist.rejected /\ sent.counted = hist.counted
    BY <1>2 DEF Histories
  <1>4. CASE buffers[cpu] = NONE
    <2>1. hist' = [sent EXCEPT !.unheard = [sent.unheard EXCEPT ![cpu] = @ + 1]] /\ UNCHANGED buffers
      BY <1>3, <1>4 DEF pipe_event
    <2> HIDE DEF sent
    <2> DEFINE u == [hist.unheard EXCEPT ![cpu] = @ + 1]
    <2>2. u \in [Cpus -> Nat]
      BY <1>2 DEF Histories
    <2>3. hist' = [sent EXCEPT !.unheard = u]
      BY <1>3, <2>1
    <2> HIDE DEF u
    <2>4. /\ hist' \in Histories /\ hist'.refused = hist.refused /\ hist'.unheard = u
          /\ hist'.lost = hist.lost /\ hist'.emitted = hist.emitted + 1
          /\ hist'.rejected = hist.rejected /\ hist'.counted = hist.counted
      BY <1>3, <2>2, <2>3 DEF Histories
    <2>5. QED BY <1>1, <1>4, <2>1, <2>4 DEF u
  <1>5. CASE buffers[cpu] # NONE /\ Len(buffers[cpu]) = BufferSize
    <2>1. hist' = [sent EXCEPT !.lost = @ + 1] /\ UNCHANGED buffers
      BY <1>5 DEF pipe_event
    <2> HIDE DEF sent
    <2>2. /\ hist' \in Histories /\ hist'.refused = hist.refused /\ hist'.unheard = hist.unheard
          /\ hist'.lost = hist.lost + 1 /\ hist'.emitted = hist.emitted + 1
          /\ hist'.rejected = hist.rejected /\ hist'.counted = hist.counted
      BY <1>3, <2>1 DEF Histories
    <2>3. QED BY <1>1, <1>5, <2>1, <2>2
  <1>6. CASE buffers[cpu] # NONE /\ Len(buffers[cpu]) # BufferSize
    <2>1. hist' = sent /\ buffers' = [buffers EXCEPT ![cpu] = Append(@, rec)]
      BY <1>6 DEF pipe_event
    <2>2. Len(buffers[cpu]) < BufferSize
      BY <1>6, PipeAssumption DEF PipeTypes, QueueTypes
    <2>3. top \in Frames /\ top.slot \in Slots
      BY <1>1, TopFacts DEF Frames, Slots
    <2>4. built \in Cells
      BY <2>3 DEF PipeTypes, AllocTypes
    <2>5. /\ rec \in Records /\ rec.by = top.ev /\ rec.cut = top.cut
          /\ rec.header = built.header /\ rec.payload = built.payload
      <3> HIDE DEF built, top
      <3>1. QED BY <2>3, <2>4 DEF Records, Cells, Frames
    <2> HIDE DEF rec, sent
    <2>6. /\ hist' \in Histories /\ hist'.refused = hist.refused /\ hist'.unheard = hist.unheard
          /\ hist'.lost = hist.lost /\ hist'.emitted = hist.emitted + 1
          /\ hist'.rejected = hist.rejected /\ hist'.counted = hist.counted
      BY <1>3, <2>1
    <2>7. QED BY <1>1, <1>6, <2>1, <2>2, <2>5, <2>6
  <1>7. QED BY <1>4, <1>5, <1>6

-----------------------------------------------------------------------------
(* The reader tasks. *)

LEMMA MinOfTwo ==
    ASSUME NEW a \in Nat, NEW b \in Nat
    PROVE  Min({a, b}) = IF a <= b THEN a ELSE b
  <1> DEFINE m == IF a <= b THEN a ELSE b
  <1>1. m \in {a, b} /\ \A y \in {a, b} : m <= y
    OBVIOUS
  <1>2. \A x \in {a, b} : (\A y \in {a, b} : x <= y) => x = m
    OBVIOUS
  <1>3. QED BY <1>1, <1>2 DEF Min

\* The reader of cpu takes the first n records of its buffer.
Takes(cpu, n) ==
    /\ n \in 1..ReadBuffers /\ n <= Len(buffers[cpu])
    /\ batch' = [batch EXCEPT ![cpu] = SubSeq(buffers[cpu], 1, n)]
    /\ buffers' = [buffers EXCEPT ![cpu] = SubSeq(buffers[cpu], n + 1, Len(buffers[cpu]))]

LEMMA ReadStep ==
    ASSUME PipeTypes, NEW cpu \in Cpus, Read(cpu)
    PROVE  /\ buffers[cpu] # NONE /\ buffers[cpu] \in Seq(Records) /\ batch[cpu] = <<>>
           /\ \E n \in Nat : Takes(cpu, n)
           /\ UNCHANGED <<allocVars, prog, unopened, ready, attached, channel, event_map, exported,
                          running, hist>>
  <1> DEFINE n == Min({ReadBuffers, Len(buffers[cpu])})
  <1>1. /\ buffers[cpu] # NONE /\ buffers[cpu] # <<>> /\ batch[cpu] = <<>>
        /\ UNCHANGED <<allocVars, prog, unopened, ready, attached, channel, event_map, exported,
                       running, hist>>
    BY DEF Read
  <1>2. buffers[cpu] \in Seq(Records) /\ Len(buffers[cpu]) \in Nat \ {0}
    <2>1. buffers[cpu] \in Seq(Records)
      BY <1>1 DEF PipeTypes, QueueTypes
    <2>2. QED BY <1>1, <2>1, EmptySeq
  <1>3. n = IF ReadBuffers <= Len(buffers[cpu]) THEN ReadBuffers ELSE Len(buffers[cpu])
    BY <1>2, PipeAssumption, MinOfTwo
  <1>4. /\ batch' = [batch EXCEPT ![cpu] = SubSeq(buffers[cpu], 1, n)]
        /\ buffers' = [buffers EXCEPT ![cpu] = SubSeq(buffers[cpu], n + 1, Len(buffers[cpu]))]
    BY DEF Read
  <1> HIDE DEF n
  <1>5. n \in 1..ReadBuffers /\ n <= Len(buffers[cpu]) /\ n \in Nat
    BY <1>2, <1>3, PipeAssumption
  <1>6. QED BY <1>1, <1>2, <1>4, <1>5 DEF Takes

LEMMA SendStep ==
    ASSUME PipeTypes, NEW cpu \in Cpus, SendRecord(cpu)
    PROVE  /\ batch[cpu] \in Seq(Records) /\ batch[cpu] # <<>> /\ Len(channel) < ChannelSize
           /\ channel' = Append(channel, Head(batch[cpu]))
           /\ batch' = [batch EXCEPT ![cpu] = Tail(batch[cpu])]
           /\ UNCHANGED <<allocVars, prog, unopened, ready, attached, buffers, event_map, exported,
                          running, hist>>
  BY DEF SendRecord, PipeTypes, QueueTypes

(* Whatever a record is decoded as is an event, and is counted under an event. *)
LEMMA DecodedIsEvent ==
    ASSUME PipeTypes, NEW rec \in Records
    PROVE  /\ transform_event(rec) \subseteq Events
           /\ \A e \in transform_event(rec) : EntriesFor(e) \subseteq Events
  <1>1. transform_event(rec) \subseteq Events
    BY DEF transform_event, Records
  <1>2. DOMAIN event_map \subseteq Events
    BY DEF PipeTypes, CountTypes
  <1>3. QED BY <1>1, <1>2 DEF EntriesFor

(* One more event under key k of a map of frequencies. *)
Counted(m, k) == Put(m, k, IF k \in DOMAIN m THEN m[k] + 1 ELSE 1)

LEMMA CountStep ==
    ASSUME PipeTypes, CountEvent
    PROVE  /\ channel # <<>> /\ channel' = Tail(channel)
           /\ hist' \in Histories /\ hist'.refused = hist.refused /\ hist'.unheard = hist.unheard
           /\ hist'.lost = hist.lost /\ hist'.emitted = hist.emitted
           /\ \/ /\ UNCHANGED event_map
                 /\ hist'.rejected = hist.rejected + 1 /\ hist'.counted = hist.counted
              \/ \E e \in Events : \E k \in EntriesFor(e) \cap Events :
                    /\ event_map' = Counted(event_map, k)
                    /\ hist'.counted = [hist.counted EXCEPT ![e] = @ + 1]
                    /\ hist'.rejected = hist.rejected
           /\ UNCHANGED <<allocVars, prog, unopened, ready, attached, buffers, batch, exported,
                          running>>
  <1>1. /\ channel # <<>> /\ channel' = Tail(channel)
        /\ UNCHANGED <<allocVars, prog, unopened, ready, attached, buffers, batch, exported,
                       running>>
    BY DEF CountEvent
  <1>2. hist \in Histories /\ channel \in Seq(Records)
    BY DEF PipeTypes, CountTypes, QueueTypes
  <1>3. Head(channel) \in Records
    BY <1>1, <1>2, HeadTailProperties
  <1>4. CASE hist' = [hist EXCEPT !.rejected = @ + 1] /\ UNCHANGED event_map
    <2> DEFINE r == hist.rejected + 1
    <2>1. hist' = [hist EXCEPT !.rejected = r] /\ r \in Nat
      BY <1>2, <1>4 DEF Histories
    <2> HIDE DEF r
    <2>2. /\ hist' \in Histories /\ hist'.refused = hist.refused /\ hist'.unheard = hist.unheard
          /\ hist'.lost = hist.lost /\ hist'.emitted = hist.emitted
          /\ hist'.rejected = r /\ hist'.counted = hist.counted
      BY <1>2, <2>1 DEF Histories
    <2>3. QED BY <1>1, <1>4, <2>2 DEF r
  <1>5. ASSUME NEW e \in transform_event(Head(channel)), NEW k \in EntriesFor(e),
               event_map' = Put(event_map, k,
                                IF k \in DOMAIN event_map THEN event_map[k] + 1 ELSE 1),
               hist' = [hist EXCEPT !.counted[e] = @ + 1]
        PROVE  /\ e \in Events /\ k \in Events /\ hist' \in Histories
               /\ hist'.refused = hist.refused /\ hist'.unheard = hist.unheard
               /\ hist'.lost = hist.lost /\ hist'.emitted = hist.emitted
               /\ hist'.counted = [hist.counted EXCEPT ![e] = @ + 1]
               /\ hist'.rejected = hist.rejected
    <2>1. e \in Events /\ k \in Events
      BY <1>3, DecodedIsEvent
    <2> DEFINE c == [hist.counted EXCEPT ![e] = @ + 1]
    <2>2. hist' = [hist EXCEPT !.counted = c] /\ c \in [Events -> Nat]
      BY <1>2, <1>5, <2>1 DEF Histories
    <2> HIDE DEF c
    <2>3. /\ hist' \in Histories /\ hist'.refused = hist.refused /\ hist'.unheard = hist.unheard
          /\ hist'.lost = hist.lost /\ hist'.emitted = hist.emitted
          /\ hist'.rejected = hist.rejected /\ hist'.counted = c
      BY <1>2, <2>2 DEF Histories
    <2>4. QED BY <2>1, <2>3 DEF c
  <1>6. ASSUME NEW e \in transform_event(Head(channel)), NEW k \in EntriesFor(e),
               event_map' = Put(event_map, k,
                                IF k \in DOMAIN event_map THEN event_map[k] + 1 ELSE 1),
               hist' = [hist EXCEPT !.counted[e] = @ + 1]
        PROVE  \E f \in Events : \E l \in EntriesFor(f) \cap Events :
                    /\ event_map' = Counted(event_map, l)
                    /\ hist'.counted = [hist.counted EXCEPT ![f] = @ + 1]
                    /\ hist'.rejected = hist.rejected
    BY <1>5, <1>6 DEF Counted
  <1>7. QED BY <1>1, <1>4, <1>5, <1>6 DEF CountEvent

-----------------------------------------------------------------------------
(* Types. *)

LEMMA PipeInitTypes == PipeInit => PipeTypes
  <1> SUFFICES ASSUME PipeInit PROVE PipeTypes OBVIOUS
  <1>0. \A S : <<>> \in Seq(S) /\ Len(<<>>) = 0
    BY EmptySeq
  <1>1. AllocTypes
    <2>1. Zeros \in Cells
      BY DEF Zeros, Cells
    <2>2. QED BY <2>1, AllocAssumption DEF PipeInit, AllocInit, AllocTypes, Slots
  <1>2. ProgTypes
    BY <1>0, PipeAssumption DEF PipeInit, ProgTypes
  <1>3. QueueTypes
    BY <1>0, PipeAssumption DEF PipeInit, QueueTypes
  <1>4. CountTypes
    <2>1. hist \in Histories
      BY DEF PipeInit, Histories
    <2>2. QED BY <2>1 DEF PipeInit, CountTypes
  <1>5. QED BY <1>1, <1>2, <1>3, <1>4 DEF PipeInit, PipeTypes

LEMMA StepsTyped ==
    ASSUME PipeTypes, NEW cpu \in Cpus, NEW g, Steps(cpu, g) PROVE ProgTypes'
  BY DEF PipeTypes, ProgTypes, Steps, Only

LEMMA EndsTyped == ASSUME PipeTypes, NEW cpu \in Cpus, Ends(cpu) PROVE ProgTypes'
  <1>1. Len(prog[cpu]) \in Nat
    BY DEF PipeTypes, ProgTypes
  <1>2. Len(prog'[cpu]) <= MaxNesting
    <2>1. Len(prog'[cpu]) = Len(prog[cpu]) - 1 /\ Len(prog[cpu]) <= MaxNesting
      BY DEF Ends, PipeTypes, ProgTypes
    <2>2. QED BY <1>1, <2>1, PipeAssumption
  <1>3. QED BY <1>2 DEF PipeTypes, ProgTypes, Ends, Only

LEMMA StartsTyped ==
    ASSUME PipeTypes, NEW cpu \in Cpus, NEW e, NEW resets, Starts(cpu, e, resets),
           Len(prog[cpu]) < MaxNesting
    PROVE  ProgTypes'
  <1>1. Len(prog[cpu]) \in Nat
    BY DEF PipeTypes, ProgTypes
  <1>2. Len(prog'[cpu]) <= MaxNesting
    <2>1. Len(prog'[cpu]) = Len(prog[cpu]) + 1
      BY DEF Starts
    <2>2. QED BY <1>1, <2>1, PipeAssumption
  <1>3. QED BY <1>2 DEF PipeTypes, ProgTypes, Starts, Only

(* What a step of a program leaves alone keeps its type. *)
LEMMA Untouched ==
    ASSUME PipeTypes
    PROVE  /\ UNCHANGED allocVars => AllocTypes'
           /\ UNCHANGED prog => ProgTypes'
           /\ UNCHANGED <<buffers, batch, channel>> => QueueTypes'
           /\ UNCHANGED <<event_map, hist>> => CountTypes'
  BY DEF PipeTypes, allocVars, AllocTypes, ProgTypes, QueueTypes, CountTypes

LEMMA AppendTyped ==
    ASSUME PipeTypes, NEW cpu \in Cpus, NEW rec \in Records, buffers[cpu] # NONE,
           Len(buffers[cpu]) < BufferSize,
           buffers' = [buffers EXCEPT ![cpu] = Append(@, rec)], UNCHANGED <<batch, channel>>
    PROVE  QueueTypes'
  <1> DEFINE s == Append(buffers[cpu], rec)
  <1>1. buffers[cpu] \in Seq(Records) /\ Len(buffers[cpu]) \in Nat
    BY DEF PipeTypes, QueueTypes
  <1>2. s \in Seq(Records) /\ Len(s) = Len(buffers[cpu]) + 1
    BY <1>1, AppendProperties
  <1>3. Len(s) <= BufferSize
    BY <1>1, <1>2, PipeAssumption
  <1>4. buffers' = [buffers EXCEPT ![cpu] = s]
    OBVIOUS
  <1> HIDE DEF s
  <1>5. QED BY <1>2, <1>3, <1>4 DEF PipeTypes, QueueTypes

LEMMA TakesTyped ==
    ASSUME PipeTypes, NEW cpu \in Cpus, NEW n \in Nat, buffers[cpu] # NONE,
           buffers[cpu] \in Seq(Records), Takes(cpu, n), UNCHANGED channel
    PROVE  QueueTypes'
  <1> DEFINE b == buffers[cpu]
             s == SubSeq(b, 1, n)
             r == SubSeq(b, n + 1, Len(b))
  <1>1. Len(b) \in Nat /\ n >= 1 /\ n <= Len(b) /\ n <= ReadBuffers /\ Len(b) <= BufferSize
    BY PipeAssumption DEF Takes, PipeTypes, QueueTypes
  <1>2. \A i \in 1..Len(b) : b[i] \in Records
    BY ElementOfSeq
  <1>3. s \in Seq(Records) /\ Len(s) = n
    BY <1>1, <1>2, SubSeqProperties
  <1>4. r \in Seq(Records) /\ Len(r) = Len(b) - n
    <2>1. n + 1 \in Int /\ Len(b) \in Int /\ \A i \in (n + 1)..Len(b) : b[i] \in Records
      BY <1>1, <1>2
    <2>2. r \in Seq(Records) /\ Len(r) = IF n + 1 <= Len(b) THEN Len(b) - (n + 1) + 1 ELSE 0
      BY <2>1, SubSeqProperties
    <2>3. QED BY <1>1, <2>2
  <1>5. batch' = [batch EXCEPT ![cpu] = s] /\ buffers' = [buffers EXCEPT ![cpu] = r]
    BY DEF Takes
  <1>6. Len(s) <= ReadBuffers /\ Len(r) <= BufferSize
    BY <1>1, <1>3, <1>4, PipeAssumption
  <1> HIDE DEF s, r
  <1>7. QED BY <1>3, <1>4, <1>5, <1>6 DEF PipeTypes, QueueTypes

LEMMA PipeNextTypes == PipeTypes /\ [PipeNext]_pipeVars => PipeTypes'
  <1> SUFFICES ASSUME PipeTypes, [PipeNext]_pipeVars PROVE PipeTypes' OBVIOUS
  <1>1. CASE UNCHANGED pipeVars
    BY <1>1, Untouched DEF pipeVars, PipeTypes
  <1>2. ASSUME NEW cpu \in Cpus, NEW e \in Events, NEW resets \in BOOLEAN,
               StartProgram(cpu, e, resets)
        PROVE  PipeTypes'
    <2>1. hist' \in Histories
      <3>1. hist' = [hist EXCEPT !.started = @ + 1] /\ hist \in Histories
        BY <1>2, StartStep DEF PipeTypes, CountTypes
      <3>2. QED BY <3>1 DEF Histories
    <2>2. CountTypes'
      BY <1>2, <2>1, StartStep DEF PipeTypes, CountTypes
    <2>3. QED BY <1>2, <2>2, StartStep, StartsTyped, Untouched DEF PipeTypes
  <1>3. ASSUME NEW cpu \in Cpus, InitAllocator(cpu) PROVE PipeTypes'
    <2>1. AllocTypes'
      BY <1>3, InitStep, AllocAssumption DEF PipeTypes, AllocTypes
    <2>2. QED BY <1>3, <2>1, InitStep, StepsTyped, Untouched DEF PipeTypes
  <1>4. ASSUME NEW cpu \in Cpus, Alloc(cpu) PROVE PipeTypes'
    <2>1. CASE CanAlloc(cpu) /\ alloc_zero(cpu) /\ UNCHANGED hist /\ \E g \in Frames : Steps(cpu, g)
      BY <1>4, <2>1, AllocStep, AllocZero, StepsTyped, Untouched DEF PipeTypes
    <2>2. CASE /\ Ends(cpu) /\ UNCHANGED allocVars
               /\ \/ hist' = [hist EXCEPT !.refused = @ + 1]
                  \/ hist' = [hist EXCEPT !.starved = @ + 1]
      <3>1. hist' \in Histories
        BY <2>2 DEF PipeTypes, CountTypes, Histories
      <3>2. CountTypes'
        BY <1>4, <3>1, AllocStep DEF PipeTypes, CountTypes
      <3>3. QED BY <1>4, <2>2, <3>2, AllocStep, EndsTyped, Untouched DEF PipeTypes
    <2>3. QED BY <1>4, <2>1, <2>2, AllocStep
  <1>5. ASSUME NEW cpu \in Cpus, Fill(cpu) PROVE PipeTypes'
    BY <1>5, FillStep, StepsTyped, Untouched DEF PipeTypes
  <1>6. ASSUME NEW cpu \in Cpus, pipe_event(cpu) PROVE PipeTypes'
    <2>1. CountTypes'
      BY <1>6, PipeStep DEF PipeTypes, CountTypes
    <2>2. QueueTypes'
      BY <1>6, PipeStep, AppendTyped, Untouched
    <2>3. QED BY <1>6, <2>1, <2>2, PipeStep, EndsTyped, Untouched DEF PipeTypes
  <1>7. ASSUME NEW cpu \in Cpus, OpenBuffer(cpu) PROVE PipeTypes'
    <2>1. unopened' \subseteq Cpus
      BY <1>7 DEF OpenBuffer, PipeTypes
    <2>2. QueueTypes'
      <3>1. <<>> \in Seq(Records) /\ Len(<<>>) = 0 /\ 0 <= BufferSize
        BY EmptySeq, PipeAssumption
      <3>2. CASE buffers' = [buffers EXCEPT ![cpu] = <<>>]
        <4>1. buffers' \in [Cpus -> {NONE} \cup Seq(Records)]
          BY <3>1, <3>2 DEF PipeTypes, QueueTypes
        <4>2. ASSUME NEW c \in Cpus, buffers'[c] # NONE PROVE Len(buffers'[c]) <= BufferSize
          <5>1. CASE c = cpu
            BY <3>1, <3>2, <5>1 DEF PipeTypes, QueueTypes
          <5>2. CASE c # cpu
            BY <3>2, <4>2, <5>2 DEF PipeTypes, QueueTypes
          <5>3. QED BY <5>1, <5>2
        <4>3. QED BY <1>7, <4>1, <4>2 DEF OpenBuffer, PipeTypes, QueueTypes
      <3>3. CASE UNCHANGED buffers
        BY <1>7, <3>3, Untouched DEF OpenBuffer
      <3>4. QED BY <1>7, <3>2, <3>3 DEF OpenBuffer
    <2>3. QED BY <1>7, <2>1, <2>2, Untouched DEF OpenBuffer, PipeTypes
  <1>8. ASSUME NEW cpu \in Cpus, Read(cpu) PROVE PipeTypes'
    BY <1>8, ReadStep, TakesTyped, Untouched DEF PipeTypes
  <1>9. ASSUME NEW cpu \in Cpus, SendRecord(cpu) PROVE PipeTypes'
    <2> DEFINE b == batch[cpu]
    <2>1. /\ Head(b) \in Records /\ Tail(b) \in Seq(Records) /\ Len(Tail(b)) = Len(b) - 1
          /\ Len(b) \in Nat
      BY <1>9, SendStep, HeadTailProperties DEF PipeTypes, QueueTypes
    <2>2. /\ Append(channel, Head(b)) \in Seq(Records)
          /\ Len(Append(channel, Head(b))) = Len(channel) + 1 /\ Len(channel) \in Nat
      BY <2>1, AppendProperties DEF PipeTypes, QueueTypes
    <2>3. Len(Append(channel, Head(b))) <= ChannelSize
      BY <1>9, <2>2, SendStep, PipeAssumption
    <2> DEFINE t == Tail(b)
    <2>4. batch' = [batch EXCEPT ![cpu] = t] /\ Len(t) <= ReadBuffers /\ t \in Seq(Records)
      BY <1>9, <2>1, SendStep, PipeAssumption DEF PipeTypes, QueueTypes
    <2> HIDE DEF t
    <2>5. QueueTypes'
      BY <1>9, <2>2, <2>3, <2>4, SendStep DEF PipeTypes, QueueTypes
    <2>6. QED BY <1>9, <2>5, SendStep, Untouched DEF PipeTypes
  <1>10. CASE CountEvent
    <2>1. QueueTypes'
      <3>1. Tail(channel) \in Seq(Records) /\ Len(Tail(channel)) = Len(channel) - 1
        BY <1>10, CountStep, HeadTailProperties DEF PipeTypes, QueueTypes
      <3>2. Len(channel) \in Nat /\ Len(Tail(channel)) <= ChannelSize
        BY <3>1, PipeAssumption DEF PipeTypes, QueueTypes
      <3>3. QED BY <1>10, <3>1, <3>2, CountStep DEF PipeTypes, QueueTypes
    <2>2. CountTypes'
      <3>1. CASE UNCHANGED event_map
        BY <1>10, <3>1, CountStep DEF PipeTypes, CountTypes
      <3>2. ASSUME NEW k \in Events, event_map' = Counted(event_map, k) PROVE CountTypes'
        BY <1>10, <3>2, CountStep DEF PipeTypes, CountTypes, Counted, Put
      <3>3. QED BY <1>10, <3>1, <3>2, CountStep
    <2>3. QED BY <1>10, <2>1, <2>2, CountStep, Untouched DEF PipeTypes
  <1>11. CASE SignalReady \/ Attach \/ CtrlC
    BY <1>11, Untouched DEF SignalReady, Attach, CtrlC, PipeTypes
  <1>12. QED
    BY <1>1, <1>2, <1>3, <1>4, <1>5, <1>6, <1>7, <1>8, <1>9, <1>10, <1>11
    DEF PipeNext, ProgramStep

(* Stacks, heap, queues and frequencies keep their types: no perf buffer,     *)
(* batch or channel outgrows its size and no program gets an entry beyond    *)
(* the heap.                                                                 *)
THEOREM PipeTypeCorrect == PipeSpec => []PipeTypeOK
  <1>1. PipeTypes => PipeTypeOK
    <2> SUFFICES ASSUME PipeTypes PROVE PipeTypeOK OBVIOUS
    <2>1. \A cpu \in Cpus : Len(Buffered(cpu)) <= BufferSize
      <3>1. Len(<<>>) = 0 /\ 0 <= BufferSize
        BY PipeAssumption
      <3>2. QED BY <3>1 DEF PipeTypes, QueueTypes, Buffered
    <2>2. QED
      BY <2>1 DEF PipeTypes, AllocTypes, ProgTypes, QueueTypes, CountTypes, PipeTypeOK
  <1>2. QED BY <1>1, PipeInitTypes, PipeNextTypes, PTL DEF PipeSpec

-----------------------------------------------------------------------------
(* Records without a reader. *)

\* Programs run only when all buffers have been tried, and a record is dropped
\* for want of a buffer only on a CPU whose turn has passed.
HeardInv ==
    /\ \A cpu \in Cpus : prog[cpu] # <<>> => attached
    /\ attached => ready
    /\ ready => unopened = {}
    /\ \A cpu \in Cpus : hist.unheard[cpu] > 0 => buffers[cpu] = NONE /\ cpu \notin unopened

LEMMA HeardNextInv == PipeTypes /\ HeardInv /\ [PipeNext]_pipeVars => HeardInv'
  <1> SUFFICES ASSUME PipeTypes, HeardInv, [PipeNext]_pipeVars PROVE HeardInv' OBVIOUS
  <1>1. CASE UNCHANGED pipeVars
    BY <1>1 DEF pipeVars, HeardInv
  <1>2. ASSUME attached, UNCHANGED <<attached, ready, unopened, buffers>>,
               hist'.unheard = hist.unheard
        PROVE  HeardInv'
    BY <1>2 DEF HeardInv
  <1>3. ASSUME NEW cpu \in Cpus, NEW e \in Events, NEW resets \in BOOLEAN,
               StartProgram(cpu, e, resets)
        PROVE  HeardInv'
    <2>1. hist'.unheard = hist.unheard
      BY <1>3, StartStep DEF PipeTypes, CountTypes, Histories
    <2>2. QED BY <1>2, <1>3, <2>1, StartStep
  <1>4. ASSUME NEW cpu \in Cpus, InitAllocator(cpu) \/ Fill(cpu) PROVE HeardInv'
    BY <1>2, <1>4, InitStep, FillStep DEF HeardInv
  <1>5. ASSUME NEW cpu \in Cpus, Alloc(cpu) PROVE HeardInv'
    <2>1. hist'.unheard = hist.unheard
      BY <1>5, AllocStep DEF PipeTypes, CountTypes, Histories
    <2>2. attached /\ UNCHANGED <<attached, ready, unopened, buffers>>
      BY <1>5, AllocStep DEF HeardInv
    <2>3. QED BY <1>2, <2>1, <2>2
  <1>6. ASSUME NEW cpu \in Cpus, pipe_event(cpu) PROVE HeardInv'
    <2>1. /\ attached /\ unopened = {} /\ UNCHANGED <<attached, ready, unopened>>
      BY <1>6, PipeStep DEF HeardInv
    <2>2. hist.unheard \in [Cpus -> Nat] /\ buffers \in [Cpus -> {NONE} \cup Seq(Records)]
      BY DEF PipeTypes, CountTypes, Histories, QueueTypes
    <2>3. ASSUME NEW c \in Cpus, hist'.unheard[c] > 0 PROVE buffers'[c] = NONE
      <3>1. CASE c = cpu
        BY <1>6, <2>2, <2>3, <3>1, PipeStep DEF HeardInv
      <3>2. CASE c # cpu
        <4>1. hist'.unheard[c] = hist.unheard[c] /\ buffers'[c] = buffers[c]
          BY <1>6, <2>2, <3>2, PipeStep
        <4>2. QED BY <2>3, <4>1 DEF HeardInv
      <3>3. QED BY <3>1, <3>2
    <2>4. QED BY <2>1, <2>3 DEF HeardInv
  <1>7. ASSUME NEW cpu \in Cpus, OpenBuffer(cpu) PROVE HeardInv'
    <2>1. /\ cpu \in unopened /\ unopened' = unopened \ {cpu} /\ ~ready /\ ~attached
          /\ UNCHANGED <<prog, ready, attached, hist>>
      BY <1>7 DEF OpenBuffer, HeardInv
    <2>2. \A c \in Cpus : hist.unheard[c] > 0 => c # cpu /\ buffers'[c] = NONE
      BY <1>7, <2>1 DEF OpenBuffer, HeardInv, PipeTypes, QueueTypes
    <2>3. QED BY <2>1, <2>2 DEF HeardInv
  <1>8. ASSUME NEW cpu \in Cpus, Read(cpu) PROVE HeardInv'
    <2>1. /\ buffers[cpu] # NONE /\ \A c \in Cpus : c # cpu => buffers'[c] = buffers[c]
          /\ UNCHANGED <<prog, unopened, ready, attached, hist>>
      BY <1>8, ReadStep DEF Takes, PipeTypes, QueueTypes
    <2>2. QED BY <2>1 DEF HeardInv
  <1>9. CASE CountEvent \/ SignalReady \/ Attach \/ CtrlC \/ \E cpu \in Cpus : SendRecord(cpu)
    BY <1>9, CountStep DEF SignalReady, Attach, CtrlC, SendRecord, HeardInv
  <1>10. QED
    BY <1>1, <1>3, <1>4, <1>5, <1>6, <1>7, <1>8, <1>9 DEF PipeNext, ProgramStep

(* Probes are attached only after ready: no record is dropped for want of a   *)
(* perf buffer but on a CPU whose buffer could not be opened.                *)
THEOREM RecordsFindReaders == PipeSpec => []NoRecordUnheard
  <1>1. PipeInit => HeardInv
    BY DEF PipeInit, HeardInv
  <1>2. HeardInv => NoRecordUnheard
    BY DEF HeardInv, NoRecordUnheard
  <1>3. QED BY <1>1, <1>2, PipeInitTypes, PipeNextTypes, HeardNextInv, PTL DEF PipeSpec

-----------------------------------------------------------------------------
(* The allocator. *)

\* Entries the running program still has to take.
Need(pc) == IF pc = "alloc" THEN 2 ELSE IF pc = "pipe" THEN 0 ELSE 1

\* What is handed out, what the running program takes, and two for each program
\* under it: a program that has not called init counts for nothing, and nothing
\* is known once a program without init has run on top of this one.
Room(cpu) ==
    prog[cpu] # <<>> /\ Top(cpu).pc # "init" /\ Top(cpu).sure =>
        i_next[cpu] + Need(Top(cpu).pc) + 2 * (Len(prog[cpu]) - 1) <= 2 * MaxNesting

\* What runs on top of a program that lost its entries to docker_proxy_connect may
\* have reset the allocator; what is under it has not got them back.
SureOrder(cpu) ==
    \A i \in 1..(Len(prog[cpu]) - 1) : prog[cpu][i].sure => prog[cpu][i + 1].sure

RoomInv == hist.refused = 0 /\ \A cpu \in Cpus : Room(cpu) /\ SureOrder(cpu)

LEMMA OtherRooms ==
    ASSUME RoomInv, NEW cpu \in Cpus, Only(cpu), Room(cpu)', SureOrder(cpu)', hist'.refused = 0,
           \A c \in Cpus : c # cpu => i_next'[c] = i_next[c]
    PROVE  RoomInv'
  BY DEF RoomInv, Room, SureOrder, Top, Only

LEMMA StepsOrder ==
    ASSUME PipeTypes, RoomInv, NEW cpu \in Cpus, prog[cpu] # <<>>, NEW g, Steps(cpu, g),
           g.sure = Top(cpu).sure
    PROVE  SureOrder(cpu)' /\ Top(cpu)' = g /\ Len(prog'[cpu]) = Len(prog[cpu]) /\ Only(cpu)
  <1> DEFINE n == Len(prog[cpu])
  <1>1. n \in Nat \ {0} /\ Top(cpu) = prog[cpu][n]
    BY TopFacts
  <1>2. /\ Len(prog'[cpu]) = n /\ prog'[cpu][n] = g /\ Only(cpu)
        /\ \A i \in 1..(n - 1) : prog'[cpu][i] = prog[cpu][i]
    BY DEF Steps
  <1>3. ASSUME NEW i \in 1..(n - 1), prog'[cpu][i].sure PROVE prog'[cpu][i + 1].sure
    <2>1. prog[cpu][i].sure /\ prog[cpu][i + 1].sure
      BY <1>2, <1>3 DEF RoomInv, SureOrder
    <2>2. CASE i + 1 = n
      BY <1>1, <1>2, <2>1, <2>2
    <2>3. CASE i + 1 # n
      <3>1. i + 1 \in 1..(n - 1)
        BY <1>1, <2>3
      <3>2. QED BY <1>2, <2>1, <3>1
    <2>4. QED BY <2>2, <2>3
  <1>4. QED BY <1>2, <1>3 DEF SureOrder, Top

LEMMA EndsOrder ==
    ASSUME PipeTypes, RoomInv, NEW cpu \in Cpus, prog[cpu] # <<>>, Ends(cpu)
    PROVE  /\ SureOrder(cpu)' /\ Only(cpu) /\ Len(prog'[cpu]) = Len(prog[cpu]) - 1
           /\ prog'[cpu] # <<>> /\ Top(cpu)'.sure => Top(cpu).sure
  <1> DEFINE n == Len(prog[cpu])
  <1>1. n \in Nat \ {0} /\ Top(cpu) = prog[cpu][n]
    BY TopFacts
  <1>2. /\ Only(cpu) /\ Len(prog'[cpu]) = n - 1
        /\ \A i \in 1..(n - 1) : prog'[cpu][i] = prog[cpu][i]
    BY DEF Ends
  <1>3. \A i \in 1..(n - 1) : prog[cpu][i].sure => prog[cpu][i + 1].sure
    BY DEF RoomInv, SureOrder
  <1> HIDE DEF n
  <1>4. \A i \in 1..(n - 1 - 1) : prog'[cpu][i].sure => prog'[cpu][i + 1].sure
    BY <1>1, <1>2, <1>3
  <1>5. ASSUME prog'[cpu] # <<>>, Top(cpu)'.sure PROVE Top(cpu).sure
    <2>1. prog'[cpu] \in Seq(Frames)
      BY <1>2 DEF Only
    <2>2. n - 1 # 0
      BY <1>2, <1>5, <2>1, EmptySeq
    <2>3. n - 1 \in 1..(n - 1) /\ n - 1 + 1 = n
      BY <1>1, <2>2
    <2>4. Top(cpu)' = prog[cpu][n - 1]
      BY <1>2, <2>3 DEF Top
    <2>5. QED BY <1>1, <1>3, <1>5, <2>3, <2>4
  <1>6. QED BY <1>2, <1>4, <1>5 DEF SureOrder, n

LEMMA RoomNextInv ==
    ASSUME 2 * MaxNesting <= MAX_ALLOCS, PipeTypes, RoomInv, [PipeNext]_pipeVars
    PROVE  RoomInv'
  <1>0. /\ MAX_ALLOCS \in Nat /\ MaxNesting \in Nat
        /\ i_next \in [Cpus -> 0..MAX_ALLOCS] /\ hist \in Histories
    BY AllocAssumption, PipeAssumption DEF PipeTypes, AllocTypes, CountTypes
  <1>1. ASSUME UNCHANGED <<prog, i_next>>, hist'.refused = hist.refused PROVE RoomInv'
    BY <1>1 DEF RoomInv, Room, SureOrder, Top
  <1>2. ASSUME NEW cpu \in Cpus, NEW e \in Events, NEW resets \in BOOLEAN,
               StartProgram(cpu, e, resets)
        PROVE  RoomInv'
    <2> DEFINE n == Len(prog[cpu])
    <2>1. /\ Only(cpu) /\ Len(prog'[cpu]) = n + 1 /\ prog'[cpu][n + 1] = Fresh(e, resets)
          /\ Top(cpu)' = Fresh(e, resets) /\ UNCHANGED i_next
          /\ \A i \in 1..n : CutFrom(prog'[cpu][i], prog[cpu][i], resets)
      BY <1>2, StartStep DEF Starts, allocVars, Top
    <2>2. /\ Top(cpu)'.pc = "init" \/ ~Top(cpu)'.sure
          /\ Fresh(e, resets).sure = resets
      BY <2>1 DEF Fresh
    <2>3. hist'.refused = hist.refused
      BY <1>0, <1>2, StartStep DEF Histories
    <2>4. Room(cpu)'
      BY <2>2 DEF Room
    <2>5. n \in Nat
      BY DEF PipeTypes, ProgTypes
    <2>6. \A i \in 1..(n - 1) : prog[cpu][i].sure => prog[cpu][i + 1].sure
      BY DEF RoomInv, SureOrder
    <2> HIDE DEF n
    <2>7. ASSUME NEW i \in 1..n, prog'[cpu][i].sure PROVE prog'[cpu][i + 1].sure
      <3>1. prog[cpu][i].sure /\ resets
        BY <2>1, <2>7 DEF CutFrom
      <3>2. CASE i = n
        BY <2>1, <2>2, <3>1, <3>2
      <3>3. CASE i # n
        <4>1. i \in 1..(n - 1) /\ i + 1 \in 1..n
          BY <2>5, <3>3
        <4>2. QED BY <2>1, <2>6, <3>1, <4>1 DEF CutFrom
      <3>4. QED BY <3>2, <3>3
    <2>8. SureOrder(cpu)'
      <3>1. \A i \in 1..(Len(prog'[cpu]) - 1) : i \in 1..n
        BY <2>1, <2>5
      <3>2. QED BY <2>7, <3>1 DEF SureOrder
    <2>9. QED BY <2>1, <2>3, <2>4, <2>8, OtherRooms DEF RoomInv
  <1>3. ASSUME NEW cpu \in Cpus, InitAllocator(cpu) PROVE RoomInv'
    <2>1. PICK g \in Frames : Steps(cpu, g) /\ g.pc = "alloc" /\ g.sure = Top(cpu).sure
      BY <1>3, InitStep
    <2>2. /\ prog[cpu] # <<>> /\ i_next'[cpu] = 0 /\ UNCHANGED hist
          /\ \A c \in Cpus : c # cpu => i_next'[c] = i_next[c]
      BY <1>0, <1>3, InitStep, AllocAssumption
    <2>3. /\ SureOrder(cpu)' /\ Top(cpu)'.pc = "alloc" /\ Len(prog'[cpu]) = Len(prog[cpu])
          /\ Only(cpu)
      BY <2>1, <2>2, StepsOrder
    <2>4. Len(prog[cpu]) \in Nat /\ Len(prog[cpu]) <= MaxNesting
      BY DEF PipeTypes, ProgTypes
    <2>5. Room(cpu)'
      BY <1>0, <2>2, <2>3, <2>4 DEF Room, Need
    <2>6. QED BY <2>2, <2>3, <2>5, OtherRooms DEF RoomInv
  <1>4. ASSUME NEW cpu \in Cpus, Alloc(cpu) PROVE RoomInv'
    <2>1. prog[cpu] # <<>> /\ Top(cpu).pc \in {"alloc", "identity"} /\ Len(prog[cpu]) \in Nat \ {0}
      BY <1>4, AllocStep, TopFacts
    <2>2. ASSUME Top(cpu).sure
          PROVE  /\ i_next[cpu] + Need(Top(cpu).pc) + 2 * (Len(prog[cpu]) - 1) <= 2 * MaxNesting
                 /\ CanAlloc(cpu)
      <3>1. i_next[cpu] + Need(Top(cpu).pc) + 2 * (Len(prog[cpu]) - 1) <= 2 * MaxNesting
        BY <2>1, <2>2 DEF RoomInv, Room
      <3>2. Need(Top(cpu).pc) \in {1, 2}
        BY <2>1 DEF Need
      <3>3. QED BY <1>0, <2>1, <3>1, <3>2 DEF CanAlloc
    <2>3. CASE CanAlloc(cpu)
      <3>1. alloc_zero(cpu) /\ UNCHANGED hist
        BY <1>4, <2>3, AllocStep
      <3>2. PICK g \in Frames :
               /\ Steps(cpu, g) /\ g.sure = Top(cpu).sure
               /\ \/ Top(cpu).pc = "alloc" /\ g.pc = "header"
                  \/ Top(cpu).pc = "identity" /\ g.pc = "pipe"
        BY <1>4, <2>3, AllocStep
      <3>3. /\ SureOrder(cpu)' /\ Top(cpu)' = g /\ Len(prog'[cpu]) = Len(prog[cpu]) /\ Only(cpu)
        BY <2>1, <3>2, StepsOrder
      <3>4. Need(g.pc) + 1 = Need(Top(cpu).pc) /\ Need(g.pc) \in Nat
        BY <3>2 DEF Need
      <3>5. i_next'[cpu] = i_next[cpu] + 1 /\ \A c \in Cpus : c # cpu => i_next'[c] = i_next[c]
        BY <2>3, <3>1, AllocZero
      <3>6. ASSUME Top(cpu)'.sure
            PROVE  i_next'[cpu] + Need(Top(cpu)'.pc) + 2 * (Len(prog'[cpu]) - 1) <= 2 * MaxNesting
        <4>1. Top(cpu).sure
          BY <3>2, <3>3, <3>6
        <4>2. i_next[cpu] + Need(Top(cpu).pc) + 2 * (Len(prog[cpu]) - 1) <= 2 * MaxNesting
          BY <2>2, <4>1
        <4>3. QED BY <1>0, <2>1, <3>3, <3>4, <3>5, <4>2
      <3>7. Room(cpu)'
        BY <3>6 DEF Room
      <3>8. QED BY <3>1, <3>3, <3>5, <3>7, OtherRooms DEF RoomInv
    <2>4. CASE ~CanAlloc(cpu)
      <3>1. /\ Ends(cpu) /\ UNCHANGED i_next /\ ~Top(cpu).sure
            /\ hist' = [hist EXCEPT !.starved = @ + 1]
        BY <1>4, <2>2, <2>4, AllocStep DEF allocVars
      <3>2. hist'.refused = hist.refused
        BY <1>0, <3>1 DEF Histories
      <3>3. SureOrder(cpu)' /\ Only(cpu) /\ (prog'[cpu] # <<>> => ~Top(cpu)'.sure)
        BY <2>1, <3>1, EndsOrder
      <3>4. Room(cpu)'
        BY <3>3 DEF Room
      <3>5. QED BY <3>1, <3>2, <3>3, <3>4, OtherRooms DEF RoomInv
    <2>5. QED BY <2>3, <2>4
  <1>5. ASSUME NEW cpu \in Cpus, Fill(cpu) PROVE RoomInv'
    <2>1. prog[cpu] # <<>> /\ Top(cpu).pc \in {"header", "payload"} /\ UNCHANGED <<i_next, hist>>
      BY <1>5, FillStep
    <2>2. PICK g \in Frames :
             Steps(cpu, g) /\ g.pc \in {"payload", "identity", "pipe"} /\ g.sure = Top(cpu).sure
      BY <1>5, FillStep
    <2>3. SureOrder(cpu)' /\ Top(cpu)' = g /\ Len(prog'[cpu]) = Len(prog[cpu]) /\ Only(cpu)
      BY <2>1, <2>2, StepsOrder
    <2>4. Need(g.pc) \in 0..1 /\ Need(Top(cpu).pc) = 1
      BY <2>1, <2>2 DEF Need
    <2>5. Len(prog[cpu]) \in Nat \ {0}
      BY <2>1, TopFacts
    <2>6. ASSUME Top(cpu)'.sure
          PROVE  i_next'[cpu] + Need(Top(cpu)'.pc) + 2 * (Len(prog'[cpu]) - 1) <= 2 * MaxNesting
      <3>1. Top(cpu).sure
        BY <2>2, <2>3, <2>6
      <3>2. i_next[cpu] + 1 + 2 * (Len(prog[cpu]) - 1) <= 2 * MaxNesting
        BY <2>1, <2>4, <3>1 DEF RoomInv, Room
      <3>3. QED BY <1>0, <2>1, <2>3, <2>4, <2>5, <3>2
    <2>7. Room(cpu)'
      BY <2>6 DEF Room
    <2>8. QED BY <2>1, <2>3, <2>7, OtherRooms DEF RoomInv
  <1>6. ASSUME NEW cpu \in Cpus, pipe_event(cpu) PROVE RoomInv'
    <2>1. /\ prog[cpu] # <<>> /\ Top(cpu).pc = "pipe" /\ Ends(cpu) /\ UNCHANGED i_next
          /\ hist'.refused = hist.refused
      BY <1>6, PipeStep DEF allocVars
    <2>2. Len(prog[cpu]) \in Nat \ {0}
      BY <2>1, TopFacts
    <2>3. /\ SureOrder(cpu)' /\ Only(cpu) /\ Len(prog'[cpu]) = Len(prog[cpu]) - 1
          /\ prog'[cpu] # <<>> /\ Top(cpu)'.sure => Top(cpu).sure
      BY <2>1, EndsOrder
    <2>4. ASSUME prog'[cpu] # <<>>, Top(cpu)'.sure
          PROVE  i_next'[cpu] + Need(Top(cpu)'.pc) + 2 * (Len(prog'[cpu]) - 1) <= 2 * MaxNesting
      <3>1. i_next[cpu] + 2 * (Len(prog[cpu]) - 1) <= 2 * MaxNesting
        BY <1>0, <2>1, <2>2, <2>3, <2>4 DEF RoomInv, Room, Need
      <3>2. Need(Top(cpu)'.pc) \in 0..2
        BY DEF Need
      <3>3. QED BY <1>0, <2>1, <2>2, <2>3, <3>1, <3>2
    <2>5. Room(cpu)'
      BY <2>4 DEF Room
    <2>6. QED BY <2>1, <2>3, <2>5, OtherRooms DEF RoomInv
  <1>7. CASE CountEvent
    BY <1>1, <1>7, CountStep DEF allocVars
  <1>8. CASE \/ UNCHANGED pipeVars \/ SignalReady \/ Attach \/ CtrlC
             \/ \E cpu \in Cpus : OpenBuffer(cpu) \/ Read(cpu) \/ SendRecord(cpu)
    BY <1>1, <1>8 DEF pipeVars, allocVars, SignalReady, Attach, CtrlC, OpenBuffer, Read, SendRecord
  <1>9. QED
    BY <1>2, <1>3, <1>4, <1>5, <1>6, <1>7, <1>8 DEF PipeNext, ProgramStep

(* A program that resets the allocator finds it dry only if                    *)
(* docker_proxy_connect, which does not, cut into it: the programs share the *)
(* entries and the counter of their CPU and cut into each other, and two     *)
(* entries for every program that may be active on a CPU are enough.         *)
THEOREM HeapSuffices ==
    ASSUME 2 * MaxNesting <= MAX_ALLOCS
    PROVE  PipeSpec => []AllocatorSuffices
  <1>1. PipeInit => RoomInv
    BY DEF PipeInit, RoomInv, Room, SureOrder
  <1>2. PipeTypes /\ RoomInv /\ [PipeNext]_pipeVars => RoomInv'
    BY RoomNextInv
  <1>3. RoomInv => AllocatorSuffices
    BY DEF RoomInv, AllocatorSuffices
  <1>4. QED BY <1>1, <1>2, <1>3, PipeInitTypes, PipeNextTypes, PTL DEF PipeSpec

-----------------------------------------------------------------------------
(* Whose event a record is. *)

Own(rec) == ~rec.cut => rec.header = rec.by.kind /\ rec.payload = rec.by

BufferOwn(cpu) ==
    buffers[cpu] # NONE => \A i \in 1..Len(buffers[cpu]) : Own(buffers[cpu][i])

\* Of the programs under the running one, those with a buffer have been cut into ...
Under(cpu) ==
    \A i \in 1..(Len(prog[cpu]) - 1) : prog[cpu][i].pc \in Holding => prog[cpu][i].cut

\* ... and if the running one has not, its buffer is the last one handed out and
\* holds what it has written.
TopOwn(cpu) ==
    LET top  == Top(cpu)
        cell == HEAP[cpu][top.slot]
    IN  prog[cpu] # <<>> /\ ~top.cut =>
            /\ top.pc \in {"header", "payload", "identity"} => top.slot + 1 = i_next[cpu]
            /\ top.pc \in {"payload", "identity", "pipe"} => cell.header = top.ev.kind
            /\ top.pc \in {"identity", "pipe"} => cell.payload = top.ev

OwnInv == \A cpu \in Cpus : BufferOwn(cpu) /\ Under(cpu) /\ TopOwn(cpu)

LEMMA OtherOwn ==
    ASSUME OwnInv, NEW cpu \in Cpus, Only(cpu), BufferOwn(cpu)', Under(cpu)', TopOwn(cpu)',
           \A c \in Cpus : c # cpu =>
               i_next'[c] = i_next[c] /\ HEAP'[c] = HEAP[c] /\ buffers'[c] = buffers[c]
    PROVE  OwnInv'
  <1> SUFFICES ASSUME NEW c \in Cpus, c # cpu PROVE BufferOwn(c)' /\ Under(c)' /\ TopOwn(c)'
    BY DEF OwnInv
  <1>1. /\ prog'[c] = prog[c] /\ i_next'[c] = i_next[c] /\ HEAP'[c] = HEAP[c]
        /\ buffers'[c] = buffers[c]
    BY DEF Only
  <1>2. BufferOwn(c) /\ Under(c) /\ TopOwn(c)
    BY DEF OwnInv
  <1>3. QED BY <1>1, <1>2 DEF BufferOwn, Under, TopOwn, Top, Own

(* Of the stack, what is under the running program. *)
LEMMA UnderSteps ==
    ASSUME NEW cpu \in Cpus, Under(cpu), NEW g, Steps(cpu, g)
    PROVE  Under(cpu)' /\ Top(cpu)' = g /\ Only(cpu)
  BY DEF Under, Steps, Top

LEMMA UnderEnds ==
    ASSUME PipeTypes, NEW cpu \in Cpus, prog[cpu] # <<>>, Under(cpu), Ends(cpu),
           UNCHANGED allocVars
    PROVE  Under(cpu)' /\ TopOwn(cpu)' /\ Only(cpu)
  <1> DEFINE n == Len(prog[cpu])
  <1>1. n \in Nat \ {0}
    BY TopFacts
  <1>2. Only(cpu) /\ Len(prog'[cpu]) = n - 1 /\ \A i \in 1..(n - 1) : prog'[cpu][i] = prog[cpu][i]
    BY DEF Ends
  <1>3. Under(cpu)'
    BY <1>1, <1>2 DEF Under
  <1>4. ASSUME prog'[cpu] # <<>> PROVE Top(cpu)'.pc \in Holding => Top(cpu)'.cut
    <2>1. n - 1 \in 1..(n - 1)
      <3>1. prog'[cpu] \in Seq(Frames)
        BY <1>2 DEF Only
      <3>2. Len(prog'[cpu]) # 0
        BY <1>4, <3>1, EmptySeq
      <3>3. n - 1 # 0
        BY <1>2, <3>2
      <3> HIDE DEF n
      <3>4. QED BY <1>1, <3>3
    <2>2. Top(cpu)' = prog[cpu][n - 1]
      BY <1>2, <2>1 DEF Top
    <2>3. QED BY <2>1, <2>2 DEF Under
  <1>5. TopOwn(cpu)'
    BY <1>4 DEF TopOwn, Holding
  <1>6. QED BY <1>2, <1>3, <1>5

LEMMA OwnNextInv == PipeTypes /\ OwnInv /\ [PipeNext]_pipeVars => OwnInv'
  <1> SUFFICES ASSUME PipeTypes, OwnInv, [PipeNext]_pipeVars PROVE OwnInv' OBVIOUS
  <1>0. ASSUME NEW cpu \in Cpus, UNCHANGED buffers PROVE BufferOwn(cpu)'
    BY <1>0 DEF OwnInv, BufferOwn, Own
  <1>1. ASSUME UNCHANGED <<prog, allocVars, buffers>> PROVE OwnInv'
    BY <1>1 DEF allocVars, OwnInv, BufferOwn, Under, TopOwn, Top, Own
  <1>2. ASSUME NEW cpu \in Cpus, NEW e \in Events, NEW resets \in BOOLEAN,
               StartProgram(cpu, e, resets)
        PROVE  OwnInv'
    <2>1. Starts(cpu, e, resets) /\ UNCHANGED <<allocVars, buffers>>
      BY <1>2, StartStep
    <2>2. Only(cpu) /\ Top(cpu)' = Fresh(e, resets)
      BY <2>1 DEF Starts, Top
    <2>3. Top(cpu)'.pc \in {"init", "alloc"}
      BY <2>2 DEF Fresh
    <2>4. TopOwn(cpu)'
      BY <2>3 DEF TopOwn
    <2>5. Under(cpu)'
      <3>1. Len(prog[cpu]) \in Nat
        BY DEF PipeTypes, ProgTypes
      <3>2. /\ Len(prog'[cpu]) = Len(prog[cpu]) + 1
            /\ \A i \in 1..Len(prog[cpu]) :
                  /\ prog'[cpu][i].pc = prog[cpu][i].pc
                  /\ prog'[cpu][i].cut = (prog[cpu][i].cut \/ prog[cpu][i].pc \in Holding)
        BY <2>1 DEF Starts, CutFrom
      <3>3. \A i \in 1..(Len(prog'[cpu]) - 1) : i \in 1..Len(prog[cpu])
        BY <3>1, <3>2
      <3>4. QED BY <3>2, <3>3, Zenon DEF Under
    <2>6. QED BY <1>0, <2>1, <2>2, <2>4, <2>5, OtherOwn DEF allocVars
  <1>3. ASSUME NEW cpu \in Cpus, InitAllocator(cpu) PROVE OwnInv'
    <2>1. PICK g \in Frames : Steps(cpu, g) /\ g.pc = "alloc"
      BY <1>3, InitStep
    <2>2. /\ UNCHANGED <<HEAP, buffers>> /\ \A c \in Cpus : c # cpu => i_next'[c] = i_next[c]
      BY <1>3, InitStep DEF PipeTypes, AllocTypes
    <2>3. Under(cpu)' /\ Top(cpu)' = g /\ Only(cpu)
      BY <2>1, UnderSteps DEF OwnInv
    <2>4. TopOwn(cpu)'
      BY <2>1, <2>3 DEF TopOwn
    <2>5. QED BY <1>0, <2>2, <2>3, <2>4, OtherOwn
  <1>4. ASSUME NEW cpu \in Cpus, Alloc(cpu) PROVE OwnInv'
    <2>1. prog[cpu] # <<>> /\ UNCHANGED buffers
      BY <1>4, AllocStep
    <2>2. CASE ~CanAlloc(cpu)
      <3>1. Ends(cpu) /\ UNCHANGED allocVars
        BY <1>4, <2>2, AllocStep
      <3>2. Under(cpu)' /\ TopOwn(cpu)' /\ Only(cpu)
        BY <2>1, <3>1, UnderEnds DEF OwnInv
      <3>3. QED BY <1>0, <2>1, <3>1, <3>2, OtherOwn DEF allocVars
    <2>3. CASE CanAlloc(cpu)
      <3>1. alloc_zero(cpu)
        BY <1>4, <2>3, AllocStep
      <3>2. PICK g \in Frames :
               /\ Steps(cpu, g) /\ g.ev = Top(cpu).ev /\ g.cut = Top(cpu).cut
               /\ \/ Top(cpu).pc = "alloc" /\ g.pc = "header" /\ g.slot = i_next[cpu]
                  \/ Top(cpu).pc = "identity" /\ g.pc = "pipe" /\ g.slot = Top(cpu).slot
        BY <1>4, <2>3, AllocStep
      <3>3. Under(cpu)' /\ Top(cpu)' = g /\ Only(cpu)
        BY <3>2, UnderSteps DEF OwnInv
      <3>4. /\ i_next[cpu] \in Slots /\ i_next'[cpu] = i_next[cpu] + 1
            /\ \A k \in Slots : k # i_next[cpu] => HEAP'[cpu][k] = HEAP[cpu][k]
            /\ \A c \in Cpus : c # cpu => i_next'[c] = i_next[c] /\ HEAP'[c] = HEAP[c]
        BY <2>3, <3>1, AllocZero
      <3>5. TopOwn(cpu)'
        <4>1. CASE g.pc = "header" /\ g.slot = i_next[cpu]
          BY <3>3, <3>4, <4>1 DEF TopOwn
        <4>2. CASE Top(cpu).pc = "identity" /\ g.pc = "pipe" /\ g.slot = Top(cpu).slot /\ ~g.cut
          <5>1. /\ g.slot + 1 = i_next[cpu]
                /\ HEAP[cpu][g.slot].header = g.ev.kind /\ HEAP[cpu][g.slot].payload = g.ev
            BY <2>1, <3>2, <4>2 DEF OwnInv, TopOwn
          <5>2. g.slot \in Slots /\ g.slot # i_next[cpu]
            BY <3>2, <5>1 DEF Frames, Slots
          <5>3. HEAP'[cpu][g.slot] = HEAP[cpu][g.slot]
            BY <3>4, <5>2
          <5>4. QED BY <3>3, <4>2, <5>1, <5>3 DEF TopOwn
        <4>3. CASE g.cut
          BY <3>3, <4>3 DEF TopOwn
        <4>4. QED BY <3>2, <4>1, <4>2, <4>3
      <3>6. QED BY <1>0, <2>1, <3>3, <3>4, <3>5, OtherOwn
    <2>4. QED BY <2>2, <2>3
  <1>5. ASSUME NEW cpu \in Cpus, Fill(cpu) PROVE OwnInv'
    <2> DEFINE top == Top(cpu)
    <2>1. /\ prog[cpu] # <<>> /\ UNCHANGED <<i_next, buffers>>
          /\ \A c \in Cpus : c # cpu => HEAP'[c] = HEAP[c]
      BY <1>5, FillStep
    <2>2. PICK g \in Frames :
             /\ Steps(cpu, g) /\ g.ev = top.ev /\ g.slot = top.slot /\ g.cut = top.cut
             /\ \/ /\ top.pc = "header" /\ g.pc = "payload"
                   /\ HEAP'[cpu][top.slot].header = top.ev.kind
                \/ /\ top.pc = "payload" /\ g.pc \in {"identity", "pipe"}
                   /\ HEAP'[cpu][top.slot].header = HEAP[cpu][top.slot].header
                   /\ HEAP'[cpu][top.slot].payload = top.ev
      BY <1>5, FillStep
    <2>3. Under(cpu)' /\ Top(cpu)' = g /\ Only(cpu)
      BY <2>2, UnderSteps DEF OwnInv
    <2>4. TopOwn(cpu)
      BY DEF OwnInv
    <2>5. TopOwn(cpu)'
      BY <2>1, <2>2, <2>3, <2>4 DEF TopOwn
    <2>6. QED BY <1>0, <2>1, <2>3, <2>5, OtherOwn
  <1>6. ASSUME NEW cpu \in Cpus, pipe_event(cpu) PROVE OwnInv'
    <2>1. /\ prog[cpu] # <<>> /\ Top(cpu).pc = "pipe" /\ Ends(cpu) /\ UNCHANGED allocVars
      BY <1>6, PipeStep
    <2>2. Under(cpu)' /\ TopOwn(cpu)' /\ Only(cpu)
      BY <2>1, UnderEnds DEF OwnInv
    <2>3. CASE UNCHANGED buffers
      BY <1>0, <2>1, <2>2, <2>3, OtherOwn DEF allocVars
    <2>4. ASSUME NEW rec \in Records, buffers[cpu] # NONE,
                 buffers' = [buffers EXCEPT ![cpu] = Append(@, rec)],
                 rec.by = Top(cpu).ev, rec.cut = Top(cpu).cut,
                 rec.header = HEAP[cpu][Top(cpu).slot].header,
                 rec.payload = HEAP[cpu][Top(cpu).slot].payload
          PROVE  OwnInv'
      <3>1. Own(rec)
        BY <2>1, <2>4 DEF OwnInv, TopOwn, Own
      <3>2. /\ buffers[cpu] \in Seq(Records) /\ Len(buffers[cpu]) \in Nat
            /\ buffers \in [Cpus -> {NONE} \cup Seq(Records)]
        BY <2>4 DEF PipeTypes, QueueTypes
      <3> DEFINE s == Append(buffers[cpu], rec)
      <3>3. /\ Len(s) = Len(buffers[cpu]) + 1 /\ s[Len(buffers[cpu]) + 1] = rec
            /\ \A i \in 1..Len(buffers[cpu]) : s[i] = buffers[cpu][i]
        BY <3>2, AppendProperties
      <3>4. buffers'[cpu] = s /\ \A c \in Cpus : c # cpu => buffers'[c] = buffers[c]
        BY <2>4, <3>2
      <3> HIDE DEF s
      <3>5. \A i \in 1..Len(buffers[cpu]) : Own(buffers[cpu][i])
        BY <2>4 DEF OwnInv, BufferOwn
      <3>6. \A i \in 1..Len(s) : Own(s[i])
        BY <3>1, <3>2, <3>3, <3>5
      <3>7. BufferOwn(cpu)'
        BY <3>4, <3>6 DEF BufferOwn, Own
      <3>8. QED BY <2>1, <2>2, <3>4, <3>7, OtherOwn DEF allocVars
    <2>5. QED BY <1>6, <2>3, <2>4, PipeStep
  <1>7. ASSUME NEW cpu \in Cpus, OpenBuffer(cpu) PROVE OwnInv'
    <2>1. UNCHANGED <<allocVars, prog>>
      BY <1>7 DEF OpenBuffer
    <2>2. CASE buffers' = [buffers EXCEPT ![cpu] = <<>>]
      <3>1. buffers'[cpu] = <<>> /\ \A c \in Cpus : c # cpu => buffers'[c] = buffers[c]
        BY <2>2 DEF PipeTypes, QueueTypes
      <3>2. BufferOwn(cpu)'
        BY <3>1 DEF BufferOwn
      <3>3. Only(cpu) /\ Under(cpu)' /\ TopOwn(cpu)'
        BY <2>1 DEF PipeTypes, ProgTypes, Only, OwnInv, Under, TopOwn, Top, allocVars
      <3>4. QED BY <2>1, <3>1, <3>2, <3>3, OtherOwn DEF allocVars
    <2>3. QED BY <1>1, <1>7, <2>1, <2>2 DEF OpenBuffer
  <1>8. ASSUME NEW cpu \in Cpus, Read(cpu) PROVE OwnInv'
    <2>1. /\ UNCHANGED <<allocVars, prog>> /\ buffers[cpu] # NONE /\ buffers[cpu] \in Seq(Records)
      BY <1>8, ReadStep
    <2>2. PICK n \in Nat : Takes(cpu, n)
      BY <1>8, ReadStep
    <2> DEFINE b == buffers[cpu]
               r == SubSeq(b, n + 1, Len(b))
    <2>3. Len(b) \in Nat /\ n <= Len(b) /\ \A i \in 1..Len(b) : b[i] \in Records
      BY <2>1, <2>2, ElementOfSeq DEF Takes
    <2>4. n + 1 \in Int /\ Len(b) \in Int /\ \A i \in (n + 1)..Len(b) : b[i] \in Records
      BY <2>3
    <2>5. /\ Len(r) = IF n + 1 <= Len(b) THEN Len(b) - (n + 1) + 1 ELSE 0
          /\ \A i \in 1..(Len(b) - (n + 1) + 1) : r[i] = b[n + 1 + i - 1]
      BY <2>4, SubSeqProperties
    <2>6. buffers'[cpu] = r /\ \A c \in Cpus : c # cpu => buffers'[c] = buffers[c]
      BY <2>2 DEF Takes, PipeTypes, QueueTypes
    <2> HIDE DEF r
    <2>7. \A i \in 1..Len(b) : Own(b[i])
      BY <2>1 DEF OwnInv, BufferOwn
    <2>8. ASSUME NEW i \in 1..Len(r) PROVE Own(r[i])
      <3>1. i \in 1..(Len(b) - (n + 1) + 1) /\ n + 1 + i - 1 \in 1..Len(b)
        BY <2>3, <2>5
      <3>2. QED BY <2>5, <2>7, <3>1
    <2>9. BufferOwn(cpu)'
      BY <2>6, <2>8 DEF BufferOwn, Own
    <2>10. Only(cpu) /\ Under(cpu)' /\ TopOwn(cpu)'
      BY <2>1 DEF PipeTypes, ProgTypes, Only, OwnInv, Under, TopOwn, Top, allocVars
    <2>11. QED BY <2>1, <2>6, <2>9, <2>10, OtherOwn DEF allocVars
  <1>9. CASE CountEvent
    BY <1>1, <1>9, CountStep
  <1>10. CASE \/ UNCHANGED pipeVars \/ SignalReady \/ Attach \/ CtrlC
              \/ \E cpu \in Cpus : SendRecord(cpu)
    BY <1>1, <1>10 DEF pipeVars, SignalReady, Attach, CtrlC, SendRecord
  <1>11. QED
    BY <1>2, <1>3, <1>4, <1>5, <1>6, <1>7, <1>8, <1>9, <1>10 DEF PipeNext, ProgramStep

(* A record in a perf buffer is the event its program reported, header and    *)
(* payload, unless another program ran on the same CPU while it held its     *)
(* buffer: the programs share one heap and one counter per CPU, and nothing  *)
(* but the order in which they run keeps their buffers apart.                *)
THEOREM RecordsAreOwn == PipeSpec => []RecordIsOwn
  <1>1. PipeInit => OwnInv
    <2> SUFFICES ASSUME PipeInit, NEW cpu \in Cpus
                 PROVE  BufferOwn(cpu) /\ Under(cpu) /\ TopOwn(cpu)
      BY DEF OwnInv
    <2>1. prog[cpu] = <<>> /\ buffers[cpu] = NONE /\ Len(<<>>) = 0
      BY DEF PipeInit
    <2>2. QED BY <2>1 DEF BufferOwn, Under, TopOwn
  <1>2. PipeTypes /\ OwnInv => RecordIsOwn
    <2> SUFFICES ASSUME PipeTypes, OwnInv, NEW cpu \in Cpus, NEW i \in DOMAIN Buffered(cpu)
                 PROVE  Own(buffers[cpu][i])
      BY DEF RecordIsOwn, Own
    <2>1. buffers[cpu] # NONE /\ Buffered(cpu) = buffers[cpu]
      BY DEF Buffered
    <2>2. i \in 1..Len(buffers[cpu])
      BY <2>1 DEF PipeTypes, QueueTypes
    <2>3. QED BY <2>1, <2>2 DEF OwnInv, BufferOwn
  <1>3. QED BY <1>1, <1>2, PipeInitTypes, PipeNextTypes, OwnNextInv, PTL DEF PipeSpec

-----------------------------------------------------------------------------
(* Sums over finite sets.  The folds are recursive functions on the subsets   *)
(* of the set: that there is such a function, that there is only one and     *)
(* what it computes are shown on a minimal subset that would be a            *)
(* counterexample.                                                           *)

\* The order of a fold, and the equation of its recursive function.
Pick(s) == CHOOSE x \in s : TRUE
SumEq(g, fun, S) ==
    g = [s \in SUBSET S |-> IF s = {} THEN 0 ELSE fun[Pick(s)] + g[s \ {Pick(s)}]]

LEMMA SumDef == ASSUME NEW fun, NEW S
  PROVE SumFunctionOnSet(fun, S) = (CHOOSE g : SumEq(g, fun, S))[S]
  BY DEF SumFunctionOnSet, FoldFunctionOnSet, MapThenFoldSet, SumEq, Pick

(* A set of subsets of a finite set has a minimal element. *)
LEMMA MinimalSubset ==
    ASSUME NEW S, IsFiniteSet(S), NEW C \in SUBSET (SUBSET S), C # {}
    PROVE  \E T \in C : /\ IsFiniteSet(T)
                        /\ \A U \in SUBSET T : U # T => U \notin C
  <1>1. C \subseteq FiniteSubsetsOf(S)
    BY FS_Subset DEF FiniteSubsetsOf
  <1>2. PICK T \in C : \A U \in C : <<U, T>> \notin StrictSubsetOrdering(S)
    BY <1>1, FS_StrictSubsetOrderingWellFounded, WFMin
  <1>3. IsFiniteSet(T)
    BY FS_Subset
  <1>4. ASSUME NEW U \in SUBSET T, U # T, U \in C PROVE FALSE
    BY <1>2, <1>4 DEF StrictSubsetOrdering
  <1>5. QED BY <1>3, <1>4

LEMMA PickIn == ASSUME NEW s, s # {} PROVE Pick(s) \in s
  BY DEF Pick

LEMMA SumUnique ==
    ASSUME NEW fun, NEW S, IsFiniteSet(S), NEW T \in SUBSET S,
           NEW g, SumEq(g, fun, S), NEW h, SumEq(h, fun, T)
    PROVE  g[T] = h[T]
  <1> DEFINE C == {s \in SUBSET T : g[s] # h[s]}
  <1>1. SUFFICES ASSUME C # {} PROVE FALSE
    OBVIOUS
  <1>2. PICK s \in C : \A u \in SUBSET s : u # s => u \notin C
    <2>1. IsFiniteSet(T) /\ C \in SUBSET (SUBSET T)
      BY FS_Subset
    <2> HIDE DEF C
    <2>2. QED BY <1>1, <2>1, MinimalSubset
  <1>3. /\ g[s] = IF s = {} THEN 0 ELSE fun[Pick(s)] + g[s \ {Pick(s)}]
        /\ h[s] = IF s = {} THEN 0 ELSE fun[Pick(s)] + h[s \ {Pick(s)}]
    BY DEF SumEq
  <1>4. s # {} => g[s \ {Pick(s)}] = h[s \ {Pick(s)}]
    BY <1>2, PickIn
  <1>5. QED BY <1>3, <1>4

LEMMA SumExists ==
    ASSUME NEW fun, NEW S, IsFiniteSet(S) PROVE \E g : SumEq(g, fun, S)
  <1> DEFINE C == {T \in SUBSET S : ~\E g : SumEq(g, fun, T)}
  <1>1. SUFFICES ASSUME C # {} PROVE FALSE
    OBVIOUS
  <1>2. PICK T \in C : IsFiniteSet(T) /\ \A U \in SUBSET T : U # T => U \notin C
    <2>1. C \in SUBSET (SUBSET S)
      OBVIOUS
    <2> HIDE DEF C
    <2>2. QED BY <1>1, <2>1, MinimalSubset
  <1> DEFINE V(U) == (CHOOSE g : SumEq(g, fun, U))[U]
             G == [s \in SUBSET T |-> IF s = {} THEN 0 ELSE fun[Pick(s)] + V(s \ {Pick(s)})]
  <1>3. ASSUME NEW U \in SUBSET T, U # T PROVE SumEq(CHOOSE g : SumEq(g, fun, U), fun, U)
    BY <1>2, <1>3
  <1>4. ASSUME NEW U \in SUBSET T, U # T PROVE V(U) = G[U]
    <2> DEFINE g == CHOOSE g : SumEq(g, fun, U)
    <2>1. SumEq(g, fun, U)
      BY <1>3, <1>4
    <2>2. g[U] = IF U = {} THEN 0 ELSE fun[Pick(U)] + g[U \ {Pick(U)}]
      <3> HIDE DEF g
      <3>1. QED BY <2>1 DEF SumEq
    <2>3. CASE U = {}
      BY <2>2, <2>3
    <2>4. CASE U # {}
      <3> DEFINE W == U \ {Pick(U)}
                 h == CHOOSE h : SumEq(h, fun, W)
      <3>1. W \in SUBSET U /\ W \in SUBSET T /\ W # T
        BY <2>4, PickIn
      <3>2. SumEq(h, fun, W)
        BY <1>3, <3>1
      <3>3. g[W] = h[W]
        <4>1. IsFiniteSet(U)
          BY <1>2, FS_Subset
        <4> HIDE DEF g, h, W
        <4>2. QED BY <2>1, <3>1, <3>2, <4>1, SumUnique
      <3>4. G[U] = fun[Pick(U)] + h[W]
        BY <2>4
      <3>5. QED BY <2>2, <2>4, <3>3, <3>4
    <2>5. QED BY <2>3, <2>4
  <1>5. ASSUME NEW s \in SUBSET T, s # {} PROVE V(s \ {Pick(s)}) = G[s \ {Pick(s)}]
    BY <1>4, <1>5, PickIn
  <1>6. SumEq(G, fun, T)
    <2>1. G = [s \in SUBSET T |-> IF s = {} THEN 0 ELSE fun[Pick(s)] + G[s \ {Pick(s)}]]
      <3> DEFINE H == [s \in SUBSET T |-> IF s = {} THEN 0 ELSE fun[Pick(s)] + G[s \ {Pick(s)}]]
      <3>1. ASSUME NEW s \in SUBSET T PROVE G[s] = H[s]
        <4>1. CASE s = {}
          BY <4>1
        <4>2. CASE s # {}
          <5>1. G[s] = fun[Pick(s)] + V(s \ {Pick(s)})
            BY <4>2
          <5>2. H[s] = fun[Pick(s)] + G[s \ {Pick(s)}]
            <6> HIDE DEF G
            <6>1. QED BY <4>2
          <5> HIDE DEF G, H, V
          <5>3. QED BY <5>1, <5>2, <4>2, <1>5
        <4>3. QED BY <4>1, <4>2
      <3>2. DOMAIN G = SUBSET T /\ DOMAIN H = SUBSET T
        OBVIOUS
      <3>3. G = [s \in SUBSET T |-> G[s]] /\ H = [s \in SUBSET T |-> H[s]]
        OBVIOUS
      <3> HIDE DEF G, H
      <3>4. G = H
        BY <3>1, <3>2, <3>3
      <3> USE DEF H
      <3>5. QED BY <3>4
    <2> HIDE DEF G
    <2>2. QED BY <2>1 DEF SumEq
  <1> HIDE DEF G
  <1>7. QED BY <1>2, <1>6

(* The sum over a set is its own recursive equation. *)
LEMMA SumRec ==
    ASSUME NEW fun, NEW S, IsFiniteSet(S)
    PROVE  SumFunctionOnSet(fun, S)
             = IF S = {} THEN 0
               ELSE fun[Pick(S)] + SumFunctionOnSet(fun, S \ {Pick(S)})
  <1> DEFINE g == CHOOSE g : SumEq(g, fun, S)
  <1>1. SumEq(g, fun, S)
    BY SumExists
  <1>2. SumFunctionOnSet(fun, S) = g[S]
    BY SumDef
  <1>3. g[S] = IF S = {} THEN 0 ELSE fun[Pick(S)] + g[S \ {Pick(S)}]
    <2> HIDE DEF g
    <2>1. QED BY <1>1 DEF SumEq
  <1>4. ASSUME S # {} PROVE g[S \ {Pick(S)}] = SumFunctionOnSet(fun, S \ {Pick(S)})
    <2> DEFINE T == S \ {Pick(S)}
               h == CHOOSE h : SumEq(h, fun, T)
    <2>1. T \in SUBSET S /\ IsFiniteSet(T)
      BY FS_Subset
    <2>2. SumEq(h, fun, T)
      BY <2>1, SumExists
    <2>3. SumFunctionOnSet(fun, T) = h[T]
      BY SumDef
    <2> HIDE DEF g, h, T
    <2>4. g[T] = h[T]
      BY <1>1, <2>1, <2>2, SumUnique
    <2> USE DEF T
    <2>5. QED BY <2>3, <2>4
  <1> HIDE DEF g
  <1>5. QED BY <1>2, <1>3, <1>4

LEMMA SumEmpty == ASSUME NEW fun PROVE SumFunctionOnSet(fun, {}) = 0
  BY SumRec, FS_EmptySet

LEMMA SumType ==
    ASSUME NEW fun, NEW S, IsFiniteSet(S), \A x \in S : fun[x] \in Nat
    PROVE  SumFunctionOnSet(fun, S) \in Nat
  <1> DEFINE C == {T \in SUBSET S : SumFunctionOnSet(fun, T) \notin Nat}
  <1>1. SUFFICES ASSUME C # {} PROVE FALSE
    OBVIOUS
  <1>2. PICK T \in C : IsFiniteSet(T) /\ \A U \in SUBSET T : U # T => U \notin C
    <2>1. C \in SUBSET (SUBSET S)
      OBVIOUS
    <2> HIDE DEF C
    <2>2. QED BY <1>1, <2>1, MinimalSubset
  <1>3. T # {}
    BY SumEmpty
  <1>4. Pick(T) \in T /\ SumFunctionOnSet(fun, T \ {Pick(T)}) \in Nat
    BY <1>2, <1>3, PickIn
  <1>5. QED BY <1>2, <1>3, <1>4, SumRec

(* Any element can be taken out first. *)
LEMMA SumRemove ==
    ASSUME NEW fun, NEW S, IsFiniteSet(S), \A y \in S : fun[y] \in Nat, NEW x \in S
    PROVE  SumFunctionOnSet(fun, S) = fun[x] + SumFunctionOnSet(fun, S \ {x})
  <1> DEFINE Q(T) == \A y \in T : SumFunctionOnSet(fun, T) = fun[y] + SumFunctionOnSet(fun, T \ {y})
             C == {T \in SUBSET S : ~Q(T)}
  <1>1. SUFFICES ASSUME C # {} PROVE FALSE
    OBVIOUS
  <1>2. PICK T \in C : IsFiniteSet(T) /\ \A U \in SUBSET T : U # T => U \notin C
    <2>1. C \in SUBSET (SUBSET S)
      OBVIOUS
    <2> HIDE DEF C
    <2>2. QED BY <1>1, <2>1, MinimalSubset
  <1>3. PICK y \in T : SumFunctionOnSet(fun, T) # fun[y] + SumFunctionOnSet(fun, T \ {y})
    OBVIOUS
  <1> DEFINE c == Pick(T)
             rest == T \ {c, y}
  <1>4. c \in T /\ SumFunctionOnSet(fun, T) = fun[c] + SumFunctionOnSet(fun, T \ {c})
    BY <1>2, SumRec, PickIn
  <1>5. c # y
    BY <1>3, <1>4
  <1>6. Q(T \ {c}) /\ Q(T \ {y})
    BY <1>2, <1>4
  <1>7. (T \ {c}) \ {y} = rest /\ (T \ {y}) \ {c} = rest
    OBVIOUS
  <1>8. /\ SumFunctionOnSet(fun, T \ {c}) = fun[y] + SumFunctionOnSet(fun, rest)
        /\ SumFunctionOnSet(fun, T \ {y}) = fun[c] + SumFunctionOnSet(fun, rest)
    BY <1>4, <1>5, <1>6, <1>7
  <1>9. fun[c] \in Nat /\ fun[y] \in Nat /\ SumFunctionOnSet(fun, rest) \in Nat
    <2>1. IsFiniteSet(rest) /\ \A z \in rest : fun[z] \in Nat
      BY <1>2, FS_Subset
    <2> HIDE DEF rest
    <2>2. QED BY <1>4, <2>1, SumType
  <1> HIDE DEF rest, c
  <1>10. QED BY <1>3, <1>4, <1>8, <1>9

LEMMA SumSame ==
    ASSUME NEW f, NEW g, NEW S, IsFiniteSet(S), \A x \in S : f[x] = g[x]
    PROVE  SumFunctionOnSet(f, S) = SumFunctionOnSet(g, S)
  <1> DEFINE C == {T \in SUBSET S : SumFunctionOnSet(f, T) # SumFunctionOnSet(g, T)}
  <1>1. SUFFICES ASSUME C # {} PROVE FALSE
    OBVIOUS
  <1>2. PICK T \in C : IsFiniteSet(T) /\ \A U \in SUBSET T : U # T => U \notin C
    <2>1. C \in SUBSET (SUBSET S)
      OBVIOUS
    <2> HIDE DEF C
    <2>2. QED BY <1>1, <2>1, MinimalSubset
  <1>3. T # {}
    BY SumEmpty
  <1>4. /\ Pick(T) \in T
        /\ SumFunctionOnSet(f, T \ {Pick(T)}) = SumFunctionOnSet(g, T \ {Pick(T)})
    BY <1>2, <1>3, PickIn
  <1>5. f[Pick(T)] = g[Pick(T)]
    BY <1>4
  <1>6. QED BY <1>2, <1>3, <1>4, <1>5, SumRec

(* One value changed by d, the others left alone. *)
LEMMA SumChange ==
    ASSUME NEW f, NEW g, NEW S, IsFiniteSet(S), NEW x \in S,
           \A y \in S : f[y] \in Nat /\ g[y] \in Nat,
           \A y \in S \ {x} : g[y] = f[y]
    PROVE  SumFunctionOnSet(g, S) = SumFunctionOnSet(f, S) + g[x] - f[x]
  <1>1. /\ SumFunctionOnSet(f, S) = f[x] + SumFunctionOnSet(f, S \ {x})
        /\ SumFunctionOnSet(g, S) = g[x] + SumFunctionOnSet(g, S \ {x})
    BY SumRemove
  <1>2. IsFiniteSet(S \ {x})
    BY FS_Subset
  <1>3. SumFunctionOnSet(f, S \ {x}) = SumFunctionOnSet(g, S \ {x})
    BY <1>2, SumSame
  <1>4. SumFunctionOnSet(f, S \ {x}) \in Nat
    BY <1>2, SumType
  <1>5. f[x] \in Nat /\ g[x] \in Nat
    OBVIOUS
  <1>6. QED BY <1>1, <1>3, <1>4, <1>5

LEMMA SumZero ==
    ASSUME NEW f, NEW S, IsFiniteSet(S), \A x \in S : f[x] = 0
    PROVE  SumFunctionOnSet(f, S) = 0
  <1> DEFINE C == {T \in SUBSET S : SumFunctionOnSet(f, T) # 0}
  <1>1. SUFFICES ASSUME C # {} PROVE FALSE
    OBVIOUS
  <1>2. PICK T \in C : IsFiniteSet(T) /\ \A U \in SUBSET T : U # T => U \notin C
    <2>1. C \in SUBSET (SUBSET S)
      OBVIOUS
    <2> HIDE DEF C
    <2>2. QED BY <1>1, <2>1, MinimalSubset
  <1>3. T # {}
    BY SumEmpty
  <1>4. Pick(T) \in T /\ SumFunctionOnSet(f, T \ {Pick(T)}) = 0
    BY <1>2, <1>3, PickIn
  <1>5. f[Pick(T)] = 0
    BY <1>4
  <1>6. QED BY <1>2, <1>3, <1>4, <1>5, SumRec

(* Counting an event adds one to the sum over any set its key is in. *)
LEMMA CountedSum ==
    ASSUME NEW m, NEW S, IsFiniteSet(S), \A x \in DOMAIN m : m[x] \in Nat, NEW k
    PROVE  SumFunctionOnSet(Counted(m, k), S \cap DOMAIN Counted(m, k))
             = SumFunctionOnSet(m, S \cap DOMAIN m) + (IF k \in S THEN 1 ELSE 0)
  <1> DEFINE n == Counted(m, k)
             T == S \cap DOMAIN m
  <1>1. /\ DOMAIN n = DOMAIN m \cup {k}
        /\ \A x \in DOMAIN m \ {k} : n[x] = m[x]
        /\ n[k] = IF k \in DOMAIN m THEN m[k] + 1 ELSE 1
        /\ \A x \in DOMAIN n : n[x] \in Nat
    BY DEF Counted, Put
  <1>2. IsFiniteSet(T) /\ IsFiniteSet(T \cup {k}) /\ \A x \in T : m[x] \in Nat
    BY FS_Subset, FS_AddElement
  <1>3. SumFunctionOnSet(m, T) \in Nat
    BY <1>2, SumType
  <1> HIDE DEF n
  <1>4. CASE k \notin S
    <2>1. S \cap DOMAIN n = T /\ \A x \in T : n[x] = m[x]
      BY <1>1, <1>4
    <2>2. SumFunctionOnSet(n, T) = SumFunctionOnSet(m, T)
      BY <1>2, <2>1, SumSame
    <2>3. QED BY <1>3, <1>4, <2>1, <2>2 DEF n
  <1>5. CASE k \in T
    <2>1. S \cap DOMAIN n = T /\ \A x \in T \ {k} : n[x] = m[x]
      BY <1>1, <1>5
    <2>2. \A x \in T : m[x] \in Nat /\ n[x] \in Nat
      BY <1>1, <1>2
    <2>3. SumFunctionOnSet(n, T) = SumFunctionOnSet(m, T) + n[k] - m[k]
      <3> HIDE DEF T
      <3>1. QED BY <1>2, <1>5, <2>1, <2>2, SumChange
    <2>4. n[k] = m[k] + 1 /\ m[k] \in Nat /\ k \in S
      BY <1>1, <1>5
    <2> HIDE DEF T
    <2>5. SumFunctionOnSet(n, T) = SumFunctionOnSet(m, T) + 1
      BY <1>3, <2>3, <2>4
    <2>6. QED BY <2>1, <2>4, <2>5 DEF n, T
  <1>6. CASE k \in S /\ k \notin DOMAIN m
    <2>1. /\ S \cap DOMAIN n = T \cup {k} /\ (T \cup {k}) \ {k} = T
          /\ \A x \in T : n[x] = m[x]
      BY <1>1, <1>6
    <2>2. \A x \in T \cup {k} : n[x] \in Nat
      BY <1>1
    <2>3. SumFunctionOnSet(n, T \cup {k}) = n[k] + SumFunctionOnSet(n, (T \cup {k}) \ {k})
      <3> HIDE DEF T
      <3>1. QED BY <1>2, <2>2, SumRemove
    <2>4. SumFunctionOnSet(n, T) = SumFunctionOnSet(m, T)
      BY <1>2, <2>1, SumSame
    <2>5. n[k] = 1
      BY <1>1, <1>6
    <2> HIDE DEF T
    <2>6. SumFunctionOnSet(n, T \cup {k}) = SumFunctionOnSet(m, T) + 1
      BY <1>3, <2>1, <2>3, <2>4, <2>5
    <2>7. QED BY <1>6, <2>1, <2>6 DEF n, T
  <1>7. QED BY <1>4, <1>5, <1>6

-----------------------------------------------------------------------------
(* Accounting. *)

Balance ==
    hist.emitted = hist.lost + SumFunction(hist.unheard) + InFlightCount + hist.rejected
                   + SumFunction(event_map)

\* A buffer is opened where there was none, so no record is dropped with an
\* old one; the export is the map as it stays.
AccountInv ==
    /\ Balance
    /\ \A cpu \in unopened : buffers[cpu] = NONE
    /\ ~running /\ ~Enforcing => exported = event_map

\* The terms of the balance are numbers.
LEMMA Terms ==
    ASSUME PipeTypes
    PROVE  /\ hist.emitted \in Nat /\ hist.lost \in Nat /\ hist.rejected \in Nat
           /\ SumFunction(hist.unheard) \in Nat /\ SumFunction(event_map) \in Nat
           /\ Len(channel) \in Nat
           /\ Waiting \in [Cpus -> Nat] /\ SumFunction(Waiting) \in Nat
  <1>1. hist \in Histories
    BY DEF PipeTypes, CountTypes
  <1>2. hist.emitted \in Nat /\ hist.lost \in Nat /\ hist.rejected \in Nat
        /\ hist.unheard \in [Cpus -> Nat]
    BY <1>1 DEF Histories
  <1>3. SumFunction(hist.unheard) \in Nat
    BY <1>2, PipeAssumption, SumType DEF SumFunction
  <1>4. SumFunction(event_map) \in Nat
    <2>1. IsFiniteSet(DOMAIN event_map) /\ \A e \in DOMAIN event_map : event_map[e] \in Nat
      BY EventAssumption, FS_Subset DEF PipeTypes, CountTypes
    <2>2. QED BY <2>1, SumType DEF SumFunction
  <1>5. Len(channel) \in Nat /\ \A cpu \in Cpus : batch[cpu] \in Seq(Records)
    BY DEF PipeTypes, QueueTypes
  <1>6. \A cpu \in Cpus : Buffered(cpu) \in Seq(Records)
    BY EmptySeq DEF PipeTypes, QueueTypes, Buffered
  <1>7. Waiting \in [Cpus -> Nat]
    BY <1>5, <1>6 DEF Waiting
  <1>8. SumFunction(Waiting) \in Nat
    <2> HIDE DEF Waiting
    <2>1. QED BY <1>7, PipeAssumption, SumType DEF SumFunction
  <1>9. QED BY <1>2, <1>3, <1>4, <1>5, <1>7, <1>8

\* The numbers the balance is about.
LEMMA BalanceTerms ==
    ASSUME PipeTypes
    PROVE  /\ hist.emitted \in Nat /\ hist.lost \in Nat /\ hist.rejected \in Nat
           /\ SumFunction(hist.unheard) \in Nat /\ SumFunction(event_map) \in Nat
           /\ InFlightCount \in Nat
  <1>1. InFlightCount \in Nat
    BY Terms DEF InFlightCount
  <1>2. QED BY <1>1, Terms

\* What waits on one CPU changes.
LEMMA WaitingMoves ==
    ASSUME PipeTypes, PipeTypes', NEW cpu \in Cpus,
           \A c \in Cpus \ {cpu} : buffers'[c] = buffers[c] /\ batch'[c] = batch[c]
    PROVE  SumFunction(Waiting') = SumFunction(Waiting) + Waiting'[cpu] - Waiting[cpu]
  <1>1. Waiting \in [Cpus -> Nat]
    BY Terms
  <1>2. Waiting' \in [Cpus -> Nat]
    <2>1. /\ \A c \in Cpus : batch'[c] \in Seq(Records)
          /\ \A c \in Cpus : Buffered(c)' \in Seq(Records)
      BY EmptySeq DEF PipeTypes, QueueTypes, Buffered
    <2>2. QED BY <2>1 DEF Waiting
  <1>3. \A c \in Cpus \ {cpu} : Waiting'[c] = Waiting[c]
    BY DEF Waiting, Buffered
  <1>4. SumFunctionOnSet(Waiting', Cpus) = SumFunctionOnSet(Waiting, Cpus) + Waiting'[cpu] - Waiting[cpu]
    <2> DEFINE w == Waiting
               v == Waiting'
    <2>1. \A c \in Cpus : w[c] \in Nat /\ v[c] \in Nat
      BY <1>1, <1>2
    <2>2. \A c \in Cpus \ {cpu} : v[c] = w[c]
      BY <1>3
    <2> HIDE DEF w, v
    <2>3. SumFunctionOnSet(v, Cpus) = SumFunctionOnSet(w, Cpus) + v[cpu] - w[cpu]
      BY <2>1, <2>2, PipeAssumption, SumChange
    <2>4. QED BY <2>3 DEF w, v
  <1>5. DOMAIN Waiting = Cpus /\ DOMAIN Waiting' = Cpus
    BY DEF Waiting
  <1>6. QED BY <1>4, <1>5 DEF SumFunction

LEMMA WaitingLength ==
    ASSUME NEW cpu \in Cpus
    PROVE  /\ Waiting[cpu] = (IF buffers[cpu] = NONE THEN 0 ELSE Len(buffers[cpu])) + Len(batch[cpu])
           /\ Waiting'[cpu] = (IF buffers'[cpu] = NONE THEN 0 ELSE Len(buffers'[cpu])) + Len(batch'[cpu])
  <1>1. Len(<<>>) = 0
    OBVIOUS
  <1>2. QED BY <1>1 DEF Waiting, Buffered

LEMMA SameBalance ==
    ASSUME AccountInv, UNCHANGED <<buffers, batch, channel, event_map>>,
           hist'.emitted = hist.emitted, hist'.lost = hist.lost,
           hist'.unheard = hist.unheard, hist'.rejected = hist.rejected
    PROVE  Balance'
  BY DEF AccountInv, Balance, InFlightCount, Waiting, Buffered

LEMMA PipeBalance ==
    ASSUME PipeTypes, PipeTypes', AccountInv, NEW cpu \in Cpus, pipe_event(cpu) PROVE Balance'
  <1>1. Balance /\ UNCHANGED <<batch, channel, event_map>>
    BY PipeStep DEF AccountInv
  <1>2. hist'.emitted = hist.emitted + 1 /\ hist'.rejected = hist.rejected
    BY PipeStep
  <1>3. CASE /\ UNCHANGED buffers /\ hist'.lost = hist.lost
             /\ hist'.unheard = [hist.unheard EXCEPT ![cpu] = @ + 1]
    <2> DEFINE u == hist.unheard
               v == hist'.unheard
    <2>1. u \in [Cpus -> Nat] /\ v = [u EXCEPT ![cpu] = @ + 1]
      BY <1>3 DEF PipeTypes, CountTypes, Histories
    <2> HIDE DEF u, v
    <2>2. v \in [Cpus -> Nat] /\ v[cpu] = u[cpu] + 1 /\ \A c \in Cpus \ {cpu} : v[c] = u[c]
      BY <2>1
    <2>3. SumFunctionOnSet(v, Cpus) = SumFunctionOnSet(u, Cpus) + v[cpu] - u[cpu]
      <3>1. \A c \in Cpus : u[c] \in Nat /\ v[c] \in Nat
        BY <2>1, <2>2
      <3>2. \A c \in Cpus \ {cpu} : v[c] = u[c]
        BY <2>2
      <3>3. QED BY <3>1, <3>2, PipeAssumption, SumChange
    <2>4. SumFunctionOnSet(u, Cpus) \in Nat
      BY <2>1, PipeAssumption, SumType
    <2>5. SumFunctionOnSet(v, Cpus) = SumFunctionOnSet(u, Cpus) + 1
      BY <2>1, <2>2, <2>3, <2>4
    <2>6. SumFunction(hist'.unheard) = SumFunction(hist.unheard) + 1
      BY <2>1, <2>2, <2>5 DEF SumFunction, u, v
    <2>7. InFlightCount' = InFlightCount
      BY <1>1, <1>3 DEF InFlightCount, Waiting, Buffered
    <2>8. InFlightCount \in Nat
      BY Terms DEF InFlightCount
    <2>9. SumFunction(event_map') = SumFunction(event_map)
      BY <1>1
    <2>10. QED
      <3>1. /\ hist.emitted \in Nat /\ hist.lost \in Nat /\ hist.rejected \in Nat
            /\ SumFunction(hist.unheard) \in Nat /\ SumFunction(event_map) \in Nat
        BY Terms
      <3>2. Balance /\ hist'.lost = hist.lost
        BY <1>1, <1>3
      <3>3. QED BY <1>2, <2>6, <2>7, <2>8, <2>9, <3>1, <3>2 DEF Balance
  <1>4. CASE UNCHANGED buffers /\ hist'.lost = hist.lost + 1 /\ hist'.unheard = hist.unheard
    <2>1. InFlightCount' = InFlightCount
      BY <1>1, <1>4 DEF InFlightCount, Waiting, Buffered
    <2>2. /\ Balance /\ hist'.rejected = hist.rejected
          /\ SumFunction(event_map') = SumFunction(event_map)
          /\ SumFunction(hist'.unheard) = SumFunction(hist.unheard)
      BY <1>1, <1>2, <1>4
    <2>3. QED BY <1>2, <1>4, <2>1, <2>2, BalanceTerms DEF Balance
  <1>5. ASSUME NEW rec \in Records, buffers[cpu] # NONE,
               hist'.unheard = hist.unheard, hist'.lost = hist.lost,
               buffers' = [buffers EXCEPT ![cpu] = Append(@, rec)]
        PROVE  Balance'
    <2>1. buffers[cpu] \in Seq(Records)
      BY <1>5 DEF PipeTypes, QueueTypes
    <2>2. /\ Append(buffers[cpu], rec) \in Seq(Records)
          /\ Len(Append(buffers[cpu], rec)) = Len(buffers[cpu]) + 1
          /\ Len(buffers[cpu]) \in Nat /\ Len(batch[cpu]) \in Nat
      BY <2>1, AppendProperties DEF PipeTypes, QueueTypes
    <2>3. /\ buffers'[cpu] = Append(buffers[cpu], rec)
          /\ \A c \in Cpus \ {cpu} : buffers'[c] = buffers[c] /\ batch'[c] = batch[c]
      BY <1>1, <1>5 DEF PipeTypes, QueueTypes
    <2>4. buffers'[cpu] # NONE
      BY <2>2, <2>3, PipeAssumption
    <2>5. Waiting'[cpu] = Waiting[cpu] + 1
      <3>1. /\ Waiting[cpu] = Len(buffers[cpu]) + Len(batch[cpu])
            /\ Waiting'[cpu] = Len(buffers'[cpu]) + Len(batch'[cpu])
        BY <1>5, <2>4, WaitingLength
      <3>2. Len(buffers'[cpu]) = Len(buffers[cpu]) + 1 /\ Len(batch'[cpu]) = Len(batch[cpu])
        BY <1>1, <2>2, <2>3
      <3>3. Len(buffers[cpu]) \in Nat /\ Len(batch[cpu]) \in Nat
        BY <2>2
      <3> DEFINE l == Len(buffers[cpu])
                 m == Len(batch[cpu])
      <3>4. l \in Nat /\ m \in Nat /\ Waiting[cpu] = l + m /\ Waiting'[cpu] = (l + 1) + m
        BY <3>1, <3>2, <3>3
      <3> HIDE DEF l, m
      <3>5. QED BY <3>4
    <2>6. SumFunction(Waiting') = SumFunction(Waiting) + Waiting'[cpu] - Waiting[cpu]
      BY <2>3, WaitingMoves
    <2>7. Waiting[cpu] \in Nat
      BY Terms
    <2>8. SumFunction(Waiting') = SumFunction(Waiting) + 1
      <3> HIDE DEF Waiting
      <3>1. QED BY <2>5, <2>6, <2>7, Terms
    <2>9. InFlightCount' = InFlightCount + 1
      BY <1>1, <2>8, Terms DEF InFlightCount
    <2>10. /\ Balance /\ hist'.lost = hist.lost
           /\ SumFunction(event_map') = SumFunction(event_map)
           /\ SumFunction(hist'.unheard) = SumFunction(hist.unheard)
      BY <1>1, <1>5
    <2>11. hist'.emitted = hist.emitted + 1 /\ hist'.rejected = hist.rejected
      BY <1>1, <1>2
    <2>12. QED BY <2>9, <2>10, <2>11, BalanceTerms DEF Balance
  <1>6. QED BY <1>3, <1>4, <1>5, PipeStep

LEMMA ReadBalance ==
    ASSUME PipeTypes, PipeTypes', AccountInv, NEW cpu \in Cpus, Read(cpu) PROVE Balance'
  <1>1. /\ Balance /\ UNCHANGED <<channel, event_map, hist>>
        /\ buffers[cpu] # NONE /\ buffers[cpu] \in Seq(Records) /\ batch[cpu] = <<>>
    BY ReadStep DEF AccountInv
  <1>2. PICK n \in Nat : Takes(cpu, n)
    BY ReadStep
  <1> DEFINE b == buffers[cpu]
             first == SubSeq(b, 1, n)
             rest == SubSeq(b, n + 1, Len(b))
  <1>3. n \in 1..Len(b) /\ Len(b) \in Nat
    BY <1>1, <1>2, PipeAssumption DEF Takes
  <1>4. first \in Seq(Records) /\ Len(first) = n
    BY <1>1, <1>3, SubSeqProperties
  <1>5. rest \in Seq(Records) /\ Len(rest) = Len(b) - n
    BY <1>1, <1>3, SubSeqProperties
  <1>6. /\ buffers'[cpu] = rest /\ batch'[cpu] = first
        /\ \A c \in Cpus \ {cpu} : buffers'[c] = buffers[c] /\ batch'[c] = batch[c]
    BY <1>2 DEF Takes, PipeTypes, QueueTypes
  <1> HIDE DEF first, rest
  <1>7. buffers'[cpu] # NONE /\ Len(batch[cpu]) = 0
    BY <1>1, <1>5, <1>6, PipeAssumption
  <1>8. Waiting'[cpu] = Waiting[cpu]
    <2>1. /\ Waiting[cpu] = Len(b) + Len(batch[cpu])
          /\ Waiting'[cpu] = Len(buffers'[cpu]) + Len(batch'[cpu])
      BY <1>1, <1>7, WaitingLength
    <2>2. Len(buffers'[cpu]) = Len(b) - n /\ Len(batch'[cpu]) = n
      BY <1>4, <1>5, <1>6
    <2>3. QED BY <1>3, <1>7, <2>1, <2>2
  <1>9. SumFunction(Waiting') = SumFunction(Waiting) + Waiting'[cpu] - Waiting[cpu]
    BY <1>6, WaitingMoves
  <1>10. SumFunction(Waiting') = SumFunction(Waiting)
    <2>1. Waiting[cpu] \in Nat /\ SumFunction(Waiting) \in Nat
      BY Terms
    <2> HIDE DEF Waiting
    <2>2. QED BY <1>8, <1>9, <2>1
  <1>11. QED BY <1>1, <1>10 DEF Balance, InFlightCount

LEMMA SendBalance ==
    ASSUME PipeTypes, PipeTypes', AccountInv, NEW cpu \in Cpus, SendRecord(cpu) PROVE Balance'
  <1>1. /\ Balance /\ UNCHANGED <<buffers, event_map, hist>>
        /\ batch[cpu] \in Seq(Records) /\ batch[cpu] # <<>>
    BY SendStep DEF AccountInv
  <1>2. /\ Head(batch[cpu]) \in Records /\ Tail(batch[cpu]) \in Seq(Records)
        /\ Len(Tail(batch[cpu])) = Len(batch[cpu]) - 1 /\ Len(batch[cpu]) \in Nat
    BY <1>1, HeadTailProperties
  <1>3. Len(channel') = Len(channel) + 1
    BY <1>2, SendStep, AppendProperties DEF PipeTypes, QueueTypes
  <1>4. /\ batch'[cpu] = Tail(batch[cpu])
        /\ \A c \in Cpus \ {cpu} : buffers'[c] = buffers[c] /\ batch'[c] = batch[c]
    BY <1>1, SendStep DEF PipeTypes, QueueTypes
  <1>5. buffers[cpu] = NONE \/ Len(buffers[cpu]) \in Nat
    BY DEF PipeTypes, QueueTypes
  <1>6. Waiting'[cpu] = Waiting[cpu] - 1
    <2> DEFINE w == IF buffers[cpu] = NONE THEN 0 ELSE Len(buffers[cpu])
    <2>1. Waiting[cpu] = w + Len(batch[cpu]) /\ Waiting'[cpu] = w + Len(batch'[cpu])
      BY <1>1, WaitingLength
    <2>2. w \in Nat /\ Len(batch'[cpu]) = Len(batch[cpu]) - 1
      BY <1>2, <1>4, <1>5
    <2> HIDE DEF w
    <2>3. QED BY <1>2, <2>1, <2>2
  <1>7. SumFunction(Waiting') = SumFunction(Waiting) + Waiting'[cpu] - Waiting[cpu]
    BY <1>4, WaitingMoves
  <1>8. SumFunction(Waiting') = SumFunction(Waiting) - 1
    <2>1. Waiting[cpu] \in Nat /\ SumFunction(Waiting) \in Nat
      BY Terms
    <2> HIDE DEF Waiting
    <2>2. QED BY <1>6, <1>7, <2>1
  <1>9. InFlightCount' = InFlightCount
    BY <1>3, <1>8, Terms DEF InFlightCount
  <1>10. QED BY <1>1, <1>9 DEF Balance

LEMMA CountBalance ==
    ASSUME PipeTypes, PipeTypes', AccountInv, CountEvent PROVE Balance'
  <1>1. /\ Balance /\ UNCHANGED <<buffers, batch>>
        /\ hist'.emitted = hist.emitted /\ hist'.lost = hist.lost /\ hist'.unheard = hist.unheard
    BY CountStep DEF AccountInv
  <1>2. Len(channel') = Len(channel) - 1
    BY CountStep, HeadTailProperties DEF PipeTypes, QueueTypes
  <1>3. InFlightCount' = InFlightCount - 1 /\ InFlightCount \in Nat
    <2>1. Waiting' = Waiting
      BY <1>1 DEF Waiting, Buffered
    <2>2. QED BY <1>2, <2>1, Terms DEF InFlightCount
  <1>4. CASE UNCHANGED event_map /\ hist'.rejected = hist.rejected + 1
    <2>1. SumFunction(event_map') = SumFunction(event_map)
      BY <1>4
    <2>2. SumFunction(hist'.unheard) = SumFunction(hist.unheard)
      BY <1>1
    <2>3. QED BY <1>1, <1>3, <1>4, <2>1, <2>2, BalanceTerms DEF Balance
  <1>5. ASSUME NEW k \in Events, event_map' = Counted(event_map, k),
               hist'.rejected = hist.rejected
        PROVE  Balance'
    <2>1. /\ \A e \in DOMAIN event_map : event_map[e] \in Nat
          /\ DOMAIN event_map \subseteq Events /\ DOMAIN event_map' \subseteq Events
      BY DEF PipeTypes, CountTypes
    <2>2. /\ Events \cap DOMAIN event_map = DOMAIN event_map
          /\ Events \cap DOMAIN Counted(event_map, k) = DOMAIN Counted(event_map, k)
      BY <1>5, <2>1
    <2>3. SumFunctionOnSet(Counted(event_map, k), Events \cap DOMAIN Counted(event_map, k))
            = SumFunctionOnSet(event_map, Events \cap DOMAIN event_map) + 1
      BY <2>1, EventAssumption, CountedSum
    <2>4. SumFunction(event_map') = SumFunction(event_map) + 1
      BY <1>5, <2>2, <2>3 DEF SumFunction
    <2>5. SumFunction(hist'.unheard) = SumFunction(hist.unheard)
      BY <1>1
    <2>6. QED BY <1>1, <1>3, <1>5, <2>4, <2>5, BalanceTerms DEF Balance
  <1>6. QED BY <1>4, <1>5, CountStep

LEMMA OpenBalance ==
    ASSUME PipeTypes, PipeTypes', AccountInv, NEW cpu \in Cpus, OpenBuffer(cpu) PROVE Balance'
  <1>1. /\ Balance /\ UNCHANGED <<batch, channel, event_map, hist>> /\ buffers[cpu] = NONE
        /\ buffers' = [buffers EXCEPT ![cpu] = <<>>] \/ UNCHANGED buffers
    BY DEF AccountInv, OpenBuffer
  <1>2. \A c \in Cpus : Buffered(c)' = Buffered(c)
    BY <1>1 DEF Buffered, PipeTypes, QueueTypes
  <1>3. Waiting' = Waiting
    BY <1>1, <1>2 DEF Waiting
  <1>4. QED BY <1>1, <1>3 DEF Balance, InFlightCount

LEMMA AccountNextInv == PipeTypes /\ AccountInv /\ [PipeNext]_pipeVars => AccountInv'
  <1> SUFFICES ASSUME PipeTypes, AccountInv, [PipeNext]_pipeVars PROVE AccountInv' OBVIOUS
  <1>1. PipeTypes'
    BY PipeNextTypes
  <1>2. CASE UNCHANGED pipeVars
    BY <1>2 DEF pipeVars, AccountInv, Balance, InFlightCount, Waiting, Buffered
  <1>3. ASSUME Balance', running, UNCHANGED running,
               UNCHANGED unopened, \A cpu \in Cpus : buffers[cpu] = NONE => buffers'[cpu] = NONE
        PROVE  AccountInv'
    BY <1>3 DEF AccountInv, PipeTypes
  <1>4. ASSUME NEW cpu \in Cpus, NEW e \in Events, NEW resets \in BOOLEAN,
               StartProgram(cpu, e, resets)
        PROVE  AccountInv'
    <2>1. /\ hist'.emitted = hist.emitted /\ hist'.lost = hist.lost
          /\ hist'.unheard = hist.unheard /\ hist'.rejected = hist.rejected
      BY <1>4, StartStep DEF PipeTypes, CountTypes, Histories
    <2>2. QED BY <1>3, <1>4, <2>1, SameBalance DEF StartProgram
  <1>5. ASSUME NEW cpu \in Cpus, InitAllocator(cpu) \/ Fill(cpu) PROVE AccountInv'
    BY <1>3, <1>5, SameBalance DEF InitAllocator, Fill, At
  <1>6. ASSUME NEW cpu \in Cpus, Alloc(cpu) PROVE AccountInv'
    <2>1. /\ hist'.emitted = hist.emitted /\ hist'.lost = hist.lost
          /\ hist'.unheard = hist.unheard /\ hist'.rejected = hist.rejected
      BY <1>6, AllocStep DEF PipeTypes, CountTypes, Histories
    <2>2. running
      BY <1>6 DEF Alloc, At
    <2>3. QED BY <1>3, <1>6, <2>1, <2>2, AllocStep, SameBalance
  <1>7. ASSUME NEW cpu \in Cpus, pipe_event(cpu) PROVE AccountInv'
    <2>1. running /\ UNCHANGED <<running, unopened>>
      BY <1>7 DEF pipe_event, At
    <2>2. \A c \in Cpus : buffers[c] = NONE => buffers'[c] = NONE
      <3>1. CASE UNCHANGED buffers
        BY <3>1
      <3>2. ASSUME NEW b, buffers[cpu] # NONE, buffers' = [buffers EXCEPT ![cpu] = b]
            PROVE  \A c \in Cpus : buffers[c] = NONE => buffers'[c] = NONE
        BY <3>2 DEF PipeTypes, QueueTypes
      <3>3. QED BY <1>7, <3>1, <3>2, PipeStep
    <2>3. QED BY <1>1, <1>3, <1>7, <2>1, <2>2, PipeBalance
  <1>8. ASSUME NEW cpu \in Cpus, OpenBuffer(cpu) PROVE AccountInv'
    <2>1. /\ running /\ UNCHANGED running /\ unopened' = unopened \ {cpu}
          /\ \A c \in unopened \ {cpu} : buffers'[c] = buffers[c]
      BY <1>8 DEF OpenBuffer, PipeTypes, QueueTypes
    <2>2. QED BY <1>1, <1>8, <2>1, OpenBalance DEF AccountInv
  <1>9. ASSUME NEW cpu \in Cpus, Read(cpu) PROVE AccountInv'
    <2>1. \A c \in Cpus : buffers[c] = NONE => buffers'[c] = NONE
      BY <1>9, ReadStep DEF Takes, PipeTypes, QueueTypes
    <2>2. QED BY <1>1, <1>3, <1>9, <2>1, ReadBalance DEF Read
  <1>10. ASSUME NEW cpu \in Cpus, SendRecord(cpu) PROVE AccountInv'
    BY <1>1, <1>3, <1>10, SendBalance DEF SendRecord
  <1>11. CASE CountEvent
    BY <1>1, <1>3, <1>11, CountBalance DEF CountEvent
  <1>12. CASE SignalReady \/ Attach
    BY <1>3, <1>12, SameBalance DEF SignalReady, Attach
  <1>13. CASE CtrlC
    BY <1>13, SameBalance DEF CtrlC, AccountInv
  <1>14. QED
    BY <1>2, <1>4, <1>5, <1>6, <1>7, <1>8, <1>9, <1>10, <1>11, <1>12, <1>13
    DEF PipeNext, ProgramStep

(* Every record a program piped met no buffer or a full one, is on its way,   *)
(* was refused by transform_event, or is in a frequency of event_map; after  *)
(* ctrl-c, in a frequency of the exported profile.                           *)
THEOREM RecordsAccounted == PipeSpec => []EveryRecordAccounted
  <1>1. PipeInit => AccountInv
    <2> SUFFICES ASSUME PipeInit PROVE AccountInv OBVIOUS
    <2>1. /\ hist.emitted = 0 /\ hist.lost = 0 /\ hist.rejected = 0
          /\ hist.unheard = [c \in Cpus |-> 0]
      BY DEF PipeInit
    <2>2. SumFunction(hist.unheard) = 0
      <3> DEFINE u == hist.unheard
      <3>1. DOMAIN u = Cpus /\ \A c \in Cpus : u[c] = 0
        BY <2>1
      <3> HIDE DEF u
      <3>2. SumFunction(u) = 0
        BY <3>1, PipeAssumption, SumZero DEF SumFunction
      <3>3. QED BY <3>2 DEF u
    <2>3. SumFunction(Waiting) = 0
      <3>1. \A c \in Cpus : Buffered(c) = <<>> /\ batch[c] = <<>>
        BY DEF PipeInit, Buffered
      <3>2. DOMAIN Waiting = Cpus /\ \A c \in Cpus : Waiting[c] = 0
        BY <3>1 DEF Waiting
      <3> HIDE DEF Waiting
      <3>3. QED BY <3>2, PipeAssumption, SumZero DEF SumFunction
    <2>4. SumFunction(event_map) = 0
      <3>1. event_map = <<>> /\ DOMAIN <<>> = {}
        BY DEF PipeInit
      <3>2. QED BY <3>1, SumEmpty DEF SumFunction
    <2>5. Len(channel) = 0
      BY DEF PipeInit
    <2>6. Balance
      BY <2>1, <2>2, <2>3, <2>4, <2>5 DEF Balance, InFlightCount
    <2>7. QED BY <2>6 DEF PipeInit, AccountInv
  <1>2. AccountInv => EveryRecordAccounted
    BY DEF AccountInv, Balance, EveryRecordAccounted
  <1>3. QED BY <1>1, <1>2, PipeInitTypes, PipeNextTypes, AccountNextInv, PTL DEF PipeSpec

-----------------------------------------------------------------------------
(* Frequencies. *)

\* PartialEq of the event types is an equivalence.
LEMMA SameEventEquivalence ==
    ASSUME NEW d \in Events, NEW e \in Events, NEW f \in Events
    PROVE  /\ SameEvent(e, e)
           /\ SameEvent(d, e) => SameEvent(e, d)
           /\ SameEvent(d, e) /\ SameEvent(e, f) => SameEvent(d, f)
  <1>1. \A x \in {d, e, f} : x.kind \in {"Network", "Fs", "Process"}
    BY EventAssumption
  <1>2. QED BY <1>1 DEF SameEvent, NetworkEq, FsEq, ProcessEq

\* The key an event is counted under is equal to it.
LEMMA KeyIsEqual ==
    ASSUME NEW e \in Events, NEW k \in EntriesFor(e) \cap Events PROVE SameEvent(k, e)
  BY SameEventEquivalence DEF EntriesFor

LEMMA FrequenciesNext ==
    PipeTypes /\ FrequenciesAddUp /\ [PipeNext]_pipeVars => FrequenciesAddUp'
  <1> SUFFICES ASSUME PipeTypes, FrequenciesAddUp, [PipeNext]_pipeVars PROVE FrequenciesAddUp'
    OBVIOUS
  <1>1. ASSUME UNCHANGED event_map, hist'.counted = hist.counted PROVE FrequenciesAddUp'
    BY <1>1 DEF FrequenciesAddUp
  <1>2. ASSUME NEW e \in Events, NEW k \in EntriesFor(e) \cap Events,
               event_map' = Counted(event_map, k),
               hist'.counted = [hist.counted EXCEPT ![e] = @ + 1]
        PROVE  FrequenciesAddUp'
    <2> DEFINE Class(d) == {f \in Events : SameEvent(d, f)}
               m == event_map
               u == hist.counted
               v == hist'.counted
    <2>1. /\ \A f \in DOMAIN m : m[f] \in Nat
          /\ u \in [Events -> Nat] /\ v = [u EXCEPT ![e] = @ + 1]
      BY <1>2 DEF PipeTypes, CountTypes, Histories
    <2>2. SUFFICES ASSUME NEW d \in Events
                   PROVE  SumFunctionOnSet(m', Class(d) \cap DOMAIN m')
                            = SumFunctionOnSet(v, Class(d))
      BY DEF FrequenciesAddUp
    <2> DEFINE S == Class(d)
    <2>3. IsFiniteSet(S) /\ S \subseteq Events
      BY EventAssumption, FS_Subset
    <2>4. k \in S <=> e \in S
      BY KeyIsEqual, SameEventEquivalence
    <2>5. SumFunctionOnSet(m, S \cap DOMAIN m) = SumFunctionOnSet(u, S)
      BY DEF FrequenciesAddUp
    <2> HIDE DEF S, m, u, v
    <2>6. SumFunctionOnSet(Counted(m, k), S \cap DOMAIN Counted(m, k))
            = SumFunctionOnSet(m, S \cap DOMAIN m) + (IF k \in S THEN 1 ELSE 0)
      BY <2>1, <2>3, CountedSum
    <2>7. SumFunctionOnSet(u, S) \in Nat
      BY <2>1, <2>3, SumType
    <2>8. SumFunctionOnSet(v, S) = SumFunctionOnSet(u, S) + (IF e \in S THEN 1 ELSE 0)
      <3>1. \A f \in S : u[f] \in Nat /\ v[f] \in Nat
        BY <2>1, <2>3
      <3>2. \A f \in S \ {e} : v[f] = u[f]
        BY <2>1, <2>3
      <3>3. CASE e \in S
        <4>1. SumFunctionOnSet(v, S) = SumFunctionOnSet(u, S) + v[e] - u[e]
          BY <2>3, <3>1, <3>2, <3>3, SumChange
        <4>2. v[e] = u[e] + 1 /\ u[e] \in Nat
          BY <2>1
        <4>3. QED BY <2>7, <3>3, <4>1, <4>2
      <3>4. CASE e \notin S
        <4>1. \A f \in S : v[f] = u[f]
          BY <3>2, <3>4
        <4>2. SumFunctionOnSet(v, S) = SumFunctionOnSet(u, S)
          BY <2>3, <4>1, SumSame
        <4>3. QED BY <2>7, <3>4, <4>2
      <3>5. QED BY <3>3, <3>4
    <2>9. m' = Counted(m, k)
      BY <1>2 DEF m
    <2>10. QED BY <2>4, <2>5, <2>6, <2>8, <2>9 DEF S
  <1>3. CASE CountEvent
    BY <1>1, <1>2, <1>3, CountStep
  <1>4. ASSUME NEW cpu \in Cpus,
               \/ \E e \in Events, resets \in BOOLEAN : StartProgram(cpu, e, resets)
               \/ ProgramStep(cpu) \/ OpenBuffer(cpu) \/ Read(cpu) \/ SendRecord(cpu)
        PROVE  UNCHANGED event_map /\ hist'.counted = hist.counted
    <2>1. ASSUME NEW e \in Events, NEW resets \in BOOLEAN, StartProgram(cpu, e, resets)
          PROVE  UNCHANGED event_map /\ hist'.counted = hist.counted
      BY <2>1, StartStep DEF PipeTypes, CountTypes, Histories
    <2>2. CASE Alloc(cpu)
      BY <2>2, AllocStep DEF PipeTypes, CountTypes, Histories
    <2>3. CASE pipe_event(cpu)
      BY <2>3, PipeStep
    <2>4. CASE InitAllocator(cpu) \/ Fill(cpu) \/ OpenBuffer(cpu) \/ Read(cpu) \/ SendRecord(cpu)
      BY <2>4 DEF InitAllocator, Fill, OpenBuffer, Read, SendRecord
    <2>5. QED BY <1>4, <2>1, <2>2, <2>3, <2>4 DEF ProgramStep
  <1>5. CASE SignalReady \/ Attach \/ CtrlC \/ UNCHANGED pipeVars
    BY <1>1, <1>5 DEF SignalReady, Attach, CtrlC, pipeVars
  <1>6. QED BY <1>1, <1>3, <1>4, <1>5 DEF PipeNext

(* However the entries of equal events are split by their hashes, together    *)
(* they count the events decoded as equal to them, and no others.            *)
THEOREM FrequenciesTrue == PipeSpec => []FrequenciesAddUp
  <1>1. PipeInit => FrequenciesAddUp
    <2> SUFFICES ASSUME PipeInit, NEW e \in Events
                 PROVE  LET equal == {f \in Events : SameEvent(e, f)}
                        IN  SumFunctionOnSet(event_map, equal \cap DOMAIN event_map)
                              = SumFunctionOnSet(hist.counted, equal)
      BY DEF FrequenciesAddUp
    <2> DEFINE S == {f \in Events : SameEvent(e, f)}
               u == hist.counted
    <2>1. event_map = <<>> /\ S \cap DOMAIN <<>> = {}
      BY DEF PipeInit
    <2>2. SumFunctionOnSet(event_map, S \cap DOMAIN event_map) = 0
      BY <2>1, SumEmpty
    <2>3. IsFiniteSet(S) /\ \A f \in S : u[f] = 0
      BY EventAssumption, FS_Subset DEF PipeInit
    <2> HIDE DEF S, u
    <2>4. SumFunctionOnSet(u, S) = 0
      BY <2>3, SumZero
    <2>5. QED BY <2>2, <2>4 DEF S, u
  <1>2. QED BY <1>1, PipeInitTypes, PipeNextTypes, FrequenciesNext, PTL DEF PipeSpec
=============================================================================
