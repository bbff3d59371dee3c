--------------------------- MODULE PerCpuAllocator ---------------------------
(***************************************************************************)
(* The bump allocator every eBPF program takes its large buffers from      *)
(* (ebpf-mon-common/src/alloc/bpf.rs).  The state is per CPU and not per   *)
(* program: a program that runs on a CPU while another one is in the       *)
(* middle of its work there shares HEAP and i_next with it.                *)
(***************************************************************************)
EXTENDS Naturals

CONSTANTS
    Cpus,
    MAX_ALLOCS,    \* entries of HEAP
    NONE

ASSUME AllocAssumption == MAX_ALLOCS \in Nat \ {0}

VARIABLES
    i_next,        \* CPU -> next entry of HEAP to hand out
    HEAP           \* CPU -> entry -> [header, payload] of the record built there

allocVars == <<i_next, HEAP>>

Zeros == [header |-> NONE, payload |-> NONE]

AllocInit ==
    /\ i_next = [c \in Cpus |-> 0]
    /\ HEAP = [c \in Cpus |-> [k \in 0..(MAX_ALLOCS - 1) |-> Zeros]]

\* Mutant: a program goes on where the last one stopped.
init_kept(cpu) == UNCHANGED allocVars

init(cpu) == i_next' = [i_next EXCEPT ![cpu] = 0] /\ UNCHANGED HEAP

CanAlloc(cpu) == i_next[cpu] # MAX_ALLOCS

\* Mutant: the entry is handed out again.
alloc_zero_stays(cpu) ==
    HEAP' = [HEAP EXCEPT ![cpu][i_next[cpu]] = Zeros] /\ UNCHANGED i_next

\* The entry at i_next, zeroed.
alloc_zero(cpu) ==
    /\ HEAP' = [HEAP EXCEPT ![cpu][i_next[cpu]] = Zeros]
    /\ i_next' = [i_next EXCEPT ![cpu] = @ + 1]
=============================================================================
