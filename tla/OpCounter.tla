----------------------------- MODULE OpCounter -----------------------------
(***************************************************************************)
(* op_count of IO_syscall_patch/clickhouse-uring.bpf.c and tp.bpf.c: each  *)
(* probe adds one to the word it finds in the array map, without a lock,   *)
(* and copies the word onto itself; the loader of the first stores 79 into *)
(* it while probes are already attached.  The 32 bits are not exhausted.   *)
(***************************************************************************)
EXTENDS Naturals

CONSTANTS Cpus,
          Preset,       \* 79
          MaxHits       \* bound: probes hit

VARIABLES op_count,
          cpuAt,        \* per CPU: where its probe is
          word,         \* per CPU: what its probe has loaded, or 0
          preset,       \* the loader has stored Preset
          hits          \* history: probes hit

ovars == <<op_count, cpuAt, word, preset, hits>>

CounterInit ==
    /\ op_count = 0 /\ preset = FALSE /\ hits = 0
    /\ cpuAt = [c \in Cpus |-> "idle"] /\ word = [c \in Cpus |-> 0]

\* Loads the word: a probe is hit and will add to it, or has added and will
\* copy it.
LoadWord(c) ==
    /\ \/ /\ cpuAt[c] = "idle" /\ hits < MaxHits
          /\ cpuAt' = [cpuAt EXCEPT ![c] = "add"] /\ hits' = hits + 1
       \/ /\ cpuAt[c] = "added"
          /\ cpuAt' = [cpuAt EXCEPT ![c] = "copy"] /\ UNCHANGED hits
    /\ word' = [word EXCEPT ![c] = op_count]
    /\ UNCHANGED <<op_count, preset>>

\* *count += 1
AddOne(c) ==
    /\ cpuAt[c] = "add" /\ cpuAt' = [cpuAt EXCEPT ![c] = "added"]
    /\ op_count' = word[c] + 1
    /\ UNCHANGED <<word, preset, hits>>

\* Mutant: bpf_start_patch, which counts as well, is attached to the same
\* function and runs next (its attachment to write is commented out at
\* clickhouse-uring.c:228).
CopyThenSecond(c) ==
    /\ cpuAt[c] = "copy" /\ cpuAt' = [cpuAt EXCEPT ![c] = "add"]
    /\ op_count' = word[c]
    /\ UNCHANGED <<word, preset, hits>>

\* bpf_map_update_elem, of the word itself.
Copy(c) ==
    /\ cpuAt[c] = "copy" /\ cpuAt' = [cpuAt EXCEPT ![c] = "idle"]
    /\ op_count' = word[c]
    /\ word' = [word EXCEPT ![c] = 0]
    /\ UNCHANGED <<preset, hits>>

\* The loader of clickhouse-uring stores its value once; that of tp does not.
StorePreset ==
    /\ ~preset /\ preset' = TRUE
    /\ op_count' = Preset
    /\ UNCHANGED <<cpuAt, word, hits>>

Counting == StorePreset \/ \E c \in Cpus : LoadWord(c) \/ AddOne(c) \/ Copy(c)

-----------------------------------------------------------------------------
\* Racing probes lose counts, and an old word, stored by an addition or by a
\* copy, brings back what the loader overwrote or undoes its store; still what
\* the loader prints is never more than its own value and the probes hit.
NeverOvercounts == op_count <= hits + IF preset THEN Preset ELSE 0
=============================================================================
