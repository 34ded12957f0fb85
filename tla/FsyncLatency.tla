---------------------------- MODULE FsyncLatency ----------------------------
(***************************************************************************)
(* fsync-latency-bpf/rocksdb.bpf.c: the time from the beginning of an      *)
(* fsync to each write-back of an inode it does and to its end, and a      *)
(* running mean of each kind in avg_latency, which the loader prints.      *)
(*                                                                         *)
(* avg_latency is shared by all CPUs without a lock: its words are loaded, *)
(* and stored later, word by word.  count is shared by the two means.  The *)
(* difference of a sample and the mean is signed, count + 1 is not: the    *)
(* division is that of unsigned words, of which there are Word (2^64).     *)
(***************************************************************************)
EXTENDS Integers, Sequences, FiniteSets

CONSTANTS Threads,
          Word,
          MaxStarts,    \* max_entries of start_map: 1000
          MaxNow,       \* bound: the clock
          MaxSamples    \* bound: samples taken

VARIABLES now,
          inside,       \* the threads that are in fsync
          start,        \* start_map: per thread, or -1
          to_write, to_exit, samples,       \* avg_latency
          at,           \* per thread: "idle", or where its probe is
          kind,         \* per thread: "write" or "exit"
          sample,       \* per thread: its latency, if it is in a probe
          loaded,       \* per thread: the mean or the count loaded
          divisor,      \* per thread: count + 1
          exits,        \* history: latencies of whole fsyncs
          taken,        \* history: samples taken
          stray         \* history: a sample was not of an fsync under way

probe == <<at, kind, sample, loaded, divisor>>
avg   == <<to_write, to_exit, samples>>
seenf == <<exits, taken, stray>>
lvars == <<now, inside, start, avg, probe, seenf>>

LatencyInit ==
    /\ now = 0 /\ inside = {} /\ start = [t \in Threads |-> -1]
    /\ to_write = 0 /\ to_exit = 0 /\ samples = 0
    /\ at = [t \in Threads |-> "idle"] /\ kind = [t \in Threads |-> "exit"]
    /\ sample = [t \in Threads |-> 0] /\ loaded = [t \in Threads |-> 0]
    /\ divisor = [t \in Threads |-> 1]
    /\ exits = <<>> /\ taken = 0 /\ stray = FALSE

Tick == now < MaxNow /\ now' = now + 1
        /\ UNCHANGED <<inside, start, avg, probe, seenf>>

Known == {t \in Threads : start[t] >= 0}

\* sys_enter_fsync; the map may be full.
EnterFsync(t) ==
    /\ at[t] = "idle" /\ t \notin inside /\ taken < MaxSamples
    /\ inside' = inside \cup {t}
    /\ start' = IF t \in Known \/ Cardinality(Known) < MaxStarts
                THEN [start EXCEPT ![t] = now] ELSE start
    /\ UNCHANGED <<now, avg, probe, seenf>>

\* __writeback_single_inode and sys_exit_fsync, of a thread that is known: its
\* latency is taken and count and mean are loaded.
Sample(t, k) ==
    /\ at[t] = "idle" /\ t \in Known
    /\ at' = [at EXCEPT ![t] = "mean"] /\ kind' = [kind EXCEPT ![t] = k]
    /\ sample' = [sample EXCEPT ![t] = now - start[t]]
    /\ divisor' = [divisor EXCEPT ![t] = samples + 1]
    /\ loaded' = [loaded EXCEPT ![t] = IF k = "write" THEN to_write ELSE to_exit]
    /\ taken' = taken + 1
    /\ stray' = (stray \/ t \notin inside)
    /\ UNCHANGED <<now, inside, start, avg>>

Writeback(t) == taken < MaxSamples /\ Sample(t, "write") /\ UNCHANGED exits

\* s64 to u64, the division, and back to s64.
Unsigned(x) == x % Word
Signed(x)   == IF x >= Word \div 2 THEN x - Word ELSE x
Step(t)     == Unsigned(sample[t] - loaded[t]) \div divisor[t]

ExitFsync(t) ==
    /\ t \in inside
    /\ Sample(t, "exit")
    /\ exits' = Append(exits, now - start[t])

\* A thread the map had no room for.
ExitUnknown(t) ==
    /\ at[t] = "idle" /\ t \in inside \ Known
    /\ inside' = inside \ {t}
    /\ UNCHANGED <<now, start, avg, probe, seenf>>

\* The mean is stored: the step is added to latency_to_write, but replaces
\* latency_to_fsync_exit.  Then count is loaded again.
StoreMean(t) ==
    /\ at[t] = "mean" /\ at' = [at EXCEPT ![t] = "count"]
    /\ IF kind[t] = "write"
       THEN to_write' = Signed(Unsigned(loaded[t] + Step(t))) /\ UNCHANGED to_exit
       ELSE to_exit' = Signed(Step(t)) /\ UNCHANGED to_write
    /\ loaded' = [loaded EXCEPT ![t] = samples]
    /\ UNCHANGED <<now, inside, start, samples, kind, sample, divisor, seenf>>

Leave(t) ==
    /\ at[t] = "count" /\ at' = [at EXCEPT ![t] = "idle"]
    /\ samples' = loaded[t] + 1
    /\ sample' = [sample EXCEPT ![t] = 0] /\ loaded' = [loaded EXCEPT ![t] = 0]
    /\ kind' = [kind EXCEPT ![t] = "exit"] /\ divisor' = [divisor EXCEPT ![t] = 1]

\* Mutant: the entry is not deleted.
StoreCountKeepsStart(t) ==
    /\ Leave(t)
    /\ inside' = IF kind[t] = "exit" THEN inside \ {t} ELSE inside
    /\ UNCHANGED <<now, start, to_write, to_exit, seenf>>

\* Then count is stored, and the end of the fsync deletes its entry.
StoreCount(t) ==
    /\ Leave(t)
    /\ IF kind[t] = "exit"
       THEN inside' = inside \ {t} /\ start' = [start EXCEPT ![t] = -1]
       ELSE UNCHANGED <<inside, start>>
    /\ UNCHANGED <<now, to_write, to_exit, seenf>>

Latency == Tick \/ \E t \in Threads :
    \/ EnterFsync(t) \/ Writeback(t) \/ ExitFsync(t) \/ ExitUnknown(t)
    \/ StoreMean(t) \/ StoreCount(t)

LatencySpec == LatencyInit /\ [][Latency]_lvars

-----------------------------------------------------------------------------
\* Every sample is of an fsync under way: a write-back that a thread does
\* outside fsync finds no entry, left by an fsync before, to be measured from.
OwnFsync == ~stray

\* What is printed as the average latency of fsync is the latency of each, if
\* they all took equally long and no write-back was sampled among them.
AverageOfExits ==
    (\A t \in Threads : at[t] = "idle") /\ taken = Len(exits) =>
        \A k \in DOMAIN exits :
            (\A j \in DOMAIN exits : exits[j] = exits[k]) => to_exit = exits[k]
=============================================================================
