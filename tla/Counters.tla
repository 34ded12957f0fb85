------------------------------ MODULE Counters ------------------------------
(***************************************************************************)
(* The counters that probes on several CPUs keep without a lock: the       *)
(* write-back credits (WritebackCredits), op_count (OpCounter) and the     *)
(* latencies of fsync (FsyncLatency).  They are of three programs; one of  *)
(* them is loaded: program says which, and never changes.                  *)
(***************************************************************************)
EXTENDS WritebackCredits

CONSTANTS Preset, MaxHits, Word, MaxStarts, MaxNow, MaxSamples

ASSUME CountersAssumption == Preset \in Nat

VARIABLES program,
          op_count, cpuAt, word, preset, hits,
          now, inside, start, to_write, to_exit, samples, at, kind, sample,
          loaded, divisor, exits, taken, stray

ovars == <<op_count, cpuAt, word, preset, hits>>
lvars == <<now, inside, start, to_write, to_exit, samples, at, kind, sample,
           loaded, divisor, exits, taken, stray>>
all   == <<program, vars, ovars, lvars>>

Ops  == INSTANCE OpCounter
Lats == INSTANCE FsyncLatency WITH Threads <- Cpus

CountersInit == /\ program \in {"credits", "ops", "latency"}
                /\ Init /\ Ops!CounterInit /\ Lats!LatencyInit

CountersNext ==
    \/ program = "credits" /\ Next /\ UNCHANGED <<program, ovars, lvars>>
    \/ program = "ops" /\ Ops!Counting /\ UNCHANGED <<program, vars, lvars>>
    \/ program = "latency" /\ Lats!Latency /\ UNCHANGED <<program, vars, ovars>>

CountersSpec == CountersInit /\ [][CountersNext]_all

-----------------------------------------------------------------------------
\* op_count never exceeds the loader's value and the probes hit.
NeverOvercounts == Ops!NeverOvercounts

\* Every latency is of an fsync under way.
OwnFsync == Lats!OwnFsync
=============================================================================
