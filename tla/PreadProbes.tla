---------------------------- MODULE PreadProbes ----------------------------
(***************************************************************************)
(* The three USDT probes of IO_syscall_patch/user.bpf.c.  They run in the  *)
(* context of the ClickHouse thread that hits them, at the same time on    *)
(* different CPUs, and share the globals overridden and global_seq and the *)
(* map fd_info_map.  Every access to a shared word is a step of its own.   *)
(*                                                                         *)
(* The client is external: at any moment a thread that is not inside a     *)
(* probe may hit any of the three.  Nothing removes an entry of            *)
(* fd_info_map, and a new one is refused once it is full.                  *)
(***************************************************************************)
EXTENDS PreadRings, FiniteSets

CONSTANTS Threads,      \* the threads of the traced processes
          Pids,         \* the traced processes
          Groupings,    \* the ways the threads may belong to processes
          Verdicts,     \* what readS's comparison of types may yield, 0 or 1
          Sizes,        \* to_read: the sizes the client asks for
          FdEntries,    \* max_entries of fd_info_map
          MaxPreads     \* bound: preadRaw hits that get past the first test

ASSUME ProbesAssumption ==
    /\ Groupings \subseteq [Threads -> Pids]
    /\ Verdicts \subseteq {0, 1}
    /\ Sizes \subseteq Nat \ {0}
    /\ FdEntries \in Nat \ {0}
    /\ MaxPreads \in Nat

VARIABLES processOf,   \* the process of each thread, for good
          overridden,  \* the global flag
          globalSeq,   \* global_seq
          fdInfo,      \* fd_info_map: total_bytes_to_read, for the pids in it
          tpc,         \* where each thread is
          reg,         \* the value each thread last loaded
          size,        \* to_read of the preadRaw each thread is in
          answer,      \* the user word the probe wrote for the thread
          preads,      \* how many preadRaw hits got past the first test
          handed,      \* history: bytes handed to the ring, per process
          skipped      \* history: bytes the clients were told to skip

shared  == <<overridden, globalSeq, fdInfo>>
local   == <<tpc, reg, size, answer>>
history == <<preads, handed, skipped>>
probes  == <<processOf, shared, local, history>>

ThreadPC == {"idle", "verdict", "tell", "loadSeq", "storeSeq", "emit",
             "lookup", "loadTotal", "storeTotal", "insert",
             "check", "report", "flush", "reset"}

\* A process that has no entry in fd_info_map.
Absent == 0

\* fd_info_map takes no new process.
FdFull == Cardinality({p \in Pids : fdInfo[p] # Absent}) >= FdEntries

ProbesInit ==
    /\ processOf \in Groupings
    /\ overridden = 0 /\ globalSeq = 0
    /\ fdInfo = [p \in Pids |-> Absent]
    /\ tpc = [t \in Threads |-> "idle"]
    /\ reg = [t \in Threads |-> 0] /\ size = [t \in Threads |-> 0]
    /\ answer = [t \in Threads |-> 0]
    /\ preads = 0
    /\ handed = [p \in Pids |-> 0] /\ skipped = [p \in Pids |-> 0]

Goto(t, label) == tpc' = [tpc EXCEPT ![t] = label]
At(t, label)   == tpc[t] = label
Pid(t)         == processOf[t]

-----------------------------------------------------------------------------
\* readS: the comparison sets the flag ...
ReadS(t) ==
    /\ At(t, "idle") /\ Goto(t, "verdict")
    /\ overridden' \in Verdicts
    /\ UNCHANGED <<globalSeq, fdInfo, reg, size, answer, history, rings>>

\* ... and bpf_probe_write_user copies the flag to the client.
ReadSTell(t) ==
    /\ At(t, "verdict") /\ Goto(t, "idle")
    /\ answer' = [answer EXCEPT ![t] = overridden]
    /\ UNCHANGED <<shared, reg, size, history, rings>>

-----------------------------------------------------------------------------
\* preadRaw returns at once when the flag is down ...
PreadRawPlain(t) ==
    /\ At(t, "idle") /\ overridden = 0
    /\ answer' = [answer EXCEPT ![t] = 0]
    /\ UNCHANGED <<shared, tpc, reg, size, history, rings>>

\* Mutant: the test of the flag is missing.
PreadRawUntested(t) ==
    /\ At(t, "idle") /\ preads < MaxPreads
    /\ Goto(t, "tell")
    /\ preads' = preads + 1
    /\ \E n \in Sizes : size' = [size EXCEPT ![t] = n]
    /\ UNCHANGED <<shared, reg, answer, handed, skipped, rings>>

PreadRaw(t) ==
    /\ At(t, "idle") /\ overridden = 1 /\ preads < MaxPreads
    /\ Goto(t, "tell")
    /\ preads' = preads + 1
    /\ \E n \in Sizes : size' = [size EXCEPT ![t] = n]
    /\ UNCHANGED <<shared, reg, answer, handed, skipped, rings>>

\* ... otherwise it copies the flag, as it is by then, to the client, who
\* skips its own pread if it finds it up ...
PreadTell(t) ==
    /\ At(t, "tell") /\ Goto(t, "loadSeq")
    /\ answer' = [answer EXCEPT ![t] = overridden]
    /\ skipped' = [skipped EXCEPT ![Pid(t)] = @ + overridden * size[t]]
    /\ UNCHANGED <<shared, reg, size, preads, handed, rings>>

\* ... takes a number, global_seq++, which is a load and a store ...
LoadSeq(t) ==
    /\ At(t, "loadSeq") /\ Goto(t, "storeSeq")
    /\ reg' = [reg EXCEPT ![t] = globalSeq]
    /\ UNCHANGED <<shared, size, answer, history, rings>>

\* Mutant: the number is taken without counting it.
StoreSeqUncounted(t) ==
    /\ At(t, "storeSeq") /\ Goto(t, "emit")
    /\ globalSeq' = reg[t]
    /\ UNCHANGED <<overridden, fdInfo, reg, size, answer, history, rings>>

StoreSeq(t) ==
    /\ At(t, "storeSeq") /\ Goto(t, "emit")
    /\ globalSeq' = reg[t] + 1
    /\ UNCHANGED <<overridden, fdInfo, reg, size, answer, history, rings>>

\* ... outputs the record of the read ...
Emit(t) ==
    /\ At(t, "emit") /\ Goto(t, "lookup")
    /\ OutputPrepare([pid |-> Pid(t), seq |-> reg[t], size |-> size[t]])
    /\ handed' = [handed EXCEPT ![Pid(t)] = @ + size[t]]
    /\ UNCHANGED <<shared, reg, size, answer, preads, skipped, submitRb>>

\* ... and adds its size to the total of the process: it looks the pid up and
\* either does total += to_read, a load and a store, or inserts a new entry.
\* Mutant: the look-up uses another key than the insertion and never hits.
LookupMisses(t) ==
    /\ At(t, "lookup")
    /\ Goto(t, "insert")
    /\ UNCHANGED <<shared, reg, size, answer, history, rings>>

Lookup(t) ==
    /\ At(t, "lookup")
    /\ Goto(t, IF fdInfo[Pid(t)] = Absent THEN "insert" ELSE "loadTotal")
    /\ UNCHANGED <<shared, reg, size, answer, history, rings>>

LoadTotal(t) ==
    /\ At(t, "loadTotal") /\ Goto(t, "storeTotal")
    /\ reg' = [reg EXCEPT ![t] = fdInfo[Pid(t)]]
    /\ UNCHANGED <<shared, size, answer, history, rings>>

StoreTotal(t) ==
    /\ At(t, "storeTotal") /\ Goto(t, "idle")
    /\ fdInfo' = [fdInfo EXCEPT ![Pid(t)] = reg[t] + size[t]]
    /\ UNCHANGED <<overridden, globalSeq, reg, size, answer, history, rings>>

\* Mutant: the else is missing, a new entry is added to as well.
InsertFallsThrough(t) ==
    /\ At(t, "insert") /\ Goto(t, "loadTotal")
    /\ fdInfo' = [fdInfo EXCEPT ![Pid(t)] = size[t]]
    /\ UNCHANGED <<overridden, globalSeq, reg, size, answer, history, rings>>

\* The insertion replaces what another thread of the process has inserted
\* meanwhile; a full map refuses a new process, and nobody looks.
Insert(t) ==
    /\ At(t, "insert") /\ Goto(t, "idle")
    /\ fdInfo' = IF fdInfo[Pid(t)] = Absent /\ FdFull THEN fdInfo
                 ELSE [fdInfo EXCEPT ![Pid(t)] = size[t]]
    /\ UNCHANGED <<overridden, globalSeq, reg, size, answer, history, rings>>

-----------------------------------------------------------------------------
\* batchSubmit returns when the process has no entry, without lowering the
\* flag ...
BatchSubmitPlain(t) ==
    /\ At(t, "idle") /\ fdInfo[Pid(t)] = Absent
    /\ answer' = [answer EXCEPT ![t] = 0]
    /\ UNCHANGED <<shared, tpc, reg, size, history, rings>>

BatchSubmit(t) ==
    /\ At(t, "idle") /\ fdInfo[Pid(t)] # Absent
    /\ Goto(t, "check")
    /\ UNCHANGED <<shared, reg, size, answer, history, rings>>

\* ... otherwise, if the flag is up, ...
BatchTest(t) ==
    /\ At(t, "check") /\ Goto(t, IF overridden = 1 THEN "report" ELSE "reset")
    /\ UNCHANGED <<shared, reg, size, answer, history, rings>>

\* ... it reports the total, as it is by then, to the client ...
BatchReport(t) ==
    /\ At(t, "report") /\ Goto(t, "flush")
    /\ answer' = [answer EXCEPT ![t] = fdInfo[Pid(t)]]
    /\ UNCHANGED <<shared, reg, size, history, rings>>

\* ... and asks the daemon to submit; in any case it lowers the flag.
BatchFlush(t) ==
    /\ At(t, "flush") /\ Goto(t, "reset")
    /\ OutputSubmit(Pid(t))
    /\ UNCHANGED <<shared, reg, size, answer, history, prepareRb>>

BatchReset(t) ==
    /\ At(t, "reset") /\ Goto(t, "idle")
    /\ overridden' = 0
    /\ UNCHANGED <<globalSeq, fdInfo, reg, size, answer, history, rings>>

ProbeStep(t) ==
    /\ \/ ReadS(t) \/ ReadSTell(t)
       \/ PreadRawPlain(t) \/ PreadRaw(t) \/ PreadTell(t)
       \/ LoadSeq(t) \/ StoreSeq(t) \/ Emit(t)
       \/ Lookup(t) \/ LoadTotal(t) \/ StoreTotal(t) \/ Insert(t)
       \/ BatchSubmitPlain(t) \/ BatchSubmit(t) \/ BatchTest(t)
       \/ BatchReport(t) \/ BatchFlush(t) \/ BatchReset(t)
    /\ UNCHANGED processOf
=============================================================================
