------------------------------ MODULE HotPatch ------------------------------
(***************************************************************************)
(* The probes of IO_syscall_patch/backup.bpf.c: pread, send and recv of an *)
(* application are put into an io_uring, linked one to the next, and       *)
(* reported done; op_count counts them, and whoever makes it BatchSize     *)
(* submits them and waits for as many completions.  A probe of its own     *)
(* flushes what is left.                                                   *)
(*                                                                         *)
(* op_count is one word shared by all threads, read and written through    *)
(* the pointer of the map without a lock: each reading and each writing of *)
(* it is a step here.  The application has passed start, which sets        *)
(* global, initialises the ring and zeroes the map.  A call on a           *)
(* descriptor below 3 is its own and left out, as are global_seq_num,      *)
(* which nothing reads, and what the entries of bpftime_inode_map hold:    *)
(* only whether there is one is tested.  It has room for 10000.            *)
(***************************************************************************)
EXTENDS HelperRing

CONSTANTS Threads, BatchSize,
          MaxCalls,     \* bound: operations of the application
          MaxRaced      \* bound: the same, once two probes have overlapped

VARIABLES pc,           \* where each thread is: "app", or in a probe
          count,        \* op_count
          keys,         \* the keys of bpftime_inode_map
          seen,         \* per thread: the count read, or i of its loop
          res,          \* per thread: what submit_if_batch_full returned
          done,         \* history: the operations performed, in that order
          lost,         \* history: those that failed or were cancelled
          calls,        \* history: the operations so far are 1..calls
          overlapped,   \* history: two threads were in a probe together
          recvs         \* history: those that are recv, until then

thread  == <<pc, seen, res>>
history == <<done, lost, calls, overlapped, recvs>>
vars    == <<uring, thread, count, keys, history>>

PatchInit ==
    /\ RingInit
    /\ pc = [t \in Threads |-> "app"] /\ seen = [t \in Threads |-> 0]
    /\ res = [t \in Threads |-> 0]
    /\ count = 0 /\ keys = {}
    /\ done = <<>> /\ lost = {}
    /\ calls = 0 /\ recvs = {} /\ overlapped = FALSE

At(t, from, to) == pc[t] = from /\ pc' = [pc EXCEPT ![t] = to]

\* The probe returns: its variables are gone.
Return(t, from) == /\ At(t, from, "app")
                   /\ seen' = [seen EXCEPT ![t] = 0]
                   /\ res' = [res EXCEPT ![t] = 0]

\* Thread t enters a probe, for a recv or not; as often as MaxCalls and
\* MaxRaced allow if it is for an operation.
Enter(t, recv) ==
    /\ overlapped' = (overlapped \/ \E u \in Threads \ {t} : pc[u] # "app")
    /\ recvs' = IF overlapped' THEN {} ELSE recvs \cup recv

Call(t, recv) ==
    /\ Enter(t, recv)
    /\ calls < IF overlapped' THEN MaxRaced ELSE MaxCalls
    /\ calls' = calls + 1

\* Mutant: the result of the helper is ignored.
QueueUnchecked(t) ==
    /\ Call(t, {calls + 1}) /\ At(t, "app", "count")
    /\ sq' = IF Room THEN Prepared(calls + 1) ELSE sq
    /\ UNCHANGED <<inflight, cq, done, lost, seen, res, count, keys>>

\* pread and send set the link flag next, recv does not.
Queue(t) ==
    /\ Room
    /\ \/ Call(t, {}) /\ At(t, "app", "link")
       \/ Call(t, {calls + 1}) /\ At(t, "app", "count")
    /\ sq' = Prepared(calls + 1)
    /\ UNCHANGED <<inflight, cq, done, lost, seen, res, count, keys>>

\* The ring is full: the probe returns and the application does it itself.
OwnCall(t) ==
    /\ ~Room /\ pc[t] = "app" /\ Call(t, {})
    /\ done' = Append(done, calls + 1)
    /\ UNCHANGED <<uring, lost, thread, count, keys>>

\* Mutant: the flag is not set.
SetLinkflagNot(t) ==
    /\ At(t, "link", "count")
    /\ UNCHANGED <<uring, seen, res, count, keys, history>>

SetLinkflag(t) ==
    /\ At(t, "link", "count")
    /\ sq' = IF sq = <<>> THEN sq ELSE Linked
    /\ UNCHANGED <<inflight, cq, seen, res, count, keys, history>>

\* A reading of op_count, and a writing of what was read, plus by.
Load(t, from, to) ==
    /\ At(t, from, to)
    /\ seen' = [seen EXCEPT ![t] = count]
    /\ UNCHANGED <<uring, res, count, keys, history>>

Store(t, by, from, to) ==
    /\ At(t, from, to)
    /\ count' = seen[t] + by
    /\ UNCHANGED <<uring, seen, res, keys, history>>

\* (*count)++, then bpf_map_update_elem copies the word onto itself.
CountUp(t) ==
    \/ Load(t, "count", "plus") \/ Store(t, 1, "plus", "copy")
    \/ Load(t, "copy", "paste") \/ Store(t, 0, "paste", "insert")

Insert(t) ==
    /\ At(t, "insert", "test")
    /\ keys' = keys \cup {count}
    /\ UNCHANGED <<uring, seen, res, count, history>>

NotFull(t) ==
    /\ count < BatchSize
    /\ At(t, "test", "find")
    /\ res' = [res EXCEPT ![t] = 0]
    /\ UNCHANGED <<uring, seen, count, keys, history>>

SubmitBatch(t) ==
    /\ count >= BatchSize
    /\ At(t, "test", "wait")
    /\ Submit
    /\ res' = [res EXCEPT ![t] = 1] /\ seen' = [seen EXCEPT ![t] = 0]
    /\ UNCHANGED <<count, keys, history>>

\* The two loops over io_uring_wait_and_seen read op_count each time round, and
\* if there is more to see they block for it, whatever op_count becomes.
Wait(t) ==
    /\ seen[t] < count
    /\ At(t, "wait", "block") \/ At(t, "flush", "drain")
    /\ UNCHANGED <<uring, seen, res, count, keys, history>>

Reap(t) ==
    /\ At(t, "block", "wait") \/ At(t, "drain", "flush")
    /\ WaitAndSeen
    /\ seen' = [seen EXCEPT ![t] = seen[t] + 1]
    /\ UNCHANGED <<res, count, keys, history>>

\* Mutant: the batch's last completion is not waited for.
WaitOverEarly(t) ==
    /\ seen[t] + 1 >= count
    /\ At(t, "wait", "find") \/ At(t, "flush", "reset")
    /\ UNCHANGED <<uring, seen, res, count, keys, history>>

WaitOver(t) ==
    /\ seen[t] >= count
    /\ At(t, "wait", "find") \/ At(t, "flush", "reset")
    /\ UNCHANGED <<uring, seen, res, count, keys, history>>

\* Mutant: the count stays as it is after a batch.
FindNoReset(t) == Return(t, "find") /\ UNCHANGED <<uring, count, keys, history>>

\* op_stale is looked up under the count as it is now; without an entry
\* add_pending_op returns early and keeps the count of a full batch.
Find(t) ==
    /\ IF count \in keys /\ res[t] = 1
       THEN At(t, "find", "reset") /\ UNCHANGED <<seen, res>>
       ELSE Return(t, "find")
    /\ UNCHANGED <<uring, count, keys, history>>

Reset(t) ==
    /\ Return(t, "reset")
    /\ count' = 0
    /\ UNCHANGED <<uring, keys, history>>

\* bpf_end_patch: handle_unbatched_ops.
Flush(t) ==
    /\ Enter(t, {}) /\ At(t, "app", "flush")
    /\ Submit
    /\ seen' = [seen EXCEPT ![t] = 0]
    /\ UNCHANGED <<res, count, keys, done, lost, calls>>

Run(t) == \/ SetLinkflag(t) \/ CountUp(t) \/ Insert(t) \/ NotFull(t)
          \/ SubmitBatch(t) \/ Wait(t) \/ Reap(t) \/ WaitOver(t)
          \/ Find(t) \/ Reset(t)

\* A request ends well, or fails and cancels those linked behind it.
Works ==
    /\ \E r \in Ready :
          \/ End({r}) /\ done' = Append(done, r.id) /\ UNCHANGED lost
          \/ End(ChainOf(r)) /\ lost' = lost \cup Ids(ChainOf(r)) /\ UNCHANGED done
    /\ UNCHANGED <<thread, count, keys, calls, overlapped, recvs>>

Patch == (\E t \in Threads : Queue(t) \/ OwnCall(t) \/ Flush(t) \/ Run(t)) \/ Works

PatchSpec == PatchInit /\ [][Patch]_vars

-----------------------------------------------------------------------------
\* Until two probes overlap, every operation of the application is in exactly
\* one place: in the ring, performed, or failed, in a full ring, through batches,
\* flushes and cancelled chains; none is performed by both the application and
\* the kernel.  A probe that returns 0 without overriding and one that overrides
\* agree with what io_uring_submit_* did.
EachOpOnce ==
    ~overlapped =>
        LET places == <<Ids(Elements(sq)), Ids(inflight), Elements(done), lost>>
        IN  /\ UNION Elements(places) = 1..calls
            /\ \A i, j \in 1..4 : i # j => places[i] \cap places[j] = {}
            /\ \A i, j \in DOMAIN done : done[i] = done[j] => i = j

\* Until two probes overlap, op_count is the operations prepared and nothing
\* else is outstanding whenever no probe runs; a flush leaves nothing.
Settled ==
    ~overlapped /\ (\A t \in Threads : pc[t] = "app") =>
        count = Len(sq) /\ inflight = {} /\ cq = 0

\* Until two probes overlap, and if a batch fits the ring, operations are
\* performed in call order across batches and flushes: one overtakes an
\* earlier one only from behind a recv, which is not linked to what follows.
InCallOrder ==
    ~overlapped /\ BatchSize <= Entries =>
        \A i, j \in DOMAIN done : i < j /\ done[i] > done[j] =>
            recvs \cap (done[j]..done[i] - 1) # {}

\* A thread is in a loop over io_uring_wait_and_seen.
Waits == \E t \in Threads : pc[t] \in {"wait", "block", "flush", "drain"}
=============================================================================
