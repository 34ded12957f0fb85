----------------------------- MODULE UringShim -----------------------------
(***************************************************************************)
(* The probes of clickhouse-iouring/rocksdb.bpf.c: write and fsync of an   *)
(* application are put into an io_uring and reported done at once; when    *)
(* more than patch_size of them are queued they are submitted and waited   *)
(* for.                                                                    *)
(*                                                                         *)
(* current_count is shared by all threads without a lock: each reading and *)
(* each writing of it is a step.  A helper that finds no free SQE does     *)
(* nothing, and its result is ignored.  The application has passed start,  *)
(* which initialises the ring; a write the probe does not match (n # 5) is *)
(* its own and left out.  Write and fsync are not told apart: none is      *)
(* linked to another, each may fail, and nobody looks at the results.      *)
(* What is reported done was not made durable by that, nor by the flush    *)
(* that follows: nothing here is about what a crash leaves.                *)
(***************************************************************************)
EXTENDS HelperRing

CONSTANTS Threads,
          PatchSize,    \* patch_size: 48
          MaxCalls,     \* bound: calls the application makes
          MaxRaced      \* bound: the same, once two probes have overlapped

ASSUME ShimAssumption ==
    /\ PatchSize \in Nat /\ Entries \in Nat \ {0}
    /\ MaxCalls \in Nat /\ MaxRaced \in Nat

VARIABLES pc,           \* where each thread is: "app", or in a probe
          last,         \* per thread: whether it fills the batch, 1 or 0
          seen,         \* per thread: the count read, or i of its loop
          op,           \* per thread: its call
          count,        \* current_count
          acked,        \* history: the calls reported done
          done,         \* history: the calls completed, well or not
          calls,        \* history: calls so far
          overlapped    \* history: two threads were in a probe together

thread  == <<pc, last, seen, op>>
history == <<acked, done, calls, overlapped>>
vars    == <<uring, thread, count, history>>

ShimInit ==
    /\ RingInit
    /\ pc = [t \in Threads |-> "app"] /\ last = [t \in Threads |-> 0]
    /\ seen = [t \in Threads |-> 0] /\ op = [t \in Threads |-> 0]
    /\ count = 0
    /\ acked = {} /\ done = {} /\ calls = 0 /\ overlapped = FALSE

At(t, from, to) == pc[t] = from /\ pc' = [pc EXCEPT ![t] = to]

\* The probe returns: its variables are gone.
Return(t, from) == /\ At(t, from, "app")
                   /\ last' = [last EXCEPT ![t] = 0]
                   /\ seen' = [seen EXCEPT ![t] = 0]
                   /\ op' = [op EXCEPT ![t] = 0]

\* A call is probed.
Enter(t) ==
    /\ At(t, "app", "put")
    /\ overlapped' = (overlapped \/ \E u \in Threads \ {t} : pc[u] # "app")
    /\ calls < IF overlapped' THEN MaxRaced ELSE MaxCalls
    /\ calls' = calls + 1 /\ op' = [op EXCEPT ![t] = calls + 1]

\* write or fsync: which branch is taken is decided first.
Test(t) ==
    /\ Enter(t)
    /\ last' = [last EXCEPT ![t] = IF count < PatchSize THEN 0 ELSE 1]
    /\ UNCHANGED <<uring, seen, count, acked, done>>

\* Mutant: the operation that fills the batch is counted and not added.
PutDropsLast(t) ==
    /\ At(t, "put", "load")
    /\ sq' = IF Room /\ last[t] = 0 THEN Prepared(op[t]) ELSE sq
    /\ UNCHANGED <<inflight, cq, last, seen, op, count, history>>

\* Mutant: only the operation that fills the batch is added.
PutOnlyLast(t) ==
    /\ At(t, "put", "load")
    /\ sq' = IF Room /\ last[t] = 1 THEN Prepared(op[t]) ELSE sq
    /\ UNCHANGED <<inflight, cq, last, seen, op, count, history>>

Put(t) ==
    /\ At(t, "put", "load")
    /\ sq' = IF Room THEN Prepared(op[t]) ELSE sq
    /\ UNCHANGED <<inflight, cq, last, seen, op, count, history>>

\* current_count++
Load(t) ==
    /\ At(t, "load", "store")
    /\ seen' = [seen EXCEPT ![t] = count]
    /\ UNCHANGED <<uring, last, op, count, history>>

Store(t) ==
    /\ At(t, "store", "counted")
    /\ count' = seen[t] + 1
    /\ UNCHANGED <<uring, last, seen, op, history>>

\* bpf_override_return: the call is reported done.
Queued(t) ==
    /\ last[t] = 0 /\ Return(t, "counted")
    /\ acked' = acked \cup {op[t]}
    /\ UNCHANGED <<uring, count, done, calls, overlapped>>

SubmitBatch(t) ==
    /\ last[t] = 1 /\ At(t, "counted", "wait")
    /\ Submit
    /\ seen' = [seen EXCEPT ![t] = 0]
    /\ UNCHANGED <<last, op, count, history>>

\* The loop reads current_count each time round, and if there is more to see
\* it blocks for it, whatever becomes of current_count meanwhile.
Wait(t) ==
    /\ seen[t] < count /\ At(t, "wait", "block")
    /\ UNCHANGED <<uring, last, seen, op, count, history>>

Reap(t) ==
    /\ At(t, "block", "wait")
    /\ WaitAndSeen
    /\ seen' = [seen EXCEPT ![t] = seen[t] + 1]
    /\ UNCHANGED <<last, op, count, history>>

\* Mutant: the last completion is not waited for.
WaitOverEarly(t) ==
    /\ seen[t] + 1 >= count /\ At(t, "wait", "reset")
    /\ UNCHANGED <<uring, last, seen, op, count, history>>

WaitOver(t) ==
    /\ seen[t] >= count /\ At(t, "wait", "reset")
    /\ UNCHANGED <<uring, last, seen, op, count, history>>

\* Mutant: the count is not reset.
ResetNot(t) ==
    /\ Return(t, "reset")
    /\ acked' = acked \cup {op[t]}
    /\ UNCHANGED <<uring, count, done, calls, overlapped>>

Reset(t) ==
    /\ Return(t, "reset")
    /\ count' = 0
    /\ acked' = acked \cup {op[t]}
    /\ UNCHANGED <<uring, done, calls, overlapped>>

Run(t) == \/ Put(t) \/ Load(t) \/ Store(t) \/ Queued(t)
          \/ SubmitBatch(t) \/ Wait(t) \/ Reap(t) \/ WaitOver(t) \/ Reset(t)

\* The kernel works on the requests in any order, as none is linked; each ends
\* well or not, which makes no difference to the program.
Works ==
    /\ \E r \in inflight : End({r}) /\ done' = done \cup {r.id}
    /\ UNCHANGED <<thread, count, acked, calls, overlapped>>

Shim == (\E t \in Threads : Test(t) \/ Run(t)) \/ Works

-----------------------------------------------------------------------------
NoneRunning == \A t \in Threads : pc[t] = "app"

\* Until two probes overlap, and in a ring with room for a batch, a call the
\* application was told is done has been completed, well or not, or is on its
\* way: none is dropped for want of an SQE and none is left behind by a flush ...
NoWriteForgotten ==
    PatchSize < Entries /\ ~overlapped =>
        acked \subseteq done \cup Ids(inflight) \cup Ids(Elements(sq))

\* ... and between two probes those not completed, whose buffers the application
\* is free to reuse, are no more than current_count says and than patch_size.
NotCompleted ==
    PatchSize < Entries /\ ~overlapped /\ NoneRunning =>
        Cardinality(acked \ done) <= count /\ Cardinality(acked \ done) <= PatchSize

\* A thread is in the loop over io_uring_wait_and_seen.
Waits == \E t \in Threads : pc[t] \in {"wait", "block"}
=============================================================================
