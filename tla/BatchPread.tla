----------------------------- MODULE BatchPread -----------------------------
(***************************************************************************)
(* The probes of IO_syscall_patch/batch.bpf.c: readS notes where a read of *)
(* ClickHouse should go, preadRaw hands it to an io_uring, batchSubmit     *)
(* tells the caller how many bytes were read, submits, and waits for       *)
(* BatchSize completions.                                                  *)
(*                                                                         *)
(* The application is one process, and the maps are keyed by its pid: all  *)
(* its threads share info, the entry of pread_submit_map, and total, that  *)
(* of fd_info_map.  The entry is taken to be updated in place.  Those      *)
(* stored in the same map under a sequence number are never read and left  *)
(* out; they may fill it up, but not push out the entry of a process.  A   *)
(* ring that was never initialised has no SQEs, and a wait on it returns   *)
(* at once.                                                                *)
(***************************************************************************)
EXTENDS HelperRing

CONSTANTS Threads, BatchSize, MaxCalls, MaxRaced

VARIABLES pc, seen, calls, overlapped,  \* as in HotPatch
          mine,         \* per thread: its read
          up,           \* io_uring_init_global was called
          initFirst,    \* main_entry runs before batchSubmit at its probe
          info,         \* pread_submit_map[pid]: the read its dest is of, and
                        \*   that its fd is of, or 0
          total,        \* fd_info_map[pid].total_bytes_to_read, 0 if none
          with,         \* history: the reads under way at some time while
                        \*   that of each thread was, itself included
          reported,     \* history: bytes told by batchSubmit
          handed,       \* history: bytes of the reads handed over
          collided,     \* history: a descriptor had the number of the pid
          starved       \* history: a wait began with too few requests

maps    == <<info, total>>
told    == <<with, reported, handed, collided, starved>>
batch   == <<mine, up, initFirst, maps, told>>
vars    == <<uring, pc, seen, calls, overlapped, batch>>

BatchInit ==
    /\ RingInit
    /\ pc = [t \in Threads |-> "app"] /\ seen = [t \in Threads |-> 0]
    /\ calls = 0 /\ overlapped = FALSE
    /\ mine = [t \in Threads |-> 0]
    /\ up = FALSE /\ initFirst \in BOOLEAN
    /\ info = [dest |-> 0, fd |-> 0] /\ total = 0
    /\ with = [t \in Threads |-> {}] /\ reported = 0 /\ handed = 0
    /\ collided = FALSE /\ starved = FALSE

At(t, from, to) == pc[t] = from /\ pc' = [pc EXCEPT ![t] = to]

Enter(t) == overlapped' = (overlapped \/ \E u \in Threads \ {t} : pc[u] # "app")

\* The bytes of a read: some reads are longer than others.
Size(id) == 1 + (id % 2)

\* The threads in a read, from readS to the end of preadRaw.
Reading == {t \in Threads : pc[t] \in {"raw", "add", "fd"}}

ReadS(t) ==
    /\ Enter(t) /\ At(t, "app", "raw")
    /\ calls < IF overlapped' THEN MaxRaced ELSE MaxCalls
    /\ calls' = calls + 1 /\ mine' = [mine EXCEPT ![t] = calls + 1]
    /\ info' = [dest |-> calls + 1, fd |-> 0]
    /\ with' = [u \in Threads |->
                   IF u = t THEN {mine'[v] : v \in Reading \cup {t}}
                   ELSE IF u \in Reading THEN with[u] \cup {calls + 1}
                   ELSE with[u]]
    /\ UNCHANGED <<uring, seen, up, initFirst, total, reported, handed, collided,
                   starved>>

\* Mutant: the second probe does not fill in its descriptor.
PreadRawUnfilled(t) ==
    /\ At(t, "raw", "add")
    /\ UNCHANGED <<uring, seen, calls, overlapped, batch>>

PreadRaw(t) ==
    /\ At(t, "raw", "add")
    /\ info' = [info EXCEPT !.fd = mine[t]]
    /\ UNCHANGED <<uring, seen, calls, overlapped, mine, up, initFirst, total, told>>

\* The result of io_uring_submit_pread is stored and not tested.
AddPendingOp(t) ==
    /\ At(t, "add", "fd")
    /\ sq' = IF up /\ Room THEN Prepared(mine[t]) ELSE sq
    /\ handed' = handed + Size(mine[t])
    /\ UNCHANGED <<inflight, cq, seen, calls, overlapped, mine, up,
                   initFirst, maps, with, reported, collided, starved>>

\* Mutant: a stored total is always added to.
FdInfoAccumulates(t) ==
    /\ At(t, "fd", "app")
    /\ total' = total + Size(mine[t])
    /\ mine' = [mine EXCEPT ![t] = 0] /\ with' = [with EXCEPT ![t] = {}]
    /\ UNCHANGED <<uring, seen, calls, overlapped, up, initFirst, info, reported,
                   handed, collided, starved>>

\* Looked up by fd and stored by pid: the entry is replaced, and only added
\* to if the two numbers are the same.
FdInfo(t) ==
    /\ At(t, "fd", "app")
    /\ \/ total' = Size(mine[t]) /\ UNCHANGED collided
       \/ total' = total + Size(mine[t]) /\ collided' = TRUE
    /\ mine' = [mine EXCEPT ![t] = 0] /\ with' = [with EXCEPT ![t] = {}]
    /\ UNCHANGED <<uring, seen, calls, overlapped, up, initFirst, info, reported,
                   handed, starved>>

\* The two programs that batch.c attaches to the probe batchSubmit, in the
\* order initFirst says.
Arrive(t) ==
    /\ Enter(t) /\ At(t, "app", IF initFirst THEN "init" ELSE "submit")
    /\ UNCHANGED <<uring, seen, calls, batch>>

\* A new ring: what was in the old one is lost to the program.
MainEntry(t) ==
    /\ At(t, "init", IF initFirst THEN "submit" ELSE "app")
    /\ up' = TRUE
    /\ sq' = <<>> /\ inflight' = {} /\ cq' = 0
    /\ UNCHANGED <<seen, calls, overlapped, mine, initFirst, maps, told>>

Leave == IF initFirst THEN "app" ELSE "init"

NothingBatched(t) ==
    /\ total = 0 /\ At(t, "submit", Leave)
    /\ UNCHANGED <<uring, seen, calls, overlapped, batch>>

\* handle_batched_ops waits for BatchSize completions, however many reads
\* were prepared.
BatchSubmit(t) ==
    /\ total > 0 /\ At(t, "submit", "wait")
    /\ reported' = reported + total
    /\ starved' = (starved \/ (up /\ Due < BatchSize))
    /\ Submit
    /\ UNCHANGED <<seen, calls, overlapped, mine, up, initFirst, maps, with,
                   handed, collided>>

Wait(t) ==
    /\ pc[t] = "wait" /\ seen[t] < BatchSize
    /\ IF up THEN WaitAndSeen ELSE UNCHANGED uring
    /\ seen' = [seen EXCEPT ![t] = seen[t] + 1]
    /\ UNCHANGED <<pc, calls, overlapped, batch>>

\* Mutant: one completion too many is waited for.
WaitOverLate(t) ==
    /\ seen[t] > BatchSize /\ At(t, "wait", Leave)
    /\ seen' = [seen EXCEPT ![t] = 0]
    /\ UNCHANGED <<uring, calls, overlapped, batch>>

WaitOver(t) ==
    /\ seen[t] = BatchSize /\ At(t, "wait", Leave)
    /\ seen' = [seen EXCEPT ![t] = 0]
    /\ UNCHANGED <<uring, calls, overlapped, batch>>

Run(t) == \/ PreadRaw(t) \/ AddPendingOp(t) \/ FdInfo(t) \/ MainEntry(t)
          \/ NothingBatched(t) \/ BatchSubmit(t) \/ Wait(t) \/ WaitOver(t)

\* A read ends well or not; none is linked.
Works ==
    /\ \E r \in Ready : End({r})
    /\ UNCHANGED <<pc, seen, calls, overlapped, batch>>

Probes == (\E t \in Threads : ReadS(t) \/ Arrive(t) \/ Run(t)) \/ Works

-----------------------------------------------------------------------------
\* Whatever threads race on the entry of their process, the read one of them is
\* about to prepare takes its destination and its descriptor each from a read
\* that was under way at some time while its own was: another's perhaps, and not
\* the same for both, but never what a read left there that was over before,
\* though nobody clears the entry.  Without a descriptor, as another's readS
\* leaves it, it can only be if there was such another.
NoStaleRequest ==
    \A t \in Threads : pc[t] = "add" =>
        /\ info.dest \in with[t]
        /\ info.fd \in with[t] \/ (info.fd = 0 /\ with[t] # {mine[t]})

\* Until two threads are in the probes together, while every wait began with a
\* full batch and no descriptor has the number of the pid, batchSubmit never
\* tells of more bytes than were handed over.
NeverOverReports == ~overlapped /\ ~starved /\ ~collided => reported <= handed

\* A thread is in the loop of handle_batched_ops, and all is well so far.
Waits == ~overlapped /\ ~starved /\ \E t \in Threads : pc[t] = "wait"
=============================================================================
