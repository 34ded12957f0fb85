------------------------------ MODULE FsyncPoc ------------------------------
(***************************************************************************)
(* iouring_fsync_poc: a benchmark that writes and fsyncs a file through    *)
(* io_uring in batches (iouring_fsync.c) while a kretprobe on              *)
(* file_write_and_wait_range counts the fsyncs whose data the kernel has   *)
(* written back (iouring_fsync.bpf.c).  Built with wait_kernel the program *)
(* spends that count instead of waiting for completions.                   *)
(*                                                                         *)
(* All the writes of a run are alike, and so are the fsyncs, so requests   *)
(* and completions are counted, not named.  The kernel runs the requests   *)
(* of a submission in any order: none is linked.                           *)
(***************************************************************************)
EXTENDS Naturals

CONSTANTS Builds,       \* the values of wait_kernel, with SQEs in the ring
          Loops,        \* tests main runs (10 in the code)
          MaxRounds,    \* bound: batches one test has time for
          Pids,         \* the processes that call fsync
          Self          \* the process itself, current_pid

BatchSize(k) == 2 ^ k   \* 1 << i

ASSUME FsyncAssumption ==
    /\ Builds \subseteq [waitKernel : {0, 1}, entries : Nat \ {0}]
    /\ Loops \in Nat /\ MaxRounds \in Nat \ {0}
    /\ \A k \in 0..Loops : BatchSize(k) \in Nat \ {0}
    /\ Self \in Pids

VARIABLES build,      \* what the program was built with: never changes
          pc,         \* where main or test is
          loop,       \* i of main
          exiting,    \* set by the SIGINT handler
          round,      \* batches of this test so far
          syncCount,  \* sync_count
          waited,     \* completions the wait has seen or made up for
          ret,        \* ret: 0, or 1 for any other value
          sqWrites, sqFsyncs,    \* SQEs prepared and not submitted
          writes, fsyncs,        \* requests the kernel has not worked on yet
          synced,                \* fsyncs back from file_write_and_wait_range
          cq,                    \* completions posted and not seen
          orphans,    \* fsyncs of the rings of earlier tests, like fsyncs
          counter,    \* successful_writeback_count
          spent,      \* history: how much of the counter was ever spent
          issued      \* history: the fsyncs ever submitted

app     == <<loop, exiting, round, syncCount, ret>>
sqes    == <<sqWrites, sqFsyncs>>
kernel  == <<writes, fsyncs, synced, orphans>>
vars    == <<build, pc, app, waited, sqes, kernel, cq, counter, spent, issued>>

WaitKernel == build.waitKernel = 1  \* wait_kernel
Entries    == build.entries         \* 1024 in the code

PC == {"main", "prepWrite", "prepFsync", "submit", "reapAll",
       "decide", "spend", "reap", "reap2", "time", "done"}

Waiting == {"reapAll", "decide", "spend", "reap", "reap2"}

Init ==
    /\ build \in Builds
    /\ pc = "main" /\ loop = 0 /\ exiting = 0
    /\ round = 0 /\ syncCount = 0 /\ waited = 0 /\ ret = 0
    /\ sqWrites = 0 /\ sqFsyncs = 0
    /\ writes = 0 /\ fsyncs = 0 /\ synced = 0 /\ cq = 0 /\ orphans = 0
    /\ counter = 0 /\ spent = 0 /\ issued = 0

-----------------------------------------------------------------------------
\* main starts the next test.  Its ring is new; the ring of the test before
\* was never closed, and what it still has to do goes on.  The counter is
\* set to 0 although an earlier fsync may yet add to it.
StartTest ==
    /\ pc = "main" /\ loop < Loops /\ exiting = 0
    /\ pc' = "prepWrite"
    /\ round' = 0 /\ syncCount' = 0 /\ waited' = 0
    /\ sqWrites' = 0 /\ sqFsyncs' = 0
    /\ writes' = 0 /\ fsyncs' = 0 /\ synced' = 0 /\ cq' = 0
    /\ orphans' = orphans + fsyncs
    /\ counter' = 0
    /\ UNCHANGED <<loop, exiting, ret, spent, issued>>

\* mkstemp or io_uring_queue_init fails: the test returns and main goes on.
TestFails ==
    /\ pc = "main" /\ loop < Loops /\ exiting = 0
    /\ loop' = loop + 1
    /\ UNCHANGED <<pc, exiting, round, syncCount, ret, waited, sqes, kernel,
                   cq, counter, spent, issued>>

Finish ==
    /\ pc = "main" /\ (loop = Loops \/ exiting = 1)
    /\ pc' = "done"
    /\ UNCHANGED <<app, waited, sqes, kernel, cq, counter, spent, issued>>

\* The for loop over the batch: a write, a fsync, and one more is counted.  A
\* full submission ring ends it, possibly between the write and its fsync.
Full == sqWrites + sqFsyncs = Entries

PrepWrite ==
    /\ pc = "prepWrite" /\ syncCount < BatchSize(loop) /\ ~Full
    /\ sqWrites' = sqWrites + 1
    /\ pc' = "prepFsync"
    /\ UNCHANGED <<app, waited, sqFsyncs, kernel, cq, counter, spent, issued>>

PrepFsync ==
    /\ pc = "prepFsync" /\ ~Full
    /\ sqFsyncs' = sqFsyncs + 1 /\ syncCount' = syncCount + 1
    /\ pc' = "prepWrite"
    /\ UNCHANGED <<loop, exiting, round, ret, waited, sqWrites, kernel, cq,
                   counter, spent, issued>>

\* Mutant: sync_count++ comes before the SQE of the fsync is obtained.
PrepOverCounting ==
    /\ \/ pc = "prepWrite" /\ (syncCount = BatchSize(loop) \/ Full)
          /\ UNCHANGED syncCount
       \/ pc = "prepFsync" /\ Full /\ syncCount' = syncCount + 1
    /\ pc' = "submit"
    /\ UNCHANGED <<loop, exiting, round, ret, waited, sqes, kernel, cq, counter,
                   spent, issued>>

PrepOver ==
    /\ \/ pc = "prepWrite" /\ syncCount = BatchSize(loop)
       \/ pc \in {"prepWrite", "prepFsync"} /\ Full
    /\ pc' = "submit"
    /\ UNCHANGED <<app, waited, sqes, kernel, cq, counter, spent, issued>>

\* io_uring_submit hands everything to the kernel; ret becomes what it
\* returns, the number of requests, whatever a full ring had made of it ...
Submit ==
    /\ pc = "submit"
    /\ writes' = writes + sqWrites /\ fsyncs' = fsyncs + sqFsyncs
    /\ issued' = issued + sqFsyncs
    /\ sqWrites' = 0 /\ sqFsyncs' = 0
    /\ ret' = IF sqWrites + sqFsyncs = 0 THEN 0 ELSE 1
    /\ pc' = IF WaitKernel THEN "decide" ELSE "reapAll"
    /\ UNCHANGED <<loop, exiting, round, syncCount, waited, synced, orphans,
                   cq, counter, spent>>

\* ... or it fails and the test returns.
SubmitFails ==
    /\ pc = "submit"
    /\ pc' = "main" /\ loop' = loop + 1
    /\ UNCHANGED <<exiting, round, syncCount, ret, waited, sqes, kernel, cq,
                   counter, spent, issued>>

\* io_uring_wait_cqe and io_uring_cqe_seen.
WaitCqe(from, to) ==
    /\ pc = from /\ cq > 0
    /\ cq' = cq - 1 /\ waited' = waited + 1 /\ ret' = 0
    /\ pc' = to
    /\ UNCHANGED <<loop, exiting, round, syncCount, sqes, kernel, counter,
                   spent, issued>>

\* Without wait_kernel: sync_count * 2 completions.
ReapAll == waited < 2 * syncCount /\ WaitCqe("reapAll", "reapAll")

\* With wait_kernel, for each fsync of the batch: a positive counter is spent,
\* in a test and an atomic decrement, otherwise two completions are reaped.
\* Mutants: the counter is taken to be positive at 0; the loop runs once more.
DecideAtZero ==
    /\ pc = "decide" /\ waited < 2 * syncCount
    /\ pc' = IF counter >= 0 THEN "spend" ELSE "reap"
    /\ UNCHANGED <<app, waited, sqes, kernel, cq, counter, spent, issued>>

DecideOneMore ==
    /\ pc = "decide" /\ waited <= 2 * syncCount
    /\ pc' = IF counter > 0 THEN "spend" ELSE "reap"
    /\ UNCHANGED <<app, waited, sqes, kernel, cq, counter, spent, issued>>

Decide ==
    /\ pc = "decide" /\ waited < 2 * syncCount
    /\ pc' = IF counter > 0 THEN "spend" ELSE "reap"
    /\ UNCHANGED <<app, waited, sqes, kernel, cq, counter, spent, issued>>

Spend ==
    /\ pc = "spend"
    /\ counter' = counter - 1 /\ spent' = spent + 1
    /\ waited' = waited + 2 /\ ret' = 0
    /\ pc' = "decide"
    /\ UNCHANGED <<loop, exiting, round, syncCount, sqes, kernel, cq, issued>>

ReapPair == WaitCqe("reap", "reap2") \/ WaitCqe("reap2", "decide")

\* Mutant: one completion per pair is waited for, not two.
WaitOverHalf ==
    /\ pc \in {"reapAll", "decide"} /\ waited = syncCount
    /\ pc' = "time"
    /\ UNCHANGED <<app, waited, sqes, kernel, cq, counter, spent, issued>>

WaitOver ==
    /\ pc \in {"reapAll", "decide"} /\ waited = 2 * syncCount
    /\ pc' = "time"
    /\ UNCHANGED <<app, waited, sqes, kernel, cq, counter, spent, issued>>

\* Mutant: sync_count is declared outside the loop.
NextRoundKeepsCount ==
    /\ pc = "time" /\ ret = 0 /\ round + 1 < MaxRounds
    /\ round' = round + 1 /\ waited' = 0
    /\ pc' = "prepWrite"
    /\ UNCHANGED <<loop, exiting, syncCount, ret, sqes, kernel, cq, counter,
                   spent, issued>>

\* while (gettimeofday_ms() < tstop && ret == 0)
NextRound ==
    /\ pc = "time" /\ ret = 0 /\ round + 1 < MaxRounds
    /\ round' = round + 1 /\ syncCount' = 0 /\ waited' = 0
    /\ pc' = "prepWrite"
    /\ UNCHANGED <<loop, exiting, ret, sqes, kernel, cq, counter, spent, issued>>

TestOver ==
    /\ pc = "time"
    /\ pc' = "main" /\ loop' = loop + 1
    /\ UNCHANGED <<exiting, round, syncCount, ret, waited, sqes, kernel, cq,
                   counter, spent, issued>>

\* SIGINT: the handler sets the flag, and a blocked io_uring_wait_cqe fails.
Sigint ==
    /\ pc # "done" /\ exiting' = 1
    /\ \/ UNCHANGED <<pc, ret>>
       \/ /\ \/ pc \in {"reap", "reap2"}
             \/ pc = "reapAll" /\ waited < 2 * syncCount
          /\ cq = 0
          /\ ret' = 1 /\ pc' = "time"
    /\ UNCHANGED <<loop, round, syncCount, waited, sqes, kernel, cq, counter,
                   spent, issued>>

-----------------------------------------------------------------------------
\* The kernel: a write completes ...
WriteDone ==
    /\ writes > 0
    /\ writes' = writes - 1 /\ cq' = cq + 1
    /\ UNCHANGED <<pc, app, waited, sqes, fsyncs, synced, orphans, counter,
                   spent, issued>>

\* Mutant: the test of the process id is missing.
ProbeAnyProcess(pid) == counter' = counter + 1

\* ... the kretprobe counts every return of file_write_and_wait_range in this
\* process, whatever it returned and whichever ring the fsync came from ...
Probe(pid) ==
    counter' = IF pid = Self THEN counter + 1 ELSE counter

Writeback ==
    /\ \/ fsyncs > 0 /\ fsyncs' = fsyncs - 1 /\ synced' = synced + 1
          /\ UNCHANGED orphans
       \/ orphans > 0 /\ orphans' = orphans - 1 /\ UNCHANGED <<fsyncs, synced>>
    /\ Probe(Self)
    /\ UNCHANGED <<pc, app, waited, sqes, writes, cq, spent, issued>>

OtherFsync ==
    /\ \E pid \in Pids \ {Self} : Probe(pid)
    /\ UNCHANGED <<pc, app, waited, sqes, kernel, cq, spent, issued>>

\* ... and the fsync completes, later, or without any write-back where the
\* file system has nothing to write back or does it another way.
FsyncDone ==
    /\ \/ synced > 0 /\ synced' = synced - 1 /\ UNCHANGED fsyncs
       \/ fsyncs > 0 /\ fsyncs' = fsyncs - 1 /\ UNCHANGED synced
    /\ cq' = cq + 1
    /\ UNCHANGED <<pc, app, waited, sqes, writes, orphans, counter, spent,
                   issued>>

-----------------------------------------------------------------------------
Test ==
    /\ UNCHANGED build
    /\ \/ StartTest \/ TestFails \/ Finish
       \/ PrepWrite \/ PrepFsync \/ PrepOver \/ Submit \/ SubmitFails
       \/ ReapAll \/ Decide \/ Spend \/ ReapPair \/ WaitOver
       \/ NextRound \/ TestOver

Kernel == UNCHANGED build /\ (WriteDone \/ Writeback \/ FsyncDone)

World == UNCHANGED build /\ (OtherFsync \/ Sigint)

Terminated == pc = "done" /\ UNCHANGED vars

Next == Test \/ Kernel \/ World \/ Terminated

\* The program's thread runs and the kernel works through the requests.
Spec == Init /\ [][Next]_vars /\ WF_vars(Test) /\ WF_vars(Kernel)

-----------------------------------------------------------------------------
\* Every variable keeps the shape the C declarations give it; the ring is
\* never overfilled.
TypeOK ==
    /\ build \in Builds
    /\ pc \in PC /\ loop \in 0..Loops /\ exiting \in {0, 1}
    /\ round \in 0..MaxRounds /\ syncCount \in Nat /\ waited \in Nat
    /\ ret \in {0, 1}
    /\ sqWrites \in Nat /\ sqFsyncs \in Nat /\ sqWrites + sqFsyncs <= Entries
    /\ writes \in Nat /\ fsyncs \in Nat /\ synced \in Nat /\ cq \in Nat
    /\ orphans \in Nat
    /\ counter \in Nat /\ spent \in Nat /\ issued \in Nat

\* What the ring still holds for the program: completions posted or to come.
Outstanding == writes + fsyncs + synced + cq

\* io_uring_wait_cqe never waits for a completion that will not come, with
\* either way of waiting and even if the ring was too small for the batch: the
\* completions outstanding cover the rest of the wait.
EnoughCompletions ==
    pc \in Waiting => 2 * syncCount <= waited + Outstanding

\* The counter is never spent twice: it does not go below 0 between the test
\* and the decrement, and what was spent and what is left was earned by fsyncs
\* this process submitted.
CreditsEarned ==
    /\ pc = "spend" => counter > 0
    /\ counter + spent <= issued

\* The default build with a ring that fits the largest batch.
RoomForBatch ==
    ~WaitKernel /\ \A k \in 0..Loops - 1 : 2 * BatchSize(k) <= Entries

\* "wait for fsync and write completion": without wait_kernel, and with a ring
\* that has room for the batch, every request of the batch has completed and
\* every completion was seen when the wait ends.
BatchReaped ==
    RoomForBatch /\ pc = "time" /\ ret = 0 =>
        syncCount = BatchSize(loop) /\ Outstanding = 0

\* The program ends, whatever the kernel's order: no wait blocks for ever.
Terminates == <>(pc = "done")
=============================================================================
