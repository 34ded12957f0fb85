----------------------------- MODULE PreadShim -----------------------------
(***************************************************************************)
(* The probe of iouring_hotpatch/test.bpf.c: each pread is also put into   *)
(* an io_uring and submitted at once, and the application goes on to do it *)
(* itself, as the probe does not override it.  The call that makes         *)
(* current_count equal to patch_size waits for all of them.                *)
(*                                                                         *)
(* The variables and the loop are those of UringShim, and so are the steps *)
(* of current_count++, which is shared by all threads without a lock.      *)
(* What current_count counts here are reads that may still write into a    *)
(* buffer the application has gone on with.  As each is submitted at once, *)
(* their number is bounded not by the ring but by PreadSize, which is far  *)
(* larger; the completions are taken to find room, however many.           *)
(***************************************************************************)
EXTENDS UringShim

CONSTANT PreadSize      \* patch_size of test.bpf.c: 100000000

Pread(t) ==
    /\ Enter(t)
    /\ UNCHANGED <<uring, last, seen, count, acked, done>>

\* io_uring_submit_read, then, in a step of its own, io_uring_submit.
PutRead(t) ==
    /\ At(t, "put", "send")
    /\ sq' = IF Room THEN Prepared(op[t]) ELSE sq
    /\ UNCHANGED <<inflight, cq, last, seen, op, count, history>>

SendRead(t) ==
    /\ At(t, "send", "load")
    /\ Submit
    /\ UNCHANGED <<last, seen, op, count, history>>

NotFull(t) ==
    /\ count # PreadSize /\ Return(t, "counted")
    /\ UNCHANGED <<uring, count, history>>

Full(t) ==
    /\ count = PreadSize /\ At(t, "counted", "wait")
    /\ seen' = [seen EXCEPT ![t] = 0]
    /\ UNCHANGED <<uring, last, op, count, history>>

\* Mutant: the count is not reset.
PreadResetNot(t) ==
    /\ Return(t, "reset")
    /\ UNCHANGED <<uring, count, history>>

PreadReset(t) ==
    /\ Return(t, "reset")
    /\ count' = 0
    /\ UNCHANGED <<uring, history>>

RunPread(t) == \/ PutRead(t) \/ SendRead(t) \/ Load(t) \/ Store(t)
               \/ NotFull(t) \/ Full(t)
               \/ Wait(t) \/ Reap(t) \/ WaitOver(t) \/ PreadReset(t)

PreadShimNext == (\E t \in Threads : Pread(t) \/ RunPread(t)) \/ Works
=============================================================================
