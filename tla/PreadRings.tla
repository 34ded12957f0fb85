---------------------------- MODULE PreadRings ----------------------------
(***************************************************************************)
(* The two BPF ring buffers between the USDT probes that run inside        *)
(* ClickHouse (IO_syscall_patch/user.bpf.c) and the daemon that issues     *)
(* the reads (IO_syscall_patch/user.c).  The probes are the producers, the *)
(* daemon is the only consumer.  Sizes in bytes become capacities in       *)
(* records.  A record is released, and its room given back, only when the  *)
(* consumer's callback for it has returned.                                *)
(***************************************************************************)
EXTENDS Naturals, Sequences

CONSTANTS PrepareCapacity,   \* records that fit in pread_prepare_ringbuf
          SubmitCapacity     \* records that fit in pread_submit_batch_ringbuf

ASSUME CapacityAssumption ==
    /\ PrepareCapacity \in Nat \ {0}
    /\ SubmitCapacity \in Nat \ {0}

VARIABLES prepareRb,   \* pread_prepare_ringbuf: the records not yet released
          submitRb     \* pread_submit_batch_ringbuf: the pids not yet released

rings == <<prepareRb, submitRb>>

RingsInit == prepareRb = <<>> /\ submitRb = <<>>

\* bpf_ringbuf_output: a record that does not fit is refused with -ENOSPC,
\* and none of the probes looks at the result.
Output(rb, capacity, record) ==
    IF Len(rb) < capacity THEN Append(rb, record) ELSE rb

OutputPrepare(info) == prepareRb' = Output(prepareRb, PrepareCapacity, info)
OutputSubmit(pid)   == submitRb' = Output(submitRb, SubmitCapacity, pid)
=============================================================================
