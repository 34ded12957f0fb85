# TLA+ models of Clickhouse-Uring

This directory specifies, model-checks and partly proves the programs of this
repository: BPF probes that replace the blocking I/O of an application
(ClickHouse, RocksDB, a small client) by batches through `io_uring`, the daemon
and the pocs around them, and the client/server pair used to measure them. The
code is read as it is; a module's header comment names the file it models, and
`PROJECT.json` maps every definition to the lines it stands for.

Contents

1. The system
2. The modules and how they correspond to the code
3. The runs: what each one checks, its bounds, what it shows
4. Fairness
5. What is proved, from which assumptions, along which argument
6. What is only model-checked, and what is not modelled
7. The order of work

---

## 1. The system

The repository is a collection of programs that share one idea and little
code. Each paragraph gives the state, the operations, the interactions, what is
hard, and what makes the part correct.

### 1.1 The pread pipeline (`IO_syscall_patch/user.bpf.c`, `user.c`)

*State.* In the BPF program: the global flag `overridden`, the counter `global_seq`,
the map `fd_info_map` (pid to total bytes, for 1000 processes and never emptied),
and two ring buffers of 1024 bytes. In the daemon: `batch_count`, `exiting` and an
`io_uring` of 1024 entries.

*Operations.* ClickHouse threads hit three USDT probes. `readS` decides whether
the read is overridden and tells the client; `preadRaw` tells the client to skip
its own `pread`, numbers the read, outputs a record to the prepare ring buffer
and adds the size to the process's total; `batchSubmit` reports the total,
outputs a record to the submit ring buffer and lowers the flag. The daemon polls
the two ring buffers in turn: a prepare record becomes a linked SQE, a submit
record submits everything prepared and waits for `batch_count` completions.

*Interactions.* Probes and daemon share only the ring buffers; the client learns
its instructions from the words the probes write into its memory.

*Hard.* The probes run at once on different CPUs and share words without atomics;
records that do not fit are dropped and nobody looks, and so is a total when the map
is full; the two ring buffers are polled alternately, so a submit record is often
handled with other reads prepared than those it was meant for; a failed read cancels
the rest of its chain; SIGINT interrupts a wait and leaves the count behind.

*Correct means.* No read is done twice, by the daemon and by the client (that none
is lost the code does not promise: section 3); reads are done in order; the count
and the ring agree, so that no wait is for a completion that does not come; totals
are never more than what was handed over, and with one thread exactly that.

### 1.2 The fsync benchmark (`iouring_fsync_poc/`)

*State.* `sync_count` and the ring of the current test; the rings of earlier
tests, which are never closed; `successful_writeback_count`, shared with the
probe. *Operations.* `main` runs ten tests with batches of 1, 2, 4 ... 512;
each prepares a write and an fsync per element, submits, and waits either for
every completion or (`wait_kernel`) spends one unit of the counter instead of
two completions whenever it is positive. A kretprobe on
`file_write_and_wait_range` increments the counter for this process.

*Hard.* The counter is tested and decremented while the probe increments it;
it is reset while fsyncs of old rings are still running; credits and completions
of different batches mix; the ring is exactly full at the last batch size.
*Correct means.* No wait blocks for ever; no credit is spent that was not
earned; without `wait_kernel` the wait of a batch reaps the batch.

### 1.3 The ring pipeline (`ring_pipeline/four_ring_pipeline.c`)

*State.* Two array rings with `head` and `tail`, one `io_uring`, one packet
buffer. *Operations.* `ring_enqueue`, `ring_dequeue`; per packet: receive,
process, write, wait. *Hard.* The wrap of the indices, full against empty, and
the buffer the kernel reads while the program may fill it. *Correct means.* The
ring is a queue; every packet is written once, processed, in order.

### 1.4 The transfer programs (`iouring_hotpatch/`)

`server.c` stores what one client sends in `response.txt` and sends the file
back. `client.c` does blocking calls; `uring_client.c` puts a read and a send per
chunk into batches, then receives and stores the answer one request at a time;
`uring_client copy.c` waits for each read before it prepares the send and batches
only the sends.

*State.* File offsets, one buffer, `batch_count`, the ring; at the server the
file and its offset; the two directions of the connection. *Hard.* The two
processes may wait for each other; requests of a batch complete in any order and
share a buffer; some `io_uring_wait_cqe` takes another request's completion;
timeouts and failed requests cut the transfer. *Correct means.* Nobody waits for
ever, nothing is reordered, completions are neither missed nor left over, and
what was sent is the file. The last does **not** hold for the io_uring clients
(section 3).

### 1.5 The shims and the readers

*Write/fsync shim (`clickhouse-iouring/rocksdb.bpf.c`).* State: `current_count`
and the ring of the bpftime helpers. The probes on `write` and `fsync` queue the
operation, report success, and flush (submit, then wait `current_count` times)
when more than `patch_size` are queued. Hard: success is reported before
anything is submitted; the count is shared by all threads without a lock; count,
ring and completions have to agree, and the helpers' results are ignored. Correct
means: nothing reported is dropped or left behind, and the count is what is
outstanding, which bounds the calls whose buffers the kernel may still need. What is
durable is another question: no request is linked to another, a failed one counts as
completed, and so even after a flush an fsync may have run before a write, or failed.

*Pread shim (`iouring_hotpatch/test.bpf.c`).* The same count, but each read is
submitted at once and the application does it too; what is outstanding is reads
that may still write into a buffer the application has gone on with. Its
`patch_size` is 1e8, far above any ring, and needs no room in one.

*Plain readers (`vanilla_uring_read.c`, `read_uring.c`).* A batch, a submission,
a wait. The second asks for batches of 256 in a ring of 32 and hands the
submission the wrong address. Correct means: a batch is reaped whole; the second
never comes to its call.

### 1.6 The write-back credits (`bpf/rocksdb.bpf.c`)

*State.* The counter and the map of inodes. *Operations.* An inode is registered
at RocksDB's submission, `__writeback_single_inode` of a registered inode adds a
credit, `wait_for_queue` is skipped for as many credits as it has requests.
*Hard.* The counter is changed by plain loads and stores on several CPUs; it is
unsigned; the key of the map is half of the inode number. *Correct means.* The
counter never wraps and never exceeds what was counted.

### 1.7 The patches (`IO_syscall_patch/backup.bpf.c`, `batch.bpf.c`)

*`backup.bpf.c`.* State: `op_count` and `bpftime_inode_map` in BPF maps, the
ring. Probes on `pread`, `send` and `recv` put the operation into the ring, link
all but `recv` to the next one, count it, file it, and report it done; whoever
makes the count `BATCH_SIZE` submits and waits; a probe of its own flushes the
rest. Hard: the count is read and written through a pointer by all threads; the
loops read it each time round; whether the count is reset depends on a look-up
under what it is by then; the submission queue itself is not safe between threads
either. Correct means: no operation is done twice or vanishes; order is kept; count
and ring agree.

*`batch.bpf.c`.* State: per process one entry with where a read should go and one
with a total, and the ring. `readS` fills in the destination, `preadRaw` the rest
and hands the read over, `batchSubmit` reports the total, submits, and waits for
`BATCH_SIZE` completions, always. Hard: the entry is shared by the threads of a
process, replaced by `readS` (which leaves no descriptor in it), updated in place by
`preadRaw` and never cleared; the total is looked up by descriptor and stored by
pid; the loader attaches the probe that makes a new ring to `batchSubmit` too.
Correct means: a read takes descriptor and destination of its own call, or where
threads mix them at least of calls under way with it; no more is reported than was
handed over; the wait ends.

### 1.8 The counters (`clickhouse-uring.*`, `tp.*`, `fsync-latency-bpf`)

*Operation counter.* One word of a map, incremented by a load, a store and a copy
onto itself on every CPU; one loader stores 79 into it after attaching. *Fsync
latency.* A map from thread to the start of its fsync, and a record of two running
means with one count, updated word by word from every CPU. Correct means: the count
is the probes hit or, with races, less; each latency is of an fsync under way, the
mean is a mean. The last does **not** hold (section 3).

### 1.9 The rest

A tracer (`uprobe.*`), programs to be traced, loaders, benchmark results, generated
kernel headers. `PROJECT.json` lists them all with the reason each is left out.

---

## 2. The modules

| module | models | role |
|---|---|---|
| `PreadRings` | `user.bpf.c` 38-57 | the two ring buffers; extended by probes and daemon |
| `PreadProbes` | `user.bpf.c` | the three probes, one step per access to shared memory |
| `PreadProbesEnv` | | the probes with a consumer that releases records at will |
| `PreadDaemon` | `user.c` | main loop, callbacks, SIGINT, kernel |
| `PreadDaemonEnv` | | the daemon with probes that output anything at any time |
| `ReadQueue` | | abstract: a queue of reads, in order, at most once |
| `PreadPipeline` | both | probes and daemon composed |
| `FsyncPoc` | `iouring_fsync.c`, `.bpf.c` | program, probe, kernel |
| `SimpleRing` | `four_ring_pipeline.c` 20-63 | the ring as operators on a record |
| `SimpleRingUse` | | the ring in the hands of any caller |
| `PacketQueue` | | abstract: a bounded queue |
| `RingPipeline` | `four_ring_pipeline.c` 73-130 | main, with the kernel |
| `EchoServer` | `server.c` 76-108 | the server, the connection |
| `BlockingClient` | `client.c` 66-115 | the client's actions |
| `TransferRing` | | what the io_uring clients share: ring, buffer, kernel |
| `UringClient` | `uring_client.c` | the client's actions |
| `UringClientCopy` | `uring_client copy.c` | the older client's actions |
| `Transfer` | the four programs | the server composed with the client that was started, the kernel and time |
| `Rings` | | any caller, or main: one run for both |
| `HelperRing` | | an `io_uring` behind liburing or the helpers of bpftime: prepare, link, submit, wait, the kernel |
| `UringShim` | `clickhouse-iouring/rocksdb.bpf.c` | the probes on write and fsync, one step per access to the count |
| `PreadShim` | `test.bpf.c` 116-129 | the probe on pread, with the variables of `UringShim` |
| `PlainReader` | `vanilla_uring_read.c`, `read_uring.c` | both loops |
| `RingPrograms` | | the three of them, each in a process of its own |
| `HotPatch` | `backup.bpf.c` | the probes on pread, send, recv and end |
| `BatchPread` | `batch.bpf.c`, `batch.c` 72-99 | readS, preadRaw, batchSubmit, main_entry |
| `Patches` | | the two families of probes |
| `WritebackCredits` | `bpf/rocksdb.bpf.c` | the three probes on several CPUs |
| `OpCounter` | `clickhouse-uring.bpf.c`, `tp.bpf.c`, `clickhouse-uring.c` | the word that is counted in, and the loader's store |
| `FsyncLatency` | `fsync-latency-bpf/rocksdb.bpf.c` | the three probes and their arithmetic |
| `Counters` | | the three programs that count |

`<M>MC` gives `<M>` those values for TLC that a configuration cannot write down;
`<M>Proofs` holds the theorems about `<M>` and the modules it composes:
`PreadPipelineProofs` also those about the daemon with any probes,
`TransferProofs`, `RingsProofs`, `RingProgramsProofs`, `PatchesProofs` and
`CountersProofs` those about each of their programs.

*Compositions.* `PreadPipeline` and `Transfer` compose programs that run
together. `Rings`, `RingPrograms`, `Patches` and `Counters` put programs of one
kind side by side that never do: a variable `program` (`user` in `Rings`), chosen
in the initial state for good, says which one takes the steps, and the others keep
their initial states. `Transfer` chooses its client in the same way, `FsyncPoc`
the build, and `processOf` in `PreadProbes` which thread belongs to which process.
One run thus covers every choice; it shows the same as one run for each of them
would, since no step changes the choice.

### Conventions

* **A program counter** (`dpc`, `tpc`, `pc`, `cpc`) names where a thread is.
  A stretch of code that touches nothing shared is one action with the access
  that follows it; an access to shared memory is a step of its own.
* **The kernel** is an external component: io_uring takes a submission whole,
  works on requests in any order unless they are linked, may fail any of them,
  and posts one completion for each. `io_uring_get_sqe` fails when the ring is
  full. A request holds the address of its buffer, never its content: in
  `RingPipeline` and `TransferRing` a write or send takes what the buffer holds
  at the moment the kernel works on it.
* **Data** is abstracted to what the properties tell apart: a read is its number
  (`PreadDaemonEnv`) or pid, number and size (`PreadProbes`); a file is a
  sequence of numbered chunks; the requests of `FsyncPoc` are counted.
* **History variables** (`performed`, `handed`, `skipped`, `spent`, `issued`,
  `sent`, `arrived`, `lost`, `unread`, `acked`, `done`, `earned`, `overlapped`,
  `written`, `failed`, `recvs`, `with`, `reported`, `collided`, `starved`, `hits`,
  `exits`, `taken`, `stray`) are read by properties and bounds only. The bounds
  (`MaxRecords`, `MaxPreads`, `MaxRounds`, `MaxOld`, `MaxCalls`, `MaxRaced`,
  `MaxEarned`, `MaxSpent`, `MaxHits`, `MaxNow`, `MaxSamples`) appear in
  guards only and stop the environment, never the program. `MaxRaced` takes the
  place of `MaxCalls` once two probes have overlapped: races multiply the states,
  and only few properties go on.
* **`~overlapped`.** The probes of the shims, patches and counters have data races
  that break most of what they are for, which a reader of the code sees at once.
  Most properties therefore say what holds until two probes have been under way
  together, which includes every application with one thread and every one that
  serialises its calls; some (`NoStaleRequest`, `NeverOvercounts`, `NeverInvents`,
  `TypeOK`) say what holds even then.
* **Helpers of bpftime and liburing** are one step each (`HelperRing`). Between threads
  they are not: `io_uring_get_sqe`, the filling of the SQE and the submission take no
  lock, and neither do the probes. What the shims and the patches do after two probes
  overlapped is therefore explored but nothing is claimed of the ring then: the
  properties that mention it are guarded by `~overlapped`, and `NoStaleRequest` is
  about the map entry alone.
* **Mutants**: definitions marked "Mutant" stand before the action they are a
  faulty variant of. They are not part of any specification; each property is
  known to fail when one of them takes the action's place.

### Correspondence of the core, in detail

`PreadProbes`. `ReadS` is lines 74-88/91 up to the store to `overridden`;
`ReadSTell` is `bpf_probe_write_user`, which reads the global again. `PreadRaw` is
the test at 112, `PreadTell` the copy at 115, which again reads the global.
`LoadSeq`/`StoreSeq` are `global_seq++`, `Emit` the record at 140, `Lookup` 142,
`LoadTotal`/`StoreTotal` the `+=` of 144, `Insert` 147-155, which a full map refuses
(`FdFull`). `BatchSubmit`, `BatchTest`, `BatchReport`, `BatchFlush`, `BatchReset`
are 165, 170, 171, 172 and 175; `BatchSubmitPlain` is the early return at 168, which
does *not* lower the flag. The constant `Verdicts` is what the comparison at line 87
can yield: it compares a pointer of the client with the address of a local array, so
the build yields `{0}` only. A theorem says what follows from that (section 5); the
runs use `{0, 1}`, what the probes do once the comparison is one of names.

`PreadDaemon`. `ring_buffer__poll(rb, -1)` is `PollPrepare`/`PollSubmit`
(blocks until there is a record), `HandlePrepare`/`HandleSubmit` for each record,
and `...Drained` when the buffer is empty, as libbpf does. A record is
released after its callback: `HandleSubmit` leaves the record in place and
`WaitDone` removes it. `Sigint` sets the flag and may in the same step interrupt
a blocked poll or wait: the first ends the loop (line 195/201), the second
returns from the callback with `batch_count` as it was (line 75).

`FsyncPoc`. `waited` counts completions seen, plus two for each unit of the
counter spent. `StartTest` makes the requests still in the old ring `orphans`:
their fsyncs go on adding to the counter, and nobody waits for them.
`NextRound` or `TestOver` is the `while` condition; which of them
is taken when `ret = 0` is time's choice.

`WritebackCredits`. A probe that changes the counter is a load step and a store
step. Between the test at 66 and the subtraction at 71 nothing is called that
could change the counter in the eyes of the compiler, so test and subtraction use
one load; the increment at 152 comes after calls, so it loads anew there.

`UringShim`. `Test` is the comparison at 30 or 51, which decides the branch before
the count is changed; `Put` the helper; `Load`/`Store` the `++`; `Queued` the end of
the first branch, `SubmitBatch`, `Wait`, `Reap`, `WaitOver`, `Reset` the second: the
loop reads the count (`Wait` or `WaitOver`), and once it has decided to wait it is
blocked in the helper until there is a completion (`Reap`), whatever becomes of the
count. `write` and `fsync` differ in the helper they call only. `PreadShim` has a
`patch_size` of its own, `PreadSize`.

`HotPatch`. `Queue` is a probe up to the helper that finds room; `OwnCall` the
return when it does not. `CountUp` is four accesses: the `++` of line 137, and the
`bpf_map_update_elem` of 138, whose source is the word it writes to. `NotFull`,
`SubmitBatch`, `Wait`, `Reap` and `WaitOver` are `submit_if_batch_full`, `Find` the
look-up at 143 and `Reset` line 152; `Flush`, `Wait`, `Reap`, `WaitOver` and `Reset`
are `handle_unbatched_ops`.

`BatchPread`. Of the entry of the process, `info`, the model keeps from which read
its destination and its descriptor are: `ReadS` replaces all of it, with no
descriptor (the rest of the struct is zero, line 115), `PreadRaw` fills one in
through the pointer. That it is updated in place is how bpftime's hash map hands out
values; a map that replaced the element would make the reads of a thread whose entry
was replaced use its own old values.

`FsyncLatency`. Line 31 is one load of the mean and one store, line 33 a load and a
store of the count: `Sample` has the first load, `StoreMean` the store and the next
load, `StoreCount` the last. The difference of the sample and the mean is signed and
`count + 1` is not, so the division is unsigned: `Step`. The width of a word is a
constant.

`TransferRing`, `EchoServer`. A `read`, `send` or `recv` moves one chunk: both ends
treat data as a stream, and a short read merely makes a smaller chunk. `pos`, `off`
count chunks. Any request may fail, a `recv` too. A submission of the older client
whose result it tests may be refused, which ends it with the request in the ring
(`Ask`). `SubSeq(...) \o <<c>> \o SubSeq(...)` in `Store` is what `write` does to a
file opened without `O_TRUNC`.

---

## 3. The runs

| run | configuration | checks | distinct states |
|---|---|---|---|
| `pread_daemon` | ring buffers of 2 and 1 records, 2 SQEs, 4 records of each kind | `TypeOK`, `BatchAccounted`, `IsReadQueue`, `WaitEnds` | 8 257 |
| `pread_probes` | two threads, of one process or of one each, 3 preads, an `fd_info_map` of one entry | `NeverOverReports`, `AllOrNothing` | 626 774 |
| `pread_pipeline` | one thread, two sizes, 3 preads, the daemon with 2 SQEs | `PerformedInOrder`, `NotTwice`, `PipeIsReadQueue` | 112 265 |
| `fsync` | both builds, batches 1 and 2, 3 and 4 SQEs | `EnoughCompletions`, `CreditsEarned`, `BatchReaped`, `Terminates` | 98 081 |
| `rings` | any caller: 4 slots, 2 packets; main: 10 packets, rings of 4 slots | `TypeOK`, `EachWrittenOnce`, `IsPacketQueue`, `Terminates` | 8 790 |
| `transfer` | 3 chunks, up to 4 old ones, sockets of 2; batches of 4 requests in 4 SQEs, the older client of 2 in 2 | `ReceivedInOrder`, `RoundTrip`, `BatchAccounted`, `AllSent`, `StoredInPlace`, `Terminates` | 458 607 |
| `transfer_content` | same, at most one old chunk | `FileContentSent` **violated** | |
| `ring_programs` | shims: 2 threads, `patch_size` 2 and 4, 3 SQEs, 6 calls, 4 once they overlap; readers: 5 chunks in batches of 2, rings of 3 and 1 | `NoWriteForgotten`, `NotCompleted`, `Counted`, `BatchesReaped`, `NeverSubmits`, `WaitEnds` | 63 565 |
| `patches` | 2 threads, batches of 2 in 2 SQEs, 4 operations, 3 once they overlap | `Settled`, `InCallOrder`, `NoStaleRequest`, `NeverOverReports`, `WaitEnds` | 635 066 |
| `patches_full` | the same, batches of 3 in 2 SQEs, 5 operations, 2 once they overlap | `EachOpOnce` | 387 015 |
| `counters` | 3 CPUs; 3 inodes (two share a key), waits for 0, 1, 2; 3 probes hit; a map for 2 of 3 threads, 3 samples | `TypeOK`, `NeverInvents`, `Balanced`, `NeverOvercounts`, `OwnFsync` | 150 260 |
| `fsync_latency` | 1 thread, 3 samples of up to 3 ticks | `AverageOfExits` **violated** | |

### What they show

*Daemon.* Whatever the probes output and whenever the user interrupts, until an
interrupt `batch_count` is exactly the number of SQEs prepared, or during the
wait the completions seen plus those to come (`BatchAccounted`). Hence the wait
ends (`WaitEnds`). The daemon refines `ReadQueue`: the pending reads are the rest
of the chain, then the prepared SQEs, then the records in the ring buffer; a read
leaves at the front, with those its failure cancels, or is dropped because the
submission ring is full.

*Probes.* A process with one thread has, between its probes, exactly what it handed
over in its total, although flag, counter and map are shared with every other process;
or it has no total at all, if the map was full when it came (`AllOrNothing`), as the
map never lets one go. Its `batchSubmit` then returns early, so that its reads are
submitted only with those of others and the flag stays up. Two threads of one process
lose updates, so only `NeverOverReports` remains for them.

*Pipeline.* With one client thread no read is done twice: it skips exactly what it
hands over, and nothing is performed or under way that it did not skip (`NotTwice`).
That is not "once": a read whose record the full ring buffer refuses (line 140) is
skipped all the same and done by nobody, and so is one that fails. The reads
performed are in call order, through both ring buffers, dropped records, failed
reads and interrupts. One thread is meant: with two, a `batchSubmit` between lines
112 and 115 makes both the daemon and the client read. `PipeIsReadQueue` bounds what
reached the daemon, and its `Perform` is loose in one respect: a failure may cancel
more than the rest of its batch. For any number of threads the whole path is the
queue of reads the daemon alone promises (`PipeIsReadQueue`).

*fsync.* No wait is for a completion that does not come, in either build and in
a ring that is too small. Credits are never spent twice, although the counter is
reset while old fsyncs still add to it. With `wait_kernel` a batch is meant to go on
before its completions are seen (lines 124-125), and nothing is claimed of it.

*Rings.* The ring is a queue of `size - 1` packets, with the queue's answers, and
the pipeline writes each packet processed, once and in order, because it waits
for each write before it touches the buffer again. What is written is meant: that
every write is at offset 0 of the file (line 119), one over the other, is left out.

*Transfers.* Client and server cannot deadlock, however little the sockets buffer,
because the server stores everything before it answers. The batches of
`uring_client.c` are counted right: it never gives up, the end of the stream is
signalled only when every chunk was sent or failed, and the answer is stored in
place. But what is sent is not always the file: read and send of a batch are neither
linked nor do they have buffers of their own. TLC's trace: both reads of a batch
finish before either send starts, so the second chunk is sent twice and the first
never, and the client logs "File content sent to server". The older client fails in
another way, which its actions show as well but no run asks about: a send is
submitted only together with the next read, after `memset` has cleared the buffer.
Its completions are nevertheless accounted for: one is taken for each request that
was not batched, so a batch always finds as many as it waits for.

*Shims.* Until two probes overlap, nothing that was reported done is dropped or left
behind (`NoWriteForgotten`), and between two probes at most `current_count` calls of
those reported done, and at most `patch_size`, have not completed (`NotCompleted`),
because the count is exactly what is outstanding (`Counted`); the waits end.
Completed is well or not, and says nothing of what is durable. For the write/fsync
shim this presumes that the ring has room for `patch_size + 1` requests, which the
code does not check; the pread shim submits each read at once, and `Counted`
presumes nothing for it. Once two probes overlap an increment is lost and the count
is below what is outstanding, or a flush waits by a count that another thread
resets.

*Readers.* `vanilla_uring_read.c` reaps each batch whole and ends.
`read_uring.c` runs out of SQEs before its batch is full, gives up, and so never
comes to the call whose first argument is wrong.

*Patches.* Until two probes of `backup.bpf.c` overlap, an operation is in one place
and once (`EachOpOnce`), through full rings, batches, flushes and cancelled chains;
the count is what is prepared and nothing else is outstanding between probes
(`Settled`), the flag links each operation to the next, so order is kept but for a
`recv`, which is not linked (`InCallOrder`), and each wait is for a batch that was
submitted. A look-up at line 143 that finds nothing, after another thread changed
the count, skips the reset: the next wait is then for a batch already seen. In
`batch.bpf.c` the threads of a process race on one entry that nobody clears: a read
may take its destination from one call and its descriptor from another, or no
descriptor, but never either from a call that was over when its own began
(`NoStaleRequest`, of all races). A wait that begins with less than a full batch
does not end, by the constant in its loop; the properties are about the others, and
about reads whose descriptor does not happen to have the number of the process
(`starved`, `collided`).

*Credits.* Races lose credits, and a late store brings spent ones back, so once
two probes have overlapped waits may be skipped that were not earned; but the
unsigned counter never wraps and never exceeds what was counted. Until then the
books balance.

*Counters.* Probes that race lose counts, and an old word, stored by an addition or by
the copy after it, brings back what the loader overwrote or undoes its store; but
`op_count` never exceeds the loader's value and the probes hit (`NeverOvercounts`). No
latency is measured from the start of an
fsync that is over: the entry is deleted by the thread that made it, and a full map
only loses samples (`OwnFsync`). But the mean of the latencies of fsync is none: line
60 assigns the step instead of adding it. TLC's trace has one thread and two fsyncs
of one tick each: the average printed is 0 (`AverageOfExits`).

### Bounds, and why they are enough

Ring buffers and submission rings are so small that each overflows within the bound
on records (`pread_daemon`: four records into room for two), so that every path with
a full ring is taken; larger ones only delay it. Three or four preads are two
batches and a dropped record. An `fd_info_map` of one entry is full for one of two
processes. Two threads suffice for each race of `PreadProbes`, which all are between
two accesses of one thread and one of another. Batches of one and two with four SQEs
are the smallest instance in which the ring is exactly full, as 512 pairs in 1024
entries are; with three, it fills up between a write and its fsync. Rings of four
slots make the indices of the pipeline wrap twice. A batch of four requests and a
file of three chunks give one full batch and one rest. Socket windows of two chunks
are less than the file, so that both sides block. Six calls of the shims are two
flushes, four operations of the patches two batches or a batch, a rest and a flush;
in `patches_full` the ring is smaller than a batch, so that operations find it full
and only a flush empties it. After an overlap three or four calls are left, enough
for one thread to complete a batch between any two accesses of the other. Three CPUs
give a store by one between the load and the store of two others. Words of five bits
are wide enough for every latency of the run and wrap in the division. What does not
depend on size is proved (section 5).

Deadlock is checked wherever the system does not stop by design; the
configurations with `CHECK_DEADLOCK FALSE` are of programs that end
or that wait for records that the bound has stopped.

---

## 4. Fairness

`WF_vars(Daemon)`, `WF_vars(Test)`, `WF_vars(Main)`, `WF_vars(Client)`,
`WF_vars(Server)`: one operating system thread each, which
the scheduler runs when it can go on; a blocking call is a disabled action.
`WF_vars(Io)`, `WF_vars(Kernel)`, `WF_vars(KernelWrites)`: io_uring finishes what
it has accepted; requests fail or succeed, and no fairness says which. A `recv`
with nothing to receive stays where it is, disabled.
In the shims and the patches the one formula
`WF(\E t : Run(t))`: some probe that was entered takes a step when one can. The
properties that need it are about times when at most one thread is in a probe, so
that this is fairness of that thread.

No fairness is assumed of the probes or the application (it need not make
another call), of SIGINT, of the receive timeout, nor of the end of a test's
time (a bound on the rounds stands for the clock). In particular
`WaitEnds` says nothing of the poll: the daemon does sleep for ever on one ring
buffer if no record comes to it, as the code has it.

---

## 5. What is proved

All theorems hold for every value of the constants that satisfies the `ASSUME`s of
the module. Most say only that capacities and sizes are positive and sets are of the
right kind. Two say more: `PipelineAssumption` that the rings of main have two slots
(64 in the code), since a ring of one never takes a packet; `DepthAssumption` that a
batch of `uring_client.c`, of as many reads as sends, fits its ring (256 in 512) and
that the ring of the older client takes two requests (4096).

| theorem | module | states |
|---|---|---|
| `Types`, `BatchAccountedAlways` | `PreadPipelineProofs` | `Spec => []TypeOK`, `Spec => []BatchAccounted`: the daemon with any probes |
| `DaemonIsReadQueue` | `PreadPipelineProofs` | `Spec => IsReadQueue`: it implements `ReadQueue` |
| `PipelineAccounted` | `PreadPipelineProofs` | `PipelineSpec => []BatchAccounted`: the same behind the real probes |
| `PipelineIsReadQueue` | `PreadPipelineProofs` | `PipelineSpec => PipeIsReadQueue`, any number of threads |
| `OneThreadInOrder`, `OneThreadNotTwice` | `PreadPipelineProofs` | `OneThread => (PipelineSpec => ...)`: `[]PerformedInOrder`, `[]NotTwice` |
| `AsBuiltInert` | `PreadProbesProofs` | `Verdicts = {0} => (Spec => []Inert)`: what is built never overrides a read, and no record, total or answer ever appears |
| `OneThreadTotals`, `NeverTooMuch`, `ProbeTypes` | `PreadProbesProofs` | `Spec =>` `[]AllOrNothing`, `[]NeverOverReports`, `[]TypeOK`, for every verdict |
| `Types`, `NoWaitForNothing`, `NoUnearnedCredit`, `WholeBatchReaped` | `FsyncPocProofs` | `TypeOK`, `EnoughCompletions`, `CreditsEarned`, `BatchReaped` |
| `RingTypes`, `RingIsPacketQueue`, `RingInRings` | `RingsProofs` | the ring implements `PacketQueue`, alone and in `RingsSpec` |
| `PipelineWrites` | `RingsProofs` | `RingsSpec => []EachWrittenOnce` |
| `StoresABeginning`, `ComesBackWhole` | `TransferProofs` | `ReceivedInOrder`, `RoundTrip` of `client.c` |
| `BatchesAreCounted` | `TransferProofs` | `BatchAccounted` of both io_uring clients, until a submission of the older one is refused |
| `NoneLeftBehind`, `WrittenWhereItBelongs` | `TransferProofs` | `AllSent`, `StoredInPlace` of `uring_client.c` |
| `NothingForgotten`, `CountIsOutstanding`, `UncompletedIsCounted` | `RingProgramsProofs` | `ProgramsSpec =>` `[]NoWriteForgotten`, `[]Counted`, `[]NotCompleted` |
| `AllBatchesReaped`, `WrongCallUnreached` | `RingProgramsProofs` | `ProgramsSpec =>` `[]BatchesReaped`, `[]NeverSubmits` |
| `NoneTwiceNoneGone`, `CountIsPrepared`, `PerformedAsCalled` | `PatchesProofs` | `PatchesSpec =>` `[]EachOpOnce`, `[]Settled`, `[]InCallOrder` |
| `RequestsAreCurrent`, `TotalToldOnce` | `PatchesProofs` | `PatchesSpec =>` `[]NoStaleRequest`, `[]NeverOverReports` |
| `Types`, `NoInventedCredit`, `BalancedUntilOverlap`, `CreditsInCounters` | `CountersProofs` | `TypeOK`, `NeverInvents`, `Balanced`, alone and in `CountersSpec` |
| `CountNeverTooHigh`, `NoStraySample` | `CountersProofs` | `CountersSpec =>` `[]NeverOvercounts`, `[]OwnFsync` |

Together they state every safety invariant and each refinement that the passing runs
check, of the specification that is run.

*Daemon.* `BatchAccounted` is not inductive: that `batchCount = waited + cq +
InKernel` is kept by the kernel's steps needs at most one chain in the kernel, and
none while records are prepared (`OneChain`); that `WaitDone` may take a record off
the submit ring needs one to be there (`RecordHeld`). `DaemonInv` is the conjunction
with the types; one lemma for each group of actions shows that it is preserved, and
for `FailRead` that a chain of n reads turns into n completions. These lemmas are
about records of any set, so that both specifications of the daemon use them: with
any probes a record is a number, behind the real ones it has a pid, a number and a
size.

*Daemon as a queue.* With `DaemonInv` in hand, each step is a step of `ReadQueue` or
leaves its variables alone: output appends, a full submission ring drops the
element behind the SQEs, submission moves the SQEs into the chain and leaves the
concatenation as it is, a completed read takes the first element, a failed one the
first `Len(chain)`. The lemmas at the head of the module are about sequences.

*Pipeline as a queue.* A record of the probes must be one the queue is of, whose
number has a bound. That is where threads race: `global_seq++` is a load and a
store. `Numbered` counts those that are past the test of the flag and have not
stored yet: the word, and whatever a thread has loaded, is at most the preads made
less those threads. This needs no restriction on how they interleave.

*Pipeline with one thread.* `OneThread` says that `Threads` has at most one member,
as in the run; with two the properties fail (section 3). Seen from outside, each
step appends a record to the reads performed or under way (`UnderWay`), leaves them
alone, or cuts some out (`Thinned`), and cutting changes neither order nor bounds
for the worse. `OrderInv` therefore has to follow only the thread: numbers rise
along `UnderWay` and are all below the one the thread is about to output or to
store. `OnceInv` follows the bytes: those in `UnderWay` are at most what was handed
over, and what was skipped is what was handed over and the read the thread was told
to skip but has not output yet (`Owed`). The bytes of a sequence of reads are
counted as a set, so that no sum over the sequence, and hence no induction, is
needed.

*Probes as built.* `InertInv`: the flag is down, nobody is past the first test,
and nothing was output. Every action that could change that starts from the flag.

*Probes with any verdict.* `TotalInv`: at each place of the only thread of a
process, what it handed over is the total, plus the size in its hands between the
output and the last store, unless the process has no entry and the map is full
(`Refused`), which stays so as the map never loses one; before that store the loaded
total is still the total, before an insertion there is none. `OwnOnly` says that a
step of another process's thread touches nothing of this, `OwnTotal` that each step
of its own keeps it. For the types, a record gets a size of the client's because
none is output before `preadRaw` has read one (`Sized`).

*Probes with racing threads.* That lost updates never make a total too large is not
inductive either: a store may follow a load that is long stale. `Fits` says of a
process that its total, plus the bytes still in the hands of all its threads, is at
most what was handed over; `LoadFits` says the same of every total that was loaded
and not yet stored. The bytes in hand are a set of pairs of a thread and a byte, and
what the threads hold adds up as its cardinality.

*fsync.* `IInv` adds to `EnoughCompletions` what holds while a batch is prepared
(`PairsPrepared`: two requests for each one counted) and how the
counter relates to fsyncs (`Earnings`: what is in the counter, what was spent and
what may still be earned was issued). `WholeBatchReaped` needs the additional
invariant `WholeBatch` and, as a premise, room for the largest batch and the
default build (`RoomForBatch`).

*Ring.* The type invariant suffices; the work is arithmetic. `WrapOnce` says that
an index below twice the size wraps at most once, `Layout` where the packets lie,
`ContentsIsSeq` that the refinement mapping yields a sequence, and the two
lemmas `EnqueueIsPut` and `DequeueIsTake` compare it slot by slot before and after.

*Ring pipeline.* `OnePacket`: at most one packet is in the rings, it is the one in the
buffer, and the buffer is not touched until the kernel has written it. `InOrder`: the
packets written or failed are those before the present one, the written ones in order.

*Transfers.* `TInv` has a part for each client. For `client.c`, `Storing` and
`Returning` say of each chunk of the stream where it is: stored, in a socket or not
yet sent, which makes what is stored a beginning of the file wherever the client
stops. For `uring_client.c` the requests of a batch must be known to be different,
for only then do the requests in ring and kernel, the completions and those reaped
add up to the batch count; they are different because each chunk has an offset of
its own. The sends outstanding, performed and failed add up to the chunks handed
over, whatever order the kernel takes. That a batch never overfills the ring needs
its parity: requests come in pairs. While the answer is received there is one
request at a time, and the buffer holds what is being written. For the older client
`CopyInv` counts one request more than the batch while an answer is awaited: that is
the completion it takes for another's; once a submission is refused nothing is said
any more.

*Shims.* A call is forgotten if `Put` finds no room. `RoomAt` says for each place of
a probe how full the ring can be in terms of the count: as long as one thread at a
time is in a probe (`Alone`), there are at most as many SQEs as the count says, give
or take the one being counted, and the count passes `patch_size` only on the way to
a flush. `Kept` carries the call from the helper to its acknowledgement,
`WhereGrows` says that nothing leaves ring, kernel and history.

`CountIsOutstanding` and `UncompletedIsCounted` need equalities where `RoomAt` has
bounds: `ExactAt` says at each place of a probe how much is prepared, in flight or
completed, against the count, and that the kernel is idle unless the probe waits.
Submitting keeps the amount because the numbers in the ring are distinct
(`Distinct`, which holds as a number is put in when it is the newest): so there are
as many requests as SQEs. The steps of the kernel and of the waits then are
arithmetic on cardinalities, with the theorems of `FiniteSetTheorems`. The premise
that the ring takes a batch stays for the write/fsync shim; the pread shim, which
submits its one read in the same probe, has the same argument with `ReadAt` in place
of `ExactAt` and needs no more than one SQE. `ProgramsInv` puts the programs
together.

*Readers.* `Vanilla` counts what is prepared, submitted, completed and reaped
against the batch at each place of the loop, given a ring that takes a batch.
`NeverFull` says of `read_uring.c` that `batched` is at most what its ring holds,
which never is a batch.

*Patches.* The places of `EachOpOnce` are sets of numbers; that one leaves the place
it was in needs that no number is twice in the submission ring or twice in the
kernel (`OnceInSq`, `OnceInKernel`). The theorem says nothing of the count, whose
four accesses fall under one lemma with every wait, `Untouched`. The invariant is
kept by the steps of `HelperRing` even between threads; as these are not single
steps there in the program, the property and the theorem claim it only until two
probes overlap. `CountIsPrepared` does follow the count, place by place (`EntryAt`),
through the two loads and stores and the batch. What makes it hold is the entry of
`bpftime_inode_map` found after the waits, without which the count of a full batch
would stay: it was filed under the same count, which nobody changed since. Here no
room is presumed, as an operation that finds the ring full is not counted.

`InCallOrder` rests on `CountIsPrepared`. What is prepared comes last of all calls
and in line (`InLine`), each linked to the next unless it is a `recv`
(`UnlinkedRecv`); so between requests of different chains there is a `recv`
(`KernelOrder`), between one still in the kernel and a later one performed as well
(`DoneOrder`), and hence between two performed the wrong way round (`Overtakes`).
`SameChain` is the lemma on links.

`NoStaleRequest` is about any races. `Current` says of each thread in a read that
the destination in the entry, and later the descriptor, is of one of the reads in
its `with`: a store by another thread is of a read under way at that moment, and two
threads that are both in a read have each other's in their sets (`Met`).

In `batch.bpf.c`, until probes overlap, the one map entry is that of the thread
whose probe runs (`Placed`). Nothing resets a total that was told; but one that a
submission may tell of was not told before, because `main_entry` has emptied the
ring since, so that the next submission finds too few requests unless a read has
come and replaced the total (`Untold`). That needs waits that began with a full
batch, and no descriptor that is taken for the pid.

*Credits.* `Bounded`: what a probe has loaded is at most what had been counted,
and a waiter needs no more than it loaded. The history only grows, so a stale
store is within the bounds. `Fresh` says that until two probes overlap at most one
is under way and what it loaded is what the counter still holds; on one CPU that
is always so.

*Counter and latency.* `NoneTooHigh`: `op_count` and every word a probe holds are at
most the hits and the loader's value, and a word that is still to be incremented is
below it, since its own hit has been counted. So a store of whatever age keeps the
bound, and no guard on the races is needed. A latency is of an fsync under way
because a thread is in `start_map` only while it is in fsync (`KnownInside`).

---

## 6. What is only model-checked, and what is not modelled

Only checked: the liveness properties (`WaitEnds`, `Terminates`), as the prover
handles neither fairness with `ENABLED` nor leads-to arguments about it, and the two
that a run refutes. What recursively defined operators compute cannot be proved by
induction with the installed provers; the modules that are proved about use none,
and count with cardinalities of sets what would otherwise be a sum.

Assumed throughout: `io_uring_submit` succeeds where its result is ignored
(`FsyncPoc` and `UringClientCopy`, which test it, have the failure as an action);
the helpers of the ring are not interrupted by another thread's (section 2), which is
why the shims and patches are only claimed to be right until two probes overlap;
bpftime's map of `batch.bpf.c` is updated in place; memory allocation,
opening files, connecting and attaching probes happened before the first state;
the completion queue does not overflow; a request completes exactly once.

Not modelled, with the reason: see the components of `PROJECT.json` that are
`not_modelled`. In particular `iouring_hotpatch/rocksdb.bpf.c` is not a program (it
defines `send` twice and is not built), loaders are straight-line set-up, the uprobe
tracer prints a duration and keeps nothing, and the programs to be traced are
replaced by "any caller". All but two in a hundred lines of the repository are three
copies of the generated header `vmlinux.h` (336 822 lines of kernel types), which
hold no behaviour; the share of all lines that can be modelled is small for that
reason. Large parts of `clickhouse-uring.bpf.c`, `tp.bpf.c`, `clickhouse-uring.c`
and `test.bpf.c` are commented out or never called. Within modelled parts: where a
client's read goes (`dest`, `offset`) but for `batch.bpf.c`, what a buffer holds
after `write` was reported done, what is durable when, and crashes as steps; the
hazards in `PROJECT.json` say which line each of these is about.

---

## 7. The order of work

Done, in this order, the most important behaviour first: `PreadRings`,
`PreadDaemon` and its theorems; `PreadProbes`; `ReadQueue` and the refinement;
`PreadPipeline`; `FsyncPoc`; `SimpleRing` and `PacketQueue`; `RingPipeline`;
`EchoServer` with the three clients in `Transfer`; `UringShim`; `WritebackCredits`;
then `HelperRing` with `HotPatch`, `BatchPread`, `UringShim` for several threads,
`PreadShim` and `PlainReader`; `OpCounter` and `FsyncLatency`; the compositions; the
theorems about `UringShim` and `HotPatch`; the theorems about the compositions, until
each safety property of the runs had one.

What would be worth proving next:

1. `PreadPipeline` implements `PreadDaemonEnv` for as many records as there were preads,
   which would make the queue of the one a consequence of that of the other.
2. `OneThreadInOrder` and `OneThreadNotTwice` for several threads that serialise their calls.
3. An abstract specification of a batch (prepare some, wait for all) that `UringShim`,
   `HotPatch`, `PlainReader` and `UringClient` all implement.
