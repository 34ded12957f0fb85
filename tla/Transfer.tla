------------------------------ MODULE Transfer ------------------------------
(***************************************************************************)
(* A transfer of iouring_hotpatch: the server of server.c with one of the  *)
(* three clients, client.c (Blocking), uring_client.c (Uring) or           *)
(* "uring_client copy.c" (Copy).  Which of them was started is the         *)
(* variable program, chosen for good in the initial state; the variables   *)
(* only the others use keep their initial values.                          *)
(***************************************************************************)
EXTENDS TransferRing

CONSTANTS CopyEntries,  \* QUEUE_DEPTH and BATCH_SIZE of the older client,
          CopyBatchSize \* which has its own

ASSUME CopyAssumption ==
    CopyEntries \in Nat \ {0} /\ CopyBatchSize \in Nat \ {0}

\* A batch, of as many reads as sends, fits the ring, and so do two requests
\* of the older client: 256 in 512, and 512 in 4096.
ASSUME DepthAssumption ==
    BatchSize + (BatchSize % 2) <= Entries /\ CopyEntries > 1

VARIABLES program,
          cpc,
          off,          \* the offset in the file the client is at
          cause,        \* of Blocking
          batchCount, reaped,   \* of Uring and Copy
          received,     \* of Uring
          phase, rest   \* of Copy

app  == <<cpc, off, cause, batchCount, reaped, received, phase, rest>>
vars == <<program, app, ring>>

Blocking == INSTANCE BlockingClient
Uring    == INSTANCE UringClient
Copy     == INSTANCE UringClientCopy
                WITH Entries <- CopyEntries, BatchSize <- CopyBatchSize

Programs == {"blocking", "uring", "copy"}

Init ==
    /\ RingInit
    /\ program \in Programs
    /\ cpc = IF program = "copy" THEN "ask" ELSE "read"
    /\ off = 0 /\ cause = "none"
    /\ batchCount = 0 /\ reaped = 0 /\ received = 0
    /\ phase = "send" /\ rest = 0

-----------------------------------------------------------------------------
onlyUring == <<batchCount, reaped, received, phase, rest, uring, history>>

BlockingRuns == program = "blocking" /\ Blocking!ClientRuns /\ UNCHANGED onlyUring
UringRuns    == program = "uring" /\ Uring!Client /\ UNCHANGED <<cause, phase, rest>>
CopyRuns     == program = "copy" /\ Copy!Client /\ UNCHANGED <<cause, received>>

Client == (BlockingRuns \/ UringRuns \/ CopyRuns) /\ UNCHANGED program

Timeout == /\ program = "blocking" /\ Blocking!RecvTimeout
           /\ UNCHANGED <<program, onlyUring>>

Io == Kernel /\ UNCHANGED <<program, app>>

Server == ServerStep /\ UNCHANGED <<program, app, uring, buf, recvFile, history>>

Next == Client \/ Timeout \/ Io \/ Server

\* Both processes are scheduled and the kernel works on; the timeout need never
\* happen.
Spec == Init /\ [][Next]_vars
             /\ WF_vars(Client) /\ WF_vars(Io) /\ WF_vars(Server)

-----------------------------------------------------------------------------
\* client.c: whenever it stops, recv.txt holds a beginning of response.txt as
\* the server sent it, and of temp.txt as far as that goes: a timeout, a failed
\* write or a full socket truncates but never reorders or repeats.
ReceivedInOrder == program = "blocking" => Blocking!ReceivedInOrder

\* client.c: if it stops because the server has closed and the server had its
\* file, the whole of temp.txt has made the round trip.
RoundTrip == program = "blocking" => Blocking!RoundTrip

\* uring_client.c and its copy: what the ring holds for the client is always
\* exactly what its batch counts, so each wait is for its own batch and all of
\* it: there is a completion for each io_uring_peek_cqe and an SQE for each
\* request, so neither client gives up for want of one.  The copy takes
\* completions for answers to other requests, and yet none is left over or
\* waited for in vain, unless a submission of it is refused.
BatchAccounted ==
    /\ cpc # "failed"
    /\ program = "uring" => Uring!BatchAccounted
    /\ program = "copy" => Copy!BatchAccounted

\* uring_client.c: whatever the order of the requests, the end of the stream is
\* signalled only after a chunk was sent, or failed to be, for each chunk of the
\* file.
AllSent ==
    program = "uring" /\ shut = 1 => Len(sent) + lost = Blocks

\* uring_client.c: the answer is stored where it belongs, failed writes leaving
\* holes, although the buffer is shared: a chunk is on disk before the next is
\* received.
StoredInPlace ==
    program = "uring" => \A k \in DOMAIN recvFile :
        recvFile[k] # Hole => k <= Len(arrived) /\ recvFile[k] = arrived[k]

\* No client and server ever wait for each other: the client ends, however
\* little the sockets buffer and whether or not the timeout happens.
Terminates == <>(cpc \in {"exit", "failed", "refused"})

\* "File content sent to server" (uring_client.c:166): unless a request has
\* failed, what was sent is the content of the file.
FileContentSent ==
    program = "uring" /\ shut = 1 /\ unread = 0 /\ lost = 0 => sent = File
=============================================================================
