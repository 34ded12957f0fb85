--------------------------- MODULE BlockingClient ---------------------------
(***************************************************************************)
(* iouring_hotpatch/client.c, the blocking client: it sends temp.txt chunk *)
(* by chunk, shuts its side of the connection down and stores what comes   *)
(* back in recv.txt.  Its files open, and nothing is modelled of a client  *)
(* that cannot connect.                                                    *)
(***************************************************************************)
EXTENDS EchoServer

VARIABLES cpc,
          off,          \* the offset in temp.txt
          buf,          \* buf
          recvFile,     \* recv.txt
          cause         \* why the client stopped: "eof", "timeout", "write"

ReadFile ==
    /\ cpc = "read" /\ off < Blocks
    /\ cpc' = "send"
    /\ buf' = File[off + 1]
    /\ off' = off + 1
    /\ UNCHANGED <<recvFile, cause, server, sock>>

Send ==
    /\ cpc = "send" /\ Len(c2s) < Window
    /\ cpc' = "read"
    /\ c2s' = Append(c2s, buf)
    /\ UNCHANGED <<off, buf, recvFile, cause, server, s2c, shut, gone, closed>>

\* Mutant: the end of the data is not signalled.
FileEndsSilently ==
    /\ cpc = "read" /\ off = Blocks
    /\ cpc' = "recv"
    /\ UNCHANGED <<off, buf, recvFile, cause, server, sock>>

\* End of file: shutdown(SHUT_WR), open recv.txt.
FileEnds ==
    /\ cpc = "read" /\ off = Blocks
    /\ cpc' = "recv" /\ shut' = 1
    /\ UNCHANGED <<off, buf, recvFile, cause, server, c2s, s2c, gone, closed>>

\* recv, then write.  A short write ends the program.
Recv ==
    /\ cpc = "recv" /\ s2c # <<>>
    /\ buf' = Head(s2c)
    /\ s2c' = Tail(s2c)
    /\ \/ cpc' = "recv" /\ recvFile' = Append(recvFile, buf') /\ UNCHANGED cause
       \/ cpc' = "exit" /\ cause' = "write" /\ UNCHANGED recvFile
    /\ gone' = IF cpc' = "exit" THEN 1 ELSE 0
    /\ UNCHANGED <<off, server, c2s, shut, closed>>

\* recv returns 0 when the server has closed ...
RecvEof ==
    /\ cpc = "recv" /\ s2c = <<>> /\ closed = 1
    /\ cpc' = "exit" /\ cause' = "eof" /\ gone' = 1
    /\ UNCHANGED <<off, buf, recvFile, server, c2s, s2c, shut, closed>>

\* ... and -1 when nothing has come for the five seconds of SO_RCVTIMEO.
RecvTimeout ==
    /\ cpc = "recv" /\ s2c = <<>> /\ closed = 0
    /\ cpc' = "exit" /\ cause' = "timeout" /\ gone' = 1
    /\ UNCHANGED <<off, buf, recvFile, server, c2s, s2c, shut, closed>>

\* All that needs no waiting for time to pass.
ClientRuns == ReadFile \/ Send \/ FileEnds \/ Recv \/ RecvEof

-----------------------------------------------------------------------------
IsPrefixOf(s, t) == Len(s) <= Len(t) /\ SubSeq(t, 1, Len(s)) = s

\* What is stored is a beginning of what the server has, and of temp.txt.
ReceivedInOrder ==
    /\ IsPrefixOf(recvFile, response)
    /\ \A k \in DOMAIN recvFile : k <= Blocks => recvFile[k] = k

\* The end of the stream comes after the whole of temp.txt, if the server could
\* store it.
RoundTrip ==
    cpc = "exit" /\ cause = "eof" /\ present = 1 => IsPrefixOf(File, recvFile)
=============================================================================
