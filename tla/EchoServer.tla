----------------------------- MODULE EchoServer -----------------------------
(***************************************************************************)
(* iouring_hotpatch/server.c: accepts one connection, stores what it       *)
(* receives in response.txt until the client stops sending, then sends     *)
(* response.txt back and closes.  The file is opened without O_CREAT and   *)
(* without O_TRUNC: it may not be there, and what it held before and was   *)
(* not overwritten is sent too.                                            *)
(*                                                                         *)
(* Files, streams and buffers hold chunks; how TCP cuts a stream into      *)
(* reads does not matter to the server, so one call moves one chunk.       *)
(***************************************************************************)
EXTENDS Integers, Sequences

CONSTANTS Blocks,       \* chunks of the client's file
          MaxOld,       \* bound: chunks response.txt may hold already
          Window        \* chunks a socket buffers in each direction

ASSUME TransferAssumption ==
    Blocks \in Nat /\ MaxOld \in Nat /\ Window \in Nat \ {0}

Stale == 0              \* a chunk that is not of the client's file
Chunks == 0..Blocks     \* the k-th chunk of the file is k
File == [k \in 1..Blocks |-> k]

VARIABLES spc,
          present,      \* response.txt is there
          response,     \* its content
          pos,          \* the offset of the descriptor
          c2s, s2c,     \* the two directions of the connection
          shut,         \* 1: the client has shut its side down
          gone,         \* 1: the client has closed the connection
          closed        \* 1: the server has

server == <<spc, present, response, pos>>
sock   == <<c2s, s2c, shut, gone, closed>>

ServerInit ==
    /\ spc = "read" /\ present \in {0, 1} /\ pos = 0
    /\ \E n \in 0..MaxOld * present : response = [k \in 1..n |-> Stale]
    /\ c2s = <<>> /\ s2c = <<>> /\ shut = 0 /\ gone = 0 /\ closed = 0

\* Mutant: the file is truncated at every write.
StoreTruncates ==
    /\ spc = "read" /\ c2s # <<>>
    /\ response' = IF present = 1 THEN <<Head(c2s)>> ELSE response
    /\ pos' = pos + 1
    /\ c2s' = Tail(c2s)
    /\ UNCHANGED <<spc, present, s2c, shut, gone, closed>>

\* read a chunk and write it; the write fails, unnoticed, without a file.
Store ==
    /\ spc = "read" /\ c2s # <<>>
    /\ response' = IF present = 0 THEN response
                   ELSE SubSeq(response, 1, pos) \o <<Head(c2s)>>
                        \o SubSeq(response, pos + 2, Len(response))
    /\ pos' = pos + 1
    /\ c2s' = Tail(c2s)
    /\ UNCHANGED <<spc, present, s2c, shut, gone, closed>>

\* Mutant: the file is read back from where it was written.
StreamEndsNoRewind ==
    /\ spc = "read" /\ c2s = <<>> /\ shut = 1
    /\ spc' = IF present = 1 THEN "send" ELSE "exit"
    /\ closed' = IF present = 1 THEN 0 ELSE 1
    /\ UNCHANGED <<present, response, pos, c2s, s2c, shut, gone>>

\* The client has stopped: reopen the file, or fail and exit.
StreamEnds ==
    /\ spc = "read" /\ c2s = <<>> /\ shut = 1
    /\ spc' = IF present = 1 THEN "send" ELSE "exit"
    /\ closed' = IF present = 1 THEN 0 ELSE 1
    /\ pos' = 0
    /\ UNCHANGED <<present, response, c2s, s2c, shut, gone>>

SendBack ==
    /\ spc = "send" /\ pos < Len(response) /\ gone = 0 /\ Len(s2c) < Window
    /\ s2c' = Append(s2c, response[pos + 1])
    /\ pos' = pos + 1
    /\ UNCHANGED <<spc, present, response, c2s, shut, gone, closed>>

\* SIGPIPE: nobody is left to send to.
SendBroken ==
    /\ spc = "send" /\ pos < Len(response) /\ gone = 1
    /\ spc' = "exit" /\ closed' = 1
    /\ UNCHANGED <<present, response, pos, c2s, s2c, shut, gone>>

CloseAll ==
    /\ spc = "send" /\ pos = Len(response)
    /\ spc' = "exit" /\ closed' = 1
    /\ UNCHANGED <<present, response, pos, c2s, s2c, shut, gone>>

ServerStep == Store \/ StreamEnds \/ SendBack \/ SendBroken \/ CloseAll
=============================================================================
