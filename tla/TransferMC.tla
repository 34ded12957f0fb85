----------------------------- MODULE TransferMC -----------------------------
(***************************************************************************)
(* The three transfers for TLC: a file of three chunks, sockets that hold  *)
(* two, a response.txt that is missing, shorter or longer than the file.   *)
(* The io_uring client sends four requests to a batch and the older one    *)
(* two, each through a ring that a full batch just fits, so that one batch *)
(* is full and one is the rest.                                            *)
(***************************************************************************)
EXTENDS Transfer
=============================================================================
