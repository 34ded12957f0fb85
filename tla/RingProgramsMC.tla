--------------------------- MODULE RingProgramsMC ---------------------------
(***************************************************************************)
(* The programs for TLC: two threads, batches of two or three operations,  *)
(* two batches and more; a file of five chunks in batches of two.          *)
(***************************************************************************)
EXTENDS RingPrograms

Depths == [vanilla |-> 3, read |-> 1]
=============================================================================
