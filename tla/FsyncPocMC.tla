----------------------------- MODULE FsyncPocMC -----------------------------
(***************************************************************************)
(* The test for TLC: batches of one and two, with a ring of four entries,  *)
(* just enough for them, and one of three, which the second batch fills    *)
(* between a write and its fsync; with either way of waiting.              *)
(***************************************************************************)
EXTENDS FsyncPoc

CONSTANTS self, other

Build(w, n) == [waitKernel |-> w, entries |-> n]

AllBuilds == {Build(0, 4), Build(0, 3), Build(1, 4), Build(1, 3)}
=============================================================================
