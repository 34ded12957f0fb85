-------------------------- MODULE PreadPipelineMC --------------------------
(***************************************************************************)
(* One client thread, for TLC: three preads through rings of two and one   *)
(* records and an io_uring of two entries.                                 *)
(***************************************************************************)
EXTENDS PreadPipeline

CONSTANTS t1, p1

OneProcess == {[t \in Threads |-> p1]}
=============================================================================
