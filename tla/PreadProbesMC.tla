---------------------------- MODULE PreadProbesMC ---------------------------
(***************************************************************************)
(* The probes for TLC: two threads, of one process or of one each.         *)
(***************************************************************************)
EXTENDS PreadProbesEnv

CONSTANTS t1, t2, p1, p2

OneOrTwo == {[t \in Threads |-> p1],
             [t \in Threads |-> IF t = t1 THEN p1 ELSE p2]}
=============================================================================
