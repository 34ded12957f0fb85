----------------------------- MODULE CountersMC -----------------------------
(***************************************************************************)
(* The counters for TLC, on three CPUs: three inodes, two of which have    *)
(* the same low 32 bits, and waits for no request, one or two; words of    *)
(* five bits, and a map with room for two of three threads.                *)
(***************************************************************************)
EXTENDS Counters, TLC

\* Inodes 1 and 2^32 + 1, here 3, share a key.
Low(i) == IF i = 3 THEN 1 ELSE i

Symmetry == Permutations(Cpus)
=============================================================================
