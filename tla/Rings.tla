------------------------------- MODULE Rings -------------------------------
(***************************************************************************)
(* The two users of a simple_ring: any caller at all (SimpleRingUse), or   *)
(* main with its two rings (RingPipeline).  Which of them runs is the      *)
(* variable user, chosen for good in the initial state; the variables of   *)
(* the other keep their initial values.                                    *)
(***************************************************************************)
EXTENDS SimpleRingUse

CONSTANTS PipelineSize,     \* RING_SIZE in main
          PipelinePackets,  \* packets main sends
          PipelineEntries   \* entries of ring1

ASSUME PipelineAssumption ==
    /\ PipelineSize \in Nat \ {0, 1} /\ PipelinePackets \in Nat
    /\ PipelineEntries \in Nat \ {0}

VARIABLES user,
          pc, i, pkt, ring3, ring4, sq, inflight, cq, written, failed

Pipeline == INSTANCE RingPipeline WITH
    Size <- PipelineSize, Packets <- PipelinePackets, Entries <- PipelineEntries

main    == <<pc, i, pkt, ring3, ring4, sq, inflight, cq, written, failed>>
allVars == <<user, vars, main>>

RingsInit == Init /\ Pipeline!Init /\ user \in {"any", "main"}

AnyCall == user = "any" /\ Next /\ UNCHANGED <<user, main>>
Main    == user = "main" /\ Pipeline!Main /\ UNCHANGED <<user, vars>>
Writes  == user = "main" /\ Pipeline!KernelWrites /\ UNCHANGED <<user, vars>>

RingsNext == AnyCall \/ Main \/ Writes

\* main runs on and the kernel gets to every write; a caller need not call.
RingsSpec == RingsInit /\ [][RingsNext]_allVars
                       /\ WF_allVars(Main) /\ WF_allVars(Writes)

-----------------------------------------------------------------------------
\* four_ring_pipeline.c, main: although one buffer serves the packet being
\* received, processed and written, every packet is written once, processed,
\* in order, unless its own write failed.
EachWrittenOnce == Pipeline!EachWrittenOnce

\* main ends: no wait at line 121 is for a completion that does not come.
Terminates == user = "main" => <>(pc = "done")
=============================================================================
