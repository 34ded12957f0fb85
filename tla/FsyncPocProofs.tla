--------------------------- MODULE FsyncPocProofs ---------------------------
(***************************************************************************)
(* What holds of FsyncPoc for every ring, number of tests and process: the *)
(* types, no wait for a completion that will not come, no credit spent     *)
(* that no fsync earned, and, without wait_kernel and with a ring that     *)
(* fits the largest batch, a wait that ends with the whole batch.          *)
(***************************************************************************)
EXTENDS FsyncPoc, TLAPS

\* A test runs for one of the values main's loop variable takes.
InLoop == pc \notin {"main", "done"} => loop < Loops

\* While a batch is prepared, each pair counted has its two SQEs.
PairsPrepared ==
    pc \in {"prepWrite", "prepFsync", "submit"} =>
        /\ waited = 0
        /\ syncCount <= sqFsyncs
        /\ syncCount <= sqWrites
        /\ pc = "prepFsync" => syncCount + 1 <= sqWrites

\* The credits left and spent, and those the fsyncs under way may still earn,
\* come from fsyncs that were submitted.
Earnings ==
    /\ counter + spent + fsyncs + orphans <= issued
    /\ pc = "spend" => counter > 0

IInv == TypeOK /\ InLoop /\ EnoughCompletions /\ PairsPrepared /\ Earnings

\* What the steps below need to know of the constants and of the build.
LEMMA Sizes ==
    /\ Loops \in Nat /\ MaxRounds \in Nat \ {0}
    /\ \A k \in 0..Loops : BatchSize(k) \in Nat \ {0}
    /\ TypeOK => Entries \in Nat \ {0}
    /\ build' = build => Entries' = Entries
  BY FsyncAssumption DEF TypeOK, Entries

\* The initial state satisfies the invariant.
LEMMA InitIInv == Init => IInv
  BY Sizes, FsyncAssumption
  DEF Init, IInv, TypeOK, PC, InLoop, EnoughCompletions, Waiting, PairsPrepared,
      Earnings, Entries

\* Every step of the program keeps it.
LEMMA TestIInv == IInv /\ Test => IInv'
<1> SUFFICES ASSUME IInv, Test PROVE IInv'
  OBVIOUS
<1>a. /\ Loops \in Nat /\ MaxRounds \in Nat \ {0} /\ Entries \in Nat \ {0}
      /\ \A k \in 0..Loops : BatchSize(k) \in Nat \ {0}
      /\ build' = build /\ Entries' = Entries
  BY Sizes DEF IInv, Test, Kernel, World, Terminated, vars
<1> USE <1>a DEF IInv, TypeOK, PC, InLoop, EnoughCompletions,
      Waiting, Outstanding, PairsPrepared, Earnings, app, sqes, kernel
<1>1. CASE StartTest
  BY <1>1 DEF StartTest
<1>2. CASE TestFails
  BY <1>2 DEF TestFails
<1>3. CASE Finish
  BY <1>3 DEF Finish
<1>4. CASE PrepWrite
  BY <1>4 DEF PrepWrite, Full
<1>5. CASE PrepFsync
  BY <1>5 DEF PrepFsync, Full
<1>6. CASE PrepOver
  BY <1>6 DEF PrepOver
<1>7. CASE Submit
  BY <1>7 DEF Submit
<1>8. CASE SubmitFails
  BY <1>8 DEF SubmitFails
<1>9. CASE ReapAll
  BY <1>9 DEF ReapAll, WaitCqe
<1>10. CASE Decide
  BY <1>10 DEF Decide
<1>11. CASE Spend
  BY <1>11 DEF Spend
<1>12. CASE ReapPair
  BY <1>12 DEF ReapPair, WaitCqe
<1>13. CASE WaitOver
  BY <1>13 DEF WaitOver
<1>14. CASE NextRound
  BY <1>14 DEF NextRound
<1>15. CASE TestOver
  BY <1>15 DEF TestOver
<1> QED
  BY <1>1, <1>2, <1>3, <1>4, <1>5, <1>6, <1>7, <1>8, <1>9,
     <1>10, <1>11, <1>12, <1>13, <1>14, <1>15 DEF Test

\* So does every step of the kernel, of other processes and the signal.
LEMMA WorldIInv ==
    IInv /\ (Kernel \/ World \/ Terminated) => IInv'
<1> SUFFICES ASSUME IInv, Kernel \/ World \/ Terminated PROVE IInv'
  OBVIOUS
<1>a. /\ Loops \in Nat /\ MaxRounds \in Nat \ {0} /\ Entries \in Nat \ {0}
      /\ \A k \in 0..Loops : BatchSize(k) \in Nat \ {0}
      /\ build' = build /\ Entries' = Entries
  BY Sizes DEF IInv, Test, Kernel, World, Terminated, vars
<1> USE <1>a DEF IInv, TypeOK, PC, InLoop, EnoughCompletions,
      Waiting, Outstanding, PairsPrepared, Earnings, app, sqes, kernel
<1>1. CASE WriteDone
  BY <1>1 DEF WriteDone
<1>2. CASE Writeback
  BY <1>2 DEF Writeback, Probe
<1>3. CASE FsyncDone
  BY <1>3 DEF FsyncDone
<1>4. CASE OtherFsync
  BY <1>4 DEF OtherFsync, Probe
<1>5. CASE Sigint
  BY <1>5 DEF Sigint
<1>6. CASE Terminated
  BY <1>6 DEF Terminated, vars
<1> QED
  BY <1>1, <1>2, <1>3, <1>4, <1>5, <1>6 DEF Kernel, World

\* The inductive invariant of the benchmark holds for every value of the
\* constants.
THEOREM Invariant == Spec => []IInv
<1>1. IInv /\ UNCHANGED vars => IInv'
  BY DEF IInv, TypeOK, InLoop, EnoughCompletions, Waiting, Outstanding,
         PairsPrepared, Earnings, vars, app, sqes, kernel, Entries
<1>2. IInv /\ [Next]_vars => IInv'
  BY <1>1, TestIInv, WorldIInv DEF Next
<1> QED
  BY InitIInv, <1>2, PTL DEF Spec

\* Every variable keeps its type, and the submission ring is never overfilled
\* (io_uring_get_sqe's check is enough, whatever the ring's size).
THEOREM Types == Spec => []TypeOK
<1>1. IInv => TypeOK
  BY DEF IInv
<1> QED
  BY <1>1, Invariant, PTL

\* No io_uring_wait_cqe of either loop waits for a completion that will not
\* come, even when the ring is too small for the batch.
THEOREM NoWaitForNothing == Spec => []EnoughCompletions
<1>1. IInv => EnoughCompletions
  BY DEF IInv
<1> QED
  BY <1>1, Invariant, PTL

\* The test of the write-back counter and its decrement, two steps, never take
\* it below 0, and each credit spent was earned by an fsync of this process.
THEOREM NoUnearnedCredit == Spec => []CreditsEarned
<1>1. IInv => CreditsEarned
  BY DEF IInv, TypeOK, Earnings, CreditsEarned
<1> QED
  BY <1>1, Invariant, PTL

-----------------------------------------------------------------------------
\* With RoomForBatch the ring never fills up early, the wait loop accounts for exactly the
\* two requests of each pair, and the next batch starts with nothing left over.
WholeBatch ==
    /\ pc \notin {"decide", "spend", "reap", "reap2"}
    /\ pc \in {"prepWrite", "prepFsync", "submit"} =>
         /\ Outstanding = 0
         /\ sqFsyncs = syncCount
         /\ sqWrites = IF pc = "prepFsync" THEN syncCount + 1 ELSE syncCount
         /\ syncCount <= BatchSize(loop)
         /\ pc = "prepFsync" => syncCount < BatchSize(loop)
         /\ pc = "submit" => syncCount = BatchSize(loop)
    /\ pc = "reapAll" =>
         /\ syncCount = BatchSize(loop)
         /\ waited + Outstanding = 2 * syncCount
         /\ sqWrites = 0 /\ sqFsyncs = 0
    /\ pc = "time" /\ ret = 0 =>
         /\ syncCount = BatchSize(loop)
         /\ Outstanding = 0
         /\ sqWrites = 0 /\ sqFsyncs = 0

\* The size of the batch, as the steps below need it.
LEMMA SizeFits ==
    RoomForBatch /\ TypeOK =>
        /\ BatchSize(loop) \in Nat \ {0}
        /\ loop < Loops => 2 * BatchSize(loop) <= Entries
        /\ Entries \in Nat /\ ~WaitKernel
        /\ loop' = loop => BatchSize(loop)' = BatchSize(loop)
  BY FsyncAssumption DEF RoomForBatch, TypeOK, BatchSize, Entries, WaitKernel

\* Every step of the program keeps WholeBatch.
LEMMA TestWhole ==
    RoomForBatch /\ TypeOK /\ InLoop /\ PairsPrepared /\ WholeBatch /\ Test
      => WholeBatch'
<1> SUFFICES ASSUME RoomForBatch, TypeOK, InLoop, PairsPrepared, WholeBatch,
                    Test
             PROVE  WholeBatch'
  OBVIOUS
<1> DEFINE size == BatchSize(loop)
<1>a. /\ size \in Nat \ {0} /\ Entries \in Nat
      /\ pc \in {"prepWrite", "prepFsync", "submit"} => 2 * size <= Entries
      /\ ~WaitKernel
      /\ loop' = loop => BatchSize(loop)' = size
  BY SizeFits DEF InLoop
<1> USE <1>a DEF TypeOK, PC, Outstanding, WholeBatch, app, sqes, kernel
<1>1. CASE StartTest
  BY <1>1 DEF StartTest
<1>2. CASE TestFails
  BY <1>2 DEF TestFails
<1>3. CASE Finish
  BY <1>3 DEF Finish
<1>4. CASE PrepWrite
  BY <1>4 DEF PrepWrite, Full, PairsPrepared
<1>5. CASE PrepFsync
  BY <1>5 DEF PrepFsync, Full, PairsPrepared
<1>6. CASE PrepOver
  BY <1>6 DEF PrepOver, Full, PairsPrepared
<1>7. CASE Submit
  BY <1>7 DEF Submit, PairsPrepared
<1>8. CASE SubmitFails
  BY <1>8 DEF SubmitFails
<1>9. CASE ReapAll
  BY <1>9 DEF ReapAll, WaitCqe
<1>10. CASE Decide
  BY <1>10 DEF Decide
<1>11. CASE Spend
  BY <1>11 DEF Spend
<1>12. CASE ReapPair
  BY <1>12 DEF ReapPair, WaitCqe
<1>13. CASE WaitOver
  BY <1>13 DEF WaitOver
<1>14. CASE NextRound
  BY <1>14 DEF NextRound
<1>15. CASE TestOver
  BY <1>15 DEF TestOver
<1> QED
  BY <1>1, <1>2, <1>3, <1>4, <1>5, <1>6, <1>7, <1>8, <1>9,
     <1>10, <1>11, <1>12, <1>13, <1>14, <1>15 DEF Test

\* So does every step of the kernel, of other processes and the signal.
LEMMA WorldWhole ==
    RoomForBatch /\ TypeOK /\ WholeBatch
      /\ (Kernel \/ World \/ Terminated) => WholeBatch'
<1> SUFFICES ASSUME RoomForBatch, TypeOK, WholeBatch,
                    Kernel \/ World \/ Terminated
             PROVE  WholeBatch'
  OBVIOUS
<1>a. loop' = loop
  BY DEF Kernel, World, WriteDone, Writeback, FsyncDone, OtherFsync, Sigint,
         Terminated, vars, app
<1> USE <1>a, SizeFits DEF TypeOK, PC, Outstanding, WholeBatch, app, sqes, kernel
<1>1. CASE WriteDone
  BY <1>1 DEF WriteDone
<1>2. CASE Writeback
  BY <1>2 DEF Writeback, Probe
<1>3. CASE FsyncDone
  BY <1>3 DEF FsyncDone
<1>4. CASE OtherFsync
  BY <1>4 DEF OtherFsync, Probe
<1>5. CASE Sigint
  BY <1>5 DEF Sigint
<1>6. CASE Terminated
  BY <1>6 DEF Terminated, vars
<1> QED
  BY <1>1, <1>2, <1>3, <1>4, <1>5, <1>6 DEF Kernel, World

\* In the default build, with a ring that fits the largest batch, a wait that
\* ends without an error has seen every completion of the whole batch, so the
\* next batch starts on an idle ring.
THEOREM WholeBatchReaped == Spec => []BatchReaped
<1> DEFINE Inv == RoomForBatch => WholeBatch
<1>1. Init => Inv
  BY DEF Init, WholeBatch, Outstanding
<1>2. IInv /\ Inv /\ [Next]_vars => Inv'
  <2> SUFFICES ASSUME IInv, Inv, [Next]_vars, RoomForBatch' PROVE WholeBatch'
    OBVIOUS
  <2>1. TypeOK /\ InLoop /\ PairsPrepared
    BY DEF IInv
  <2>2. build' = build
    BY DEF Next, Test, Kernel, World, Terminated, vars
  <2>3. RoomForBatch /\ WholeBatch
    BY <2>2 DEF RoomForBatch, BatchSize, WaitKernel, Entries
  <2>4. WholeBatch /\ UNCHANGED vars => WholeBatch'
    BY DEF WholeBatch, Outstanding, BatchSize, vars, app, sqes, kernel
  <2> QED
    BY <2>1, <2>3, <2>4, TestWhole, WorldWhole DEF Next
<1>3. Inv => BatchReaped
  BY DEF WholeBatch, BatchReaped
<1> QED
  BY <1>1, <1>2, <1>3, Invariant, PTL DEF Spec

=============================================================================
