-------------------------- MODULE PreadProbesProofs --------------------------
(***************************************************************************)
(* Theorems about the probes, for every set of threads and processes.      *)
(***************************************************************************)
EXTENDS PreadProbesEnv, FiniteSets, FiniteSetTheorems, TLAPS

(***************************************************************************)
(* The code as it is built: the comparison in readS never succeeds.  The   *)
(* inductive invariant adds that no thread is ever inside preadRaw past    *)
(* its first test, or inside batchSubmit past its own.                     *)
(***************************************************************************)
InertInv == /\ Inert
            /\ processOf \in [Threads -> Pids]
            /\ tpc \in [Threads -> {"idle", "verdict"}]
            /\ fdInfo \in [Pids -> Nat] /\ answer \in [Threads -> Nat]

USE ProbesAssumption

\* At the start nothing is overridden.
LEMMA InertInit == Init => InertInv
BY DEF Init, ProbesInit, RingsInit, InertInv, Inert, Absent

\* No step of a thread leaves the inert states.
LEMMA InertStep ==
    ASSUME Verdicts = {0}, InertInv, NEW t \in Threads, ProbeStep(t)
    PROVE  InertInv'
<1> USE DEF InertInv, Inert, At, Goto, Pid, Absent
<1>0. tpc[t] \in {"idle", "verdict"} /\ fdInfo[processOf[t]] = 0
  OBVIOUS
<1>p. processOf' = processOf
  BY DEF ProbeStep
<1>1. CASE ReadS(t)
  BY <1>1, <1>p DEF ReadS, rings
<1>2. CASE ReadSTell(t)
  BY <1>2, <1>p DEF ReadSTell, shared, rings
<1>3. CASE PreadRawPlain(t)
  BY <1>3, <1>p DEF PreadRawPlain, shared, rings
<1>4. CASE BatchSubmitPlain(t)
  BY <1>4, <1>p DEF BatchSubmitPlain, shared, rings
<1>5. ~PreadRaw(t) /\ ~BatchSubmit(t)
  BY <1>0 DEF PreadRaw, BatchSubmit
<1>6. ~ \/ PreadTell(t) \/ LoadSeq(t) \/ StoreSeq(t) \/ Emit(t)
        \/ Lookup(t) \/ LoadTotal(t) \/ StoreTotal(t) \/ Insert(t)
        \/ BatchTest(t) \/ BatchReport(t) \/ BatchFlush(t) \/ BatchReset(t)
  BY <1>0 DEF PreadTell, LoadSeq, StoreSeq, Emit, Lookup, LoadTotal,
              StoreTotal, Insert, BatchTest, BatchReport, BatchFlush, BatchReset
<1> QED BY <1>1, <1>2, <1>3, <1>4, <1>5, <1>6 DEF ProbeStep

\* With the pointer comparison of readS the whole pipeline is inert, however
\* many threads hit the probes: no flag, no record, no total, no override.
THEOREM AsBuiltInert == (Verdicts = {0}) => (Spec => []Inert)
<1> SUFFICES ASSUME Verdicts = {0} PROVE Spec => []Inert
  OBVIOUS
<1>1. InertInv /\ [Next]_vars => InertInv'
  <2> SUFFICES ASSUME InertInv, [Next]_vars PROVE InertInv'
    OBVIOUS
  <2>1. CASE Release
    BY <2>1 DEF Release, InertInv, Inert
  <2>2. ASSUME NEW t \in Threads, ProbeStep(t) PROVE InertInv'
    BY <2>2, InertStep
  <2>3. CASE UNCHANGED vars
    BY <2>3 DEF vars, probes, shared, local, rings, InertInv, Inert
  <2> QED BY <2>1, <2>2, <2>3 DEF Next
<1>2. InertInv => Inert
  BY DEF InertInv
<1> QED BY InertInit, <1>1, <1>2, PTL DEF Spec

-----------------------------------------------------------------------------
(***************************************************************************)
(* The totals of a process of one thread, whatever the comparison of readS *)
(* yields and the threads of other processes do.  The inductive invariant  *)
(* says at each place of the thread what of its bytes is in the total,     *)
(* unless the map was full; a full map refuses the process for good.       *)
(***************************************************************************)
Shapes ==
    /\ processOf \in [Threads -> Pids] /\ tpc \in [Threads -> ThreadPC]
    /\ globalSeq \in Nat
    /\ reg \in [Threads -> Nat] /\ size \in [Threads -> Nat]
    /\ fdInfo \in [Pids -> Nat] /\ handed \in [Pids -> Nat]

Adding == {"lookup", "loadTotal", "storeTotal", "insert"}

Asked == Adding \cup {"tell", "loadSeq", "storeSeq", "emit"}

\* A read in hand has a size, and an entry that was found is still there.
Found == \A t \in Threads :
    /\ tpc[t] \in Asked => size[t] > 0
    /\ tpc[t] \in {"loadTotal", "storeTotal"} => fdInfo[Pid(t)] # Absent

\* The process came to a full map.
Refused(p) == fdInfo[p] = Absent /\ FdFull

TotalAt(t) ==
    /\ \/ handed[Pid(t)] = fdInfo[Pid(t)] + IF tpc[t] \in Adding THEN size[t] ELSE 0
       \/ Refused(Pid(t))
    /\ At(t, "storeTotal") => reg[t] = fdInfo[Pid(t)]
    /\ At(t, "insert") => fdInfo[Pid(t)] = Absent

TotalOf(p) == /\ \A t \in Threads : Pid(t) = p => TotalAt(t)
              /\ (\A t \in Threads : Pid(t) # p) => fdInfo[p] = handed[p]

TotalInv == Shapes /\ Found /\ \A p \in Pids : Alone(p) => TotalOf(p)

LEMMA TotalInit == Init => TotalInv
BY DEF Init, ProbesInit, TotalInv, Shapes, ThreadPC, Found, TotalOf, TotalAt,
       Adding, Asked, At, Pid, Absent

\* A thread changes nothing of another thread's, and of the two totals only
\* those of its own process.
LEMMA OwnOnly ==
    ASSUME Shapes, NEW t \in Threads, ProbeStep(t)
    PROVE  /\ Shapes' /\ processOf' = processOf
           /\ \A u \in Threads \ {t} :
                tpc'[u] = tpc[u] /\ reg'[u] = reg[u] /\ size'[u] = size[u]
           /\ \A p \in Pids \ {Pid(t)} :
                fdInfo'[p] = fdInfo[p] /\ handed'[p] = handed[p]
<1> USE DEF Shapes, At, Goto, Pid, ThreadPC
<1>0. processOf' = processOf /\ processOf[t] \in Pids
  BY DEF ProbeStep
<1>1. CASE ReadS(t) \/ ReadSTell(t) \/ PreadRawPlain(t) \/ BatchSubmitPlain(t)
           \/ BatchSubmit(t) \/ BatchTest(t) \/ BatchReport(t) \/ BatchFlush(t)
           \/ BatchReset(t)
  BY <1>0, <1>1 DEF ReadS, ReadSTell, PreadRawPlain, BatchSubmitPlain,
                    BatchSubmit, BatchTest, BatchReport, BatchFlush, BatchReset,
                    shared, history
<1>2. CASE PreadRaw(t)
  BY <1>0, <1>2 DEF PreadRaw, shared
<1>3. CASE PreadTell(t)
  BY <1>0, <1>3 DEF PreadTell, shared
<1>4. CASE LoadSeq(t)
  BY <1>0, <1>4 DEF LoadSeq, shared, history
<1>5. CASE StoreSeq(t) \/ Lookup(t)
  BY <1>0, <1>5 DEF StoreSeq, Lookup, shared, history
<1>6. CASE Emit(t)
  BY <1>0, <1>6 DEF Emit, shared
<1>7. CASE LoadTotal(t)
  BY <1>0, <1>7 DEF LoadTotal, shared, history
<1>8. CASE StoreTotal(t) \/ Insert(t)
  BY <1>0, <1>8 DEF StoreTotal, Insert, history
<1> QED
  BY <1>1, <1>2, <1>3, <1>4, <1>5, <1>6, <1>7, <1>8 DEF ProbeStep

\* Nothing takes an entry away, and a full map stays as it is.
LEMMA EntriesStay ==
    ASSUME Shapes, Found, NEW t \in Threads, ProbeStep(t)
    PROVE  /\ Found'
           /\ \A p \in Pids : fdInfo[p] # Absent => fdInfo'[p] # Absent
           /\ FdFull => FdFull' /\ \A p \in Pids : Refused(p) => Refused(p)'
<1> USE DEF Shapes, Found, Asked, Adding, At, Goto, Pid
<1>0. /\ processOf' = processOf /\ processOf[t] \in Pids
      /\ size[t] \in Nat /\ reg[t] \in Nat /\ tpc[t] \in ThreadPC
      /\ Sizes \subseteq Nat \ {0}
  BY DEF ProbeStep
<1>f. CASE fdInfo' = fdInfo
  <2>1. FdFull => FdFull' /\ \A p \in Pids : Refused(p) => Refused(p)'
    BY <1>f DEF FdFull, Refused
  <2>2. Found'
    <3>1. CASE ReadS(t) \/ ReadSTell(t) \/ PreadRawPlain(t)
               \/ BatchSubmitPlain(t) \/ BatchSubmit(t) \/ BatchTest(t)
               \/ BatchReport(t) \/ BatchFlush(t) \/ BatchReset(t)
      BY <1>0, <1>f, <3>1 DEF ReadS, ReadSTell, PreadRawPlain,
         BatchSubmitPlain, BatchSubmit, BatchTest, BatchReport, BatchFlush,
         BatchReset
    <3>2. CASE PreadRaw(t)
      BY <1>0, <1>f, <3>2 DEF PreadRaw
    <3>3. CASE PreadTell(t) \/ LoadSeq(t) \/ StoreSeq(t) \/ Emit(t)
      BY <1>0, <1>f, <3>3 DEF PreadTell, LoadSeq, StoreSeq, Emit
    <3>4. CASE Lookup(t) \/ LoadTotal(t)
      BY <1>0, <1>f, <3>4 DEF Lookup, LoadTotal
    <3>5. CASE StoreTotal(t) \/ Insert(t)
      BY <1>0, <1>f, <3>5 DEF StoreTotal, Insert
    <3> QED
      BY <3>1, <3>2, <3>3, <3>4, <3>5 DEF ProbeStep
  <2> QED
    BY <1>f, <2>1, <2>2
<1>g. CASE fdInfo' # fdInfo
  <2>1. StoreTotal(t) \/ Insert(t)
    BY <1>g DEF ProbeStep, ReadS, ReadSTell, PreadRawPlain, BatchSubmitPlain,
       BatchSubmit, BatchTest, BatchReport, BatchFlush, BatchReset, PreadRaw,
       PreadTell, LoadSeq, StoreSeq, Emit, Lookup, LoadTotal, shared
  <2>2. /\ tpc' = [tpc EXCEPT ![t] = "idle"] /\ size' = size
        /\ tpc[t] \in {"storeTotal", "insert"}
    BY <2>1 DEF StoreTotal, Insert
  <2>3. \E n \in Nat \ {0} : fdInfo' = [fdInfo EXCEPT ![processOf[t]] = n]
    BY <1>0, <1>g, <2>1, <2>2 DEF StoreTotal, Insert
  <2>4. FdFull => fdInfo[processOf[t]] # Absent
    BY <1>g, <2>1, <2>2 DEF StoreTotal, Insert
  <2>5. \A p \in Pids : fdInfo[p] # Absent => fdInfo'[p] # Absent
    BY <1>0, <2>3 DEF Absent
  <2>6. ASSUME FdFull
        PROVE  FdFull' /\ \A p \in Pids : Refused(p) => Refused(p)'
    <3>1. \A p \in Pids : fdInfo'[p] # Absent <=> fdInfo[p] # Absent
      BY <1>0, <2>3, <2>4, <2>5, <2>6
    <3>2. {p \in Pids : fdInfo'[p] # Absent} = {p \in Pids : fdInfo[p] # Absent}
      BY <3>1
    <3>3. FdFull'
      BY <2>6, <3>2 DEF FdFull
    <3> QED
      BY <3>1, <3>3 DEF Refused
  <2>7. Found'
    BY <1>0, <2>2, <2>5
  <2> QED
    BY <2>5, <2>6, <2>7
<1> QED
  BY <1>f, <1>g

\* The thread itself adds what it handed over, once, or never.
LEMMA OwnTotal ==
    ASSUME Shapes, Found, NEW t \in Threads, ProbeStep(t), TotalAt(t)
    PROVE  TotalAt(t)'
<1> USE DEF Shapes, TotalAt, Adding, At, Goto, Pid
<1>0. /\ processOf' = processOf /\ processOf[t] \in Pids
      /\ fdInfo[processOf[t]] \in Nat /\ handed[processOf[t]] \in Nat
      /\ size[t] \in Nat /\ reg[t] \in Nat
      /\ Refused(processOf[t]) => Refused(processOf[t])'
      /\ Refused(processOf[t]) => fdInfo[processOf[t]] = Absent
  BY EntriesStay DEF ProbeStep, Refused
<1>1. CASE ReadS(t) \/ ReadSTell(t) \/ PreadRawPlain(t) \/ BatchSubmitPlain(t)
           \/ BatchSubmit(t) \/ BatchTest(t) \/ BatchReport(t) \/ BatchFlush(t)
           \/ BatchReset(t)
  BY <1>0, <1>1 DEF ReadS, ReadSTell, PreadRawPlain, BatchSubmitPlain,
                    BatchSubmit, BatchTest, BatchReport, BatchFlush, BatchReset,
                    shared, history
<1>2. CASE PreadRaw(t)
  BY <1>0, <1>2 DEF PreadRaw, shared
<1>3. CASE PreadTell(t)
  BY <1>0, <1>3 DEF PreadTell, shared
<1>4. CASE LoadSeq(t)
  BY <1>0, <1>4 DEF LoadSeq, shared, history
<1>5. CASE StoreSeq(t) \/ Lookup(t)
  BY <1>0, <1>5 DEF StoreSeq, Lookup, shared, history, Absent
<1>6. CASE Emit(t)
  BY <1>0, <1>6 DEF Emit, shared
<1>7. CASE LoadTotal(t)
  BY <1>0, <1>7 DEF LoadTotal, shared, history
<1>8. CASE StoreTotal(t)
  <2>1. tpc[t] = "storeTotal" /\ tpc'[t] = "idle" /\ handed' = handed
        /\ fdInfo'[processOf[t]] = reg[t] + size[t]
    BY <1>0, <1>8 DEF StoreTotal, history
  <2>2. fdInfo[processOf[t]] # Absent
    BY <2>1 DEF Found
  <2>3. handed[processOf[t]] = fdInfo[processOf[t]] + size[t]
    BY <1>0, <2>1, <2>2
  <2> QED
    BY <1>0, <2>1, <2>3
<1>9. CASE Insert(t)
  <2>1. tpc[t] = "insert" /\ tpc'[t] = "idle" /\ handed' = handed
    BY <1>0, <1>9 DEF Insert, history
  <2>2. CASE FdFull
    <3>1. Refused(processOf[t])
      BY <2>1, <2>2 DEF Refused
    <3> QED
      BY <1>0, <2>1, <3>1
  <2>3. CASE ~FdFull
    <3>1. fdInfo'[processOf[t]] = size[t]
      BY <1>0, <1>9, <2>3 DEF Insert
    <3>2. handed[processOf[t]] = size[t]
      BY <1>0, <2>1, <2>3 DEF Refused, Absent
    <3> QED
      BY <1>0, <2>1, <3>1, <3>2
  <2> QED
    BY <2>2, <2>3
<1> QED
  BY <1>1, <1>2, <1>3, <1>4, <1>5, <1>6, <1>7, <1>8, <1>9 DEF ProbeStep

LEMMA TotalStep == TotalInv /\ [Next]_vars => TotalInv'
<1> SUFFICES ASSUME TotalInv, [Next]_vars PROVE TotalInv'
  OBVIOUS
<1>1. CASE Release \/ UNCHANGED vars
  <2>1. UNCHANGED <<processOf, tpc, reg, size, globalSeq, fdInfo, handed>>
    BY <1>1 DEF Release, vars, probes, shared, local, history
  <2>2. /\ \A t \in Threads : TotalAt(t) => TotalAt(t)'
        /\ Found => Found'
    BY <2>1 DEF TotalAt, At, Pid, Refused, FdFull, Found
  <2>3. \A p \in Pids : (Alone(p)' => Alone(p)) /\ (TotalOf(p) => TotalOf(p)')
    BY <2>1, <2>2 DEF Alone, TotalOf, Pid
  <2> QED
    BY <2>1, <2>2, <2>3 DEF TotalInv, Shapes
<1>2. ASSUME NEW t \in Threads, ProbeStep(t) PROVE TotalInv'
  <2>1. /\ Shapes' /\ processOf' = processOf
        /\ \A u \in Threads \ {t} :
             tpc'[u] = tpc[u] /\ reg'[u] = reg[u] /\ size'[u] = size[u]
        /\ \A p \in Pids \ {Pid(t)} :
             fdInfo'[p] = fdInfo[p] /\ handed'[p] = handed[p]
        /\ Found' /\ \A p \in Pids : Refused(p) => Refused(p)'
    BY <1>2, OwnOnly, EntriesStay DEF TotalInv, Refused
  <2>2. ASSUME NEW p \in Pids, Alone(p)' PROVE TotalOf(p)'
    <3>1. Alone(p) /\ TotalOf(p)
      BY <2>1, <2>2 DEF Alone, Pid, TotalInv
    <3>2. CASE Pid(t) = p
      <4>1. TotalAt(t)'
        BY <1>2, <3>1, <3>2, OwnTotal DEF TotalInv, TotalOf
      <4>2. \A u \in Threads : Pid(u) = p => u = t
        BY <3>1, <3>2 DEF Alone
      <4> QED
        BY <2>1, <3>2, <4>1, <4>2 DEF TotalOf, Pid
    <3>3. CASE Pid(t) # p
      <4>1. \A u \in Threads : Pid(u) = p => u # t
        BY <3>3
      <4> QED
        BY <2>1, <2>2, <3>1, <3>3, <4>1 DEF TotalOf, TotalAt, At, Pid
    <3> QED
      BY <3>2, <3>3
  <2> QED
    BY <2>1, <2>2 DEF TotalInv
<1> QED
  BY <1>1, <1>2 DEF Next

\* The total of a process of one thread is, between its probes, what it handed
\* over, or it has none because it came to a full map; never a part, however
\* many other processes hit the probes and share flag, number and map.
THEOREM OneThreadTotals == Spec => []AllOrNothing
<1>1. TotalInv => AllOrNothing
  <2> SUFFICES ASSUME TotalInv, NEW p \in Pids, Alone(p), Quiet(p)
               PROVE  fdInfo[p] = handed[p] \/ Refused(p)
    BY DEF AllOrNothing, Refused
  <2>1. TotalOf(p) /\ fdInfo[p] \in Nat
    BY DEF TotalInv, Shapes
  <2>2. CASE \A t \in Threads : Pid(t) # p
    BY <2>1, <2>2 DEF TotalOf
  <2>3. ASSUME NEW t \in Threads, Pid(t) = p
        PROVE  fdInfo[p] = handed[p] \/ Refused(p)
    BY <2>1, <2>3 DEF TotalOf, TotalAt, Adding, Quiet, At
  <2> QED
    BY <2>2, <2>3
<1> QED
  BY TotalInit, TotalStep, <1>1, PTL DEF Spec

-----------------------------------------------------------------------------
(***************************************************************************)
(* The shapes of all the words.  A record is of the type the daemon reads  *)
(* because to_read was one of the client's sizes since preadRaw's test.    *)
(***************************************************************************)
Sized == \A t \in Threads :
    tpc[t] \in {"tell", "loadSeq", "storeSeq", "emit"} => size[t] \in Sizes

TypeInv == TypeOK /\ Sized

LEMMA OutputShape ==
    ASSUME NEW S, NEW rb \in Seq(S), NEW r \in S, NEW capacity \in Nat,
           Len(rb) <= capacity
    PROVE  /\ Output(rb, capacity, r) \in Seq(S)
           /\ Len(Output(rb, capacity, r)) <= capacity
BY DEF Output

LEMMA NatSizes == Sizes \cup {0} \subseteq Nat
OBVIOUS

LEMMA TailShape ==
    ASSUME NEW S, NEW rb \in Seq(S), rb # <<>>, NEW capacity \in Nat,
           Len(rb) <= capacity
    PROVE  Tail(rb) \in Seq(S) /\ Len(Tail(rb)) <= capacity
OBVIOUS

LEMMA TypeInvStep ==
    ASSUME TypeInv, NEW t \in Threads, ProbeStep(t)
    PROVE  TypeInv'
<1> USE DEF TypeInv, TypeOK, Sized, At, Goto, Pid, ThreadPC
<1>0. /\ processOf' = processOf /\ processOf \in [Threads -> Pids]
      /\ processOf[t] \in Pids /\ size[t] \in Nat /\ reg[t] \in Nat
  <2>1. processOf' = processOf /\ processOf \in [Threads -> Pids]
    BY DEF ProbeStep
  <2>2. size[t] \in Sizes \cup {0} /\ reg[t] \in Nat
    OBVIOUS
  <2>3. size[t] \in Nat
    BY <2>2, NatSizes
  <2>4. processOf[t] \in Pids
    BY <2>1
  <2> QED
    BY <2>1, <2>2, <2>3, <2>4
<1>1. CASE ReadS(t) \/ ReadSTell(t) \/ PreadRawPlain(t) \/ BatchSubmitPlain(t)
           \/ BatchSubmit(t) \/ BatchTest(t) \/ BatchReport(t) \/ BatchReset(t)
  <2>1. CASE ReadS(t)
    BY <1>0, <2>1 DEF ReadS, shared, history, rings
  <2>2. CASE ReadSTell(t)
    BY <1>0, <2>2 DEF ReadSTell, shared, history, rings
  <2>3. CASE PreadRawPlain(t) \/ BatchSubmitPlain(t)
    <3>1. answer' = [answer EXCEPT ![t] = 0]
          /\ UNCHANGED <<shared, tpc, reg, size, history, rings>>
      BY <2>3 DEF PreadRawPlain, BatchSubmitPlain
    <3> QED
      BY <1>0, <3>1 DEF shared, history, rings
  <2>4. CASE BatchSubmit(t)
    BY <1>0, <2>4 DEF BatchSubmit, shared, history, rings
  <2>7. CASE BatchTest(t)
    BY <1>0, <2>7 DEF BatchTest, shared, history, rings
  <2>5. CASE BatchReport(t)
    <3>1. fdInfo[Pid(t)] \in Nat
      BY <1>0
    <3>2. answer' \in [Threads -> Nat] /\ tpc' \in [Threads -> ThreadPC]
          /\ \A u \in Threads : tpc'[u] = tpc[u] \/ tpc'[u] \in {"flush", "reset"}
      BY <2>5, <3>1 DEF BatchReport
    <3> QED
      BY <1>0, <2>5, <3>2 DEF BatchReport, shared, history, rings
  <2>6. CASE BatchReset(t)
    BY <1>0, <2>6 DEF BatchReset, shared, history, rings
  <2> QED
    BY <1>1, <2>1, <2>2, <2>3, <2>4, <2>5, <2>6, <2>7
<1>2. CASE PreadRaw(t)
  BY <1>0, <1>2, SMTT(20) DEF PreadRaw, shared, rings
<1>3. CASE PreadTell(t)
  <2>1. overridden * size[t] \in Nat
    BY <1>0
  <2>2. skipped' \in [Pids -> Nat]
    <3>1. PICK m \in Nat : skipped' = [skipped EXCEPT ![Pid(t)] = @ + m]
      BY <1>3, <2>1 DEF PreadTell
    <3> QED
      BY <3>1
  <2>3. /\ tpc[t] = "tell" /\ tpc' = [tpc EXCEPT ![t] = "loadSeq"]
        /\ answer' = [answer EXCEPT ![t] = overridden]
        /\ UNCHANGED <<shared, reg, size, preads, handed, rings>>
    BY <1>3 DEF PreadTell
  <2>4. answer' \in [Threads -> Nat]
    BY <2>3
  <2> QED
    BY <1>0, <2>2, <2>3, <2>4 DEF shared, rings
<1>4. CASE LoadSeq(t) \/ StoreSeq(t) \/ Lookup(t)
  <2>1. CASE LoadSeq(t)
    BY <1>0, <2>1 DEF LoadSeq, shared, history, rings
  <2>2. CASE StoreSeq(t)
    <3>1. globalSeq' \in Nat
      BY <1>0, <2>2 DEF StoreSeq
    <3> QED
      BY <1>0, <2>2, <3>1 DEF StoreSeq, shared, history, rings
  <2>3. CASE Lookup(t)
    BY <1>0, <2>3 DEF Lookup, shared, history, rings
  <2> QED
    BY <1>4, <2>1, <2>2, <2>3
<1>5. CASE Emit(t)
  <2>1. [pid |-> Pid(t), seq |-> reg[t], size |-> size[t]] \in Record
    BY <1>0, <1>5 DEF Emit, Record
  <2>2. prepareRb \in Seq(Record) /\ Len(prepareRb) <= PrepareCapacity
        /\ PrepareCapacity \in Nat
    BY CapacityAssumption
  <2>3. prepareRb' \in Seq(Record) /\ Len(prepareRb') <= PrepareCapacity
    BY <1>5, <2>1, <2>2, OutputShape DEF Emit, OutputPrepare
  <2>4. handed' \in [Pids -> Nat]
    BY <1>0, <1>5 DEF Emit
  <2> QED
    BY <1>0, <1>5, <2>3, <2>4 DEF Emit, shared
<1>6. CASE BatchFlush(t)
  <2>1. submitRb \in Seq(Pids) /\ Len(submitRb) <= SubmitCapacity
        /\ SubmitCapacity \in Nat
    BY CapacityAssumption
  <2>2. submitRb' \in Seq(Pids) /\ Len(submitRb') <= SubmitCapacity
    BY <1>0, <1>6, <2>1, OutputShape DEF BatchFlush, OutputSubmit
  <2> QED
    BY <1>0, <1>6, <2>2 DEF BatchFlush, shared, history
<1>7. CASE LoadTotal(t)
  BY <1>0, <1>7 DEF LoadTotal, shared, history, rings
<1>8. CASE StoreTotal(t) \/ Insert(t)
  <2>1. fdInfo' \in [Pids -> Nat]
    <3>1. \/ fdInfo' = [fdInfo EXCEPT ![Pid(t)] = reg[t] + size[t]]
          \/ fdInfo' = [fdInfo EXCEPT ![Pid(t)] = size[t]]
          \/ fdInfo' = fdInfo
      BY <1>8 DEF StoreTotal, Insert
    <3>2. reg[t] + size[t] \in Nat
      BY <1>0
    <3> QED
      <4>1. fdInfo \in [Pids -> Nat] /\ size[t] \in Nat
        BY <1>0
      <4>2. CASE fdInfo' = [fdInfo EXCEPT ![Pid(t)] = reg[t] + size[t]]
        BY <3>2, <4>1, <4>2
      <4>3. CASE fdInfo' = [fdInfo EXCEPT ![Pid(t)] = size[t]]
        BY <4>1, <4>3
      <4> QED
        BY <3>1, <4>1, <4>2, <4>3
  <2> QED
    <3>1. CASE StoreTotal(t)
      BY <1>0, <2>1, <3>1 DEF StoreTotal, history, rings
    <3>2. CASE Insert(t)
      BY <1>0, <2>1, <3>2 DEF Insert, history, rings
    <3> QED
      BY <1>8, <3>1, <3>2
<1> QED
  BY <1>1, <1>2, <1>3, <1>4, <1>5, <1>6, <1>7, <1>8 DEF ProbeStep

\* Every word keeps the shape of its C declaration, and every record either
\* ring buffer holds is one the daemon can read, for any number of threads.
THEOREM ProbeTypes == Spec => []TypeOK
<1>1. Init => TypeInv
  BY CapacityAssumption DEF Init, ProbesInit, RingsInit, TypeInv, TypeOK,
                            Sized, ThreadPC, Absent
<1>2. TypeInv /\ [Next]_vars => TypeInv'
  <2> SUFFICES ASSUME TypeInv, [Next]_vars PROVE TypeInv'
    OBVIOUS
  <2>1. CASE Release
    <3>1. UNCHANGED <<processOf, overridden, globalSeq, fdInfo, tpc, reg, size,
                      answer, preads, handed, skipped>>
      BY <2>1 DEF Release, probes, shared, local, history
    <3>2. /\ prepareRb \in Seq(Record) /\ Len(prepareRb) <= PrepareCapacity
          /\ submitRb \in Seq(Pids) /\ Len(submitRb) <= SubmitCapacity
          /\ PrepareCapacity \in Nat /\ SubmitCapacity \in Nat
      BY CapacityAssumption DEF TypeInv, TypeOK
    <3>3. prepareRb' \in Seq(Record) /\ Len(prepareRb') <= PrepareCapacity
      BY <2>1, <3>2, TailShape DEF Release
    <3>4. submitRb' \in Seq(Pids) /\ Len(submitRb') <= SubmitCapacity
      BY <2>1, <3>2, TailShape DEF Release
    <3> QED
      BY <3>1, <3>3, <3>4 DEF TypeInv, TypeOK, Sized
  <2>2. ASSUME NEW t \in Threads, ProbeStep(t) PROVE TypeInv'
    BY <2>2, TypeInvStep
  <2>3. CASE UNCHANGED vars
    BY <2>3 DEF vars, probes, shared, local, history, rings, TypeInv, TypeOK,
                Sized
  <2> QED
    BY <2>1, <2>2, <2>3 DEF Next
<1> QED
  BY <1>1, <1>2, PTL DEF Spec, TypeInv

-----------------------------------------------------------------------------
(***************************************************************************)
(* Several threads of one process: the bytes their preads have handed over *)
(* and not added yet are counted one by one, as pairs of a thread and a    *)
(* byte of its pread, so that no sum over the threads is needed.           *)
(***************************************************************************)
Bytes(t, n) == {t} \X (1..n)

InHand(p) == {x \in Threads \X Nat :
                 Pid(x[1]) = p /\ tpc[x[1]] \in Adding /\ x[2] \in 1..size[x[1]]}

\* What the threads of a process still have to add fits between its total, or
\* what one of them has loaded of it, and what was handed over.
Fits(p) ==
    /\ IsFiniteSet(InHand(p)) /\ Cardinality(InHand(p)) \in Nat
    /\ fdInfo[p] + Cardinality(InHand(p)) <= handed[p]

LoadFits(t) ==
    At(t, "storeTotal") => reg[t] + Cardinality(InHand(Pid(t))) <= handed[Pid(t)]

ShareInv == /\ Shapes
            /\ \A p \in Pids : Fits(p)
            /\ \A t \in Threads : LoadFits(t)

\* A pread of n bytes has n of them.
LEMMA BytesCount ==
    ASSUME NEW t, NEW n \in Nat
    PROVE  IsFiniteSet(Bytes(t, n)) /\ Cardinality(Bytes(t, n)) = n
<1>1. IsFiniteSet(1..n) /\ Cardinality(1..n) = n
  BY FS_Interval
<1>2. IsFiniteSet({t}) /\ Cardinality({t}) = 1
  BY FS_Singleton
<1>3. /\ IsFiniteSet({t} \X (1..n))
      /\ Cardinality({t} \X (1..n)) = Cardinality({t}) * Cardinality(1..n)
  BY <1>1, <1>2, FS_Product
<1> QED
  BY <1>1, <1>2, <1>3 DEF Bytes

\* They are added to those in hand, ...
LEMMA BytesJoin ==
    ASSUME NEW S, IsFiniteSet(S), NEW t, NEW n \in Nat,
           S \cap Bytes(t, n) = {}
    PROVE  /\ IsFiniteSet(S \cup Bytes(t, n))
           /\ Cardinality(S \cup Bytes(t, n)) = Cardinality(S) + n
<1>1. IsFiniteSet(Bytes(t, n)) /\ Cardinality(Bytes(t, n)) = n
  BY BytesCount
<1>2. Cardinality(S \cap Bytes(t, n)) = 0 /\ Cardinality(S) \in Nat
  BY FS_EmptySet, FS_CardinalityType
<1> QED
  BY <1>1, <1>2, FS_Union

\* ... and taken from them.
LEMMA BytesLeave ==
    ASSUME NEW S, IsFiniteSet(S), NEW t, NEW n \in Nat, Bytes(t, n) \subseteq S
    PROVE  /\ IsFiniteSet(S \ Bytes(t, n))
           /\ Cardinality(S \ Bytes(t, n)) \in Nat
           /\ Cardinality(S) = Cardinality(S \ Bytes(t, n)) + n
<1>1. IsFiniteSet(Bytes(t, n)) /\ Cardinality(Bytes(t, n)) = n
  BY BytesCount
<1>2. S \cap Bytes(t, n) = Bytes(t, n)
  OBVIOUS
<1>3. /\ IsFiniteSet(S \ Bytes(t, n))
      /\ Cardinality(S \ Bytes(t, n))
           = Cardinality(S) - Cardinality(S \cap Bytes(t, n))
  BY FS_Difference
<1>4. Cardinality(S \ Bytes(t, n)) \in Nat /\ Cardinality(S) \in Nat
  BY <1>3, FS_CardinalityType
<1>5. Cardinality(S \cap Bytes(t, n)) = n
  BY <1>1, <1>2
<1> QED
  BY <1>3, <1>4, <1>5

LEMMA ShareInit == Init => ShareInv
<1> SUFFICES ASSUME Init PROVE ShareInv
  OBVIOUS
<1>1. Shapes
  BY DEF Init, ProbesInit, Shapes, ThreadPC, Absent
<1>2. \A t \in Threads : tpc[t] = "idle"
  BY DEF Init, ProbesInit
<1>3. ASSUME NEW p \in Pids PROVE Fits(p)
  <2>1. InHand(p) = {}
    BY <1>2 DEF InHand, Adding
  <2>2. IsFiniteSet(InHand(p)) /\ Cardinality(InHand(p)) = 0
    BY <2>1, FS_EmptySet
  <2>3. fdInfo[p] = 0 /\ handed[p] = 0
    BY DEF Init, ProbesInit, Absent
  <2> QED
    BY <2>2, <2>3 DEF Fits
<1> QED
  BY <1>1, <1>2, <1>3 DEF ShareInv, LoadFits, At

\* A step that neither hands over nor adds.
LEMMA SharePlain ==
    ASSUME ShareInv, NEW t \in Threads, Shapes',
           processOf' = processOf, fdInfo' = fdInfo, handed' = handed,
           \A u \in Threads \ {t} :
               tpc'[u] = tpc[u] /\ reg'[u] = reg[u] /\ size'[u] = size[u],
           tpc'[t] \in Adding <=> tpc[t] \in Adding,
           tpc[t] \in Adding => size'[t] = size[t],
           tpc'[t] = "storeTotal" => reg'[t] = fdInfo[Pid(t)]
    PROVE  ShareInv'
<1>1. ASSUME NEW p \in Pids PROVE InHand(p)' = InHand(p)
  <2>1. \A x \in Threads \X Nat :
          (Pid(x[1])' = p /\ tpc'[x[1]] \in Adding /\ x[2] \in 1..size'[x[1]])
          <=> (Pid(x[1]) = p /\ tpc[x[1]] \in Adding /\ x[2] \in 1..size[x[1]])
    <3> TAKE x \in Threads \X Nat
    <3>1. x[1] \in Threads
      OBVIOUS
    <3>2. CASE x[1] = t
      BY <3>1, <3>2 DEF Pid
    <3>3. CASE x[1] # t
      BY <3>1, <3>3 DEF Pid
    <3> QED
      BY <3>2, <3>3
  <2> QED
    BY <2>1 DEF InHand, Adding
<1>2. ASSUME NEW p \in Pids PROVE Fits(p)'
  BY <1>1 DEF ShareInv, Fits
<1>3. ASSUME NEW u \in Threads PROVE LoadFits(u)'
  <2>1. Pid(u) \in Pids /\ Pid(u)' = Pid(u)
    BY DEF ShareInv, Shapes, Pid
  <2>2. InHand(Pid(u))' = InHand(Pid(u)) /\ Fits(Pid(u)) /\ LoadFits(u)
    BY <1>1, <2>1 DEF ShareInv
  <2>3. CASE u = t
    BY <2>1, <2>2, <2>3 DEF LoadFits, Fits, At
  <2>4. CASE u # t
    BY <2>1, <2>2, <2>4 DEF LoadFits, At
  <2> QED
    BY <2>3, <2>4
<1> QED
  BY <1>2, <1>3 DEF ShareInv

\* The output hands over, and puts into the thread's hands, the same bytes.
LEMMA ShareEmit ==
    ASSUME ShareInv, NEW t \in Threads, ProbeStep(t), Emit(t)
    PROVE  ShareInv'
<1>1. /\ Shapes /\ Shapes' /\ processOf' = processOf
      /\ \A u \in Threads \ {t} :
           tpc'[u] = tpc[u] /\ reg'[u] = reg[u] /\ size'[u] = size[u]
      /\ \A p \in Pids \ {Pid(t)} :
           fdInfo'[p] = fdInfo[p] /\ handed'[p] = handed[p]
  BY OwnOnly DEF ShareInv
<1> DEFINE q == Pid(t)
           n == size[t]
<1>2. q \in Pids /\ n \in Nat
  BY <1>1 DEF Shapes, Pid
<1>3. /\ tpc[t] = "emit" /\ tpc'[t] = "lookup" /\ size' = size /\ reg' = reg
      /\ fdInfo' = fdInfo
  BY <1>1 DEF Emit, Goto, At, shared, Shapes
<1>4. handed'[q] = handed[q] + n
  BY <1>1, <1>2 DEF Emit, Shapes
<1>5. ASSUME NEW p \in Pids, p # q PROVE InHand(p)' = InHand(p)
  <2>1. ASSUME NEW x \in Threads \X Nat
        PROVE  (Pid(x[1])' = p /\ tpc'[x[1]] \in Adding /\ x[2] \in 1..size'[x[1]])
               <=> (Pid(x[1]) = p /\ tpc[x[1]] \in Adding /\ x[2] \in 1..size[x[1]])
    <3>1. x[1] \in Threads
      OBVIOUS
    <3>2. CASE x[1] = t
      BY <1>1, <1>5, <3>2 DEF Pid
    <3>3. CASE x[1] # t
      BY <1>1, <3>1, <3>3 DEF Pid
    <3> QED
      BY <3>2, <3>3
  <2> QED
    BY <2>1 DEF InHand, Adding
<1>6. InHand(q)' = InHand(q) \cup Bytes(t, n) /\ InHand(q) \cap Bytes(t, n) = {}
  <2>1. ASSUME NEW x \in Threads \X Nat
        PROVE  (Pid(x[1])' = q /\ tpc'[x[1]] \in Adding /\ x[2] \in 1..size'[x[1]])
               <=> \/ Pid(x[1]) = q /\ tpc[x[1]] \in Adding /\ x[2] \in 1..size[x[1]]
                   \/ x[1] = t /\ x[2] \in 1..n
    <3>1. x[1] \in Threads
      OBVIOUS
    <3>2. CASE x[1] = t
      BY <1>1, <1>3, <3>2 DEF Pid, Adding
    <3>3. CASE x[1] # t
      BY <1>1, <1>3, <3>1, <3>3 DEF Pid
    <3> QED
      BY <3>2, <3>3
  <2>2. q' = q /\ Bytes(t, n) \subseteq Threads \X Nat
    BY <1>1, <1>2 DEF Bytes, Pid
  <2>3. \A x \in Threads \X Nat : x \in Bytes(t, n) <=> x[1] = t /\ x[2] \in 1..n
    BY <1>2 DEF Bytes
  <2>4. InHand(q)' = {x \in Threads \X Nat : Pid(x[1])' = q
                        /\ tpc'[x[1]] \in Adding /\ x[2] \in 1..size'[x[1]]}
    BY <2>2 DEF InHand, Adding
  <2>5. InHand(q) \cap Bytes(t, n) = {}
    BY <1>3 DEF InHand, Bytes, Adding
  <2> HIDE DEF n, q
  <2> QED
    BY <2>1, <2>2, <2>3, <2>4, <2>5 DEF InHand
<1>7. ASSUME NEW p \in Pids PROVE Fits(p)'
  <2>1. Fits(p) /\ fdInfo[p] \in Nat /\ handed[p] \in Nat
    BY <1>1 DEF ShareInv, Shapes
  <2>2. CASE p # q
    <3>1. fdInfo'[p] = fdInfo[p] /\ handed'[p] = handed[p]
      BY <1>1, <2>2
    <3> QED
      BY <1>5, <2>1, <2>2, <3>1 DEF Fits
  <2>3. CASE p = q
    <3>1. /\ IsFiniteSet(InHand(q)')
          /\ Cardinality(InHand(q)') = Cardinality(InHand(q)) + n
      BY <1>2, <1>6, <2>1, <2>3, BytesJoin DEF Fits
    <3>2. q' = q /\ InHand(p)' = InHand(q)'
      BY <1>1, <2>3 DEF Pid, InHand
    <3> HIDE DEF n, q
    <3> QED
      BY <1>2, <1>3, <1>4, <2>1, <2>3, <3>1, <3>2 DEF Fits
  <2> QED
    BY <2>2, <2>3
<1>8. ASSUME NEW u \in Threads PROVE LoadFits(u)'
  <2>1. Pid(u) \in Pids /\ Pid(u)' = Pid(u) /\ reg[u] \in Nat
    BY <1>1 DEF Shapes, Pid
  <2>2. CASE u = t
    BY <1>3, <2>2 DEF LoadFits, At
  <2>3. CASE u # t /\ Pid(u) # q
    <3>1. /\ InHand(Pid(u))' = InHand(Pid(u)) /\ LoadFits(u)
          /\ handed'[Pid(u)] = handed[Pid(u)] /\ tpc'[u] = tpc[u]
      BY <1>1, <1>5, <2>1, <2>3 DEF ShareInv
    <3> QED
      BY <1>3, <2>1, <3>1 DEF LoadFits, At
  <2>4. CASE u # t /\ Pid(u) = q
    <3>1. /\ Cardinality(InHand(q)') = Cardinality(InHand(q)) + n
          /\ Cardinality(InHand(q)) \in Nat
      BY <1>2, <1>6, BytesJoin DEF Fits, ShareInv
    <3>2. LoadFits(u) /\ tpc'[u] = tpc[u] /\ q' = q
      BY <1>1, <2>4 DEF ShareInv, Pid
    <3>3. handed[q] \in Nat
      BY <1>1, <1>2 DEF Shapes
    <3>4. Pid(u)' = q /\ InHand(Pid(u))' = InHand(q)'
      BY <2>1, <2>4, <3>2
    <3> HIDE DEF n, q
    <3> QED
      BY <1>2, <1>3, <1>4, <2>1, <2>4, <3>1, <3>2, <3>3, <3>4 DEF LoadFits, At
  <2> QED
    BY <2>2, <2>3, <2>4
<1> QED
  BY <1>1, <1>7, <1>8 DEF ShareInv

\* The last store takes the bytes out of the thread's hands; the total may
\* shrink then, when it was loaded long ago, but it never exceeds its share.
LEMMA ShareStore ==
    ASSUME ShareInv, NEW t \in Threads, ProbeStep(t), StoreTotal(t) \/ Insert(t)
    PROVE  ShareInv'
<1>1. /\ Shapes /\ Shapes' /\ processOf' = processOf
      /\ \A u \in Threads \ {t} :
           tpc'[u] = tpc[u] /\ reg'[u] = reg[u] /\ size'[u] = size[u]
      /\ \A p \in Pids \ {Pid(t)} :
           fdInfo'[p] = fdInfo[p] /\ handed'[p] = handed[p]
  BY OwnOnly DEF ShareInv
<1> DEFINE q == Pid(t)
           n == size[t]
<1>2. q \in Pids /\ n \in Nat
  BY <1>1 DEF Shapes, Pid
<1>3. /\ tpc[t] \in {"storeTotal", "insert"} /\ tpc'[t] = "idle"
      /\ size' = size /\ reg' = reg /\ handed' = handed
  BY <1>1 DEF StoreTotal, Insert, Goto, At, history, Shapes
<1>4. fdInfo'[q] = (IF tpc[t] = "storeTotal" THEN reg[t] + n ELSE n)
      \/ fdInfo'[q] = 0
  BY <1>1, <1>2 DEF StoreTotal, Insert, At, Shapes, Absent
<1>5. ASSUME NEW p \in Pids, p # q PROVE InHand(p)' = InHand(p)
  <2>1. ASSUME NEW x \in Threads \X Nat
        PROVE  (Pid(x[1])' = p /\ tpc'[x[1]] \in Adding /\ x[2] \in 1..size'[x[1]])
               <=> (Pid(x[1]) = p /\ tpc[x[1]] \in Adding /\ x[2] \in 1..size[x[1]])
    <3>1. x[1] \in Threads
      OBVIOUS
    <3>2. CASE x[1] = t
      BY <1>1, <1>5, <3>2 DEF Pid
    <3>3. CASE x[1] # t
      BY <1>1, <3>1, <3>3 DEF Pid
    <3> QED
      BY <3>2, <3>3
  <2> QED
    BY <2>1 DEF InHand, Adding
<1>6. InHand(q)' = InHand(q) \ Bytes(t, n) /\ Bytes(t, n) \subseteq InHand(q)
  <2>1. ASSUME NEW x \in Threads \X Nat
        PROVE  (Pid(x[1])' = q /\ tpc'[x[1]] \in Adding /\ x[2] \in 1..size'[x[1]])
               <=> /\ Pid(x[1]) = q /\ tpc[x[1]] \in Adding /\ x[2] \in 1..size[x[1]]
                   /\ ~(x[1] = t /\ x[2] \in 1..n)
    <3>1. x[1] \in Threads
      OBVIOUS
    <3>2. CASE x[1] = t
      BY <1>1, <1>3, <3>2 DEF Pid, Adding
    <3>3. CASE x[1] # t
      BY <1>1, <1>3, <3>1, <3>3 DEF Pid
    <3> QED
      BY <3>2, <3>3
  <2>2. q' = q
    BY <1>1 DEF Pid
  <2>3. \A x \in Threads \X Nat : x \in Bytes(t, n) <=> x[1] = t /\ x[2] \in 1..n
    BY <1>2 DEF Bytes
  <2>4. InHand(q)' = {x \in Threads \X Nat : Pid(x[1])' = q
                        /\ tpc'[x[1]] \in Adding /\ x[2] \in 1..size'[x[1]]}
    BY <2>2 DEF InHand, Adding
  <2>5. Bytes(t, n) \subseteq InHand(q)
    BY <1>2, <1>3 DEF InHand, Bytes, Adding
  <2> HIDE DEF n, q
  <2> QED
    BY <2>1, <2>2, <2>3, <2>4, <2>5 DEF InHand
<1>7. /\ IsFiniteSet(InHand(q)') /\ Cardinality(InHand(q)') \in Nat
      /\ Cardinality(InHand(q)) = Cardinality(InHand(q)') + n
  <2>1. IsFiniteSet(InHand(q))
    BY <1>2 DEF ShareInv, Fits
  <2> HIDE DEF n, q
  <2> QED
    BY <1>2, <1>6, <2>1, BytesLeave
<1>8. ASSUME NEW p \in Pids PROVE Fits(p)'
  <2>1. Fits(p) /\ fdInfo[p] \in Nat /\ handed[p] \in Nat /\ reg[t] \in Nat
    BY <1>1 DEF ShareInv, Shapes
  <2>2. CASE p # q
    <3>1. fdInfo'[p] = fdInfo[p] /\ handed'[p] = handed[p]
      BY <1>1, <2>2
    <3> QED
      BY <1>5, <2>1, <2>2, <3>1 DEF Fits
  <2>3. CASE p = q
    <3>1. q' = q /\ InHand(p)' = InHand(q)' /\ handed'[q] = handed[q]
      BY <1>1, <1>3, <2>3 DEF Pid, InHand
    <3>2. tpc[t] = "storeTotal" => reg[t] + Cardinality(InHand(q)) <= handed[q]
      BY DEF ShareInv, LoadFits, At
    <3> HIDE DEF n, q
    <3> QED
      BY <1>2, <1>3, <1>4, <1>7, <2>1, <2>3, <3>1, <3>2 DEF Fits
  <2> QED
    BY <2>2, <2>3
<1>9. ASSUME NEW u \in Threads PROVE LoadFits(u)'
  <2>1. Pid(u) \in Pids /\ Pid(u)' = Pid(u) /\ reg[u] \in Nat
    BY <1>1 DEF Shapes, Pid
  <2>2. CASE u = t
    BY <1>3, <2>2 DEF LoadFits, At
  <2>3. CASE u # t /\ Pid(u) # q
    <3>1. /\ InHand(Pid(u))' = InHand(Pid(u)) /\ LoadFits(u)
          /\ tpc'[u] = tpc[u]
      BY <1>1, <1>5, <2>1, <2>3 DEF ShareInv
    <3> QED
      BY <1>3, <2>1, <3>1 DEF LoadFits, At
  <2>4. CASE u # t /\ Pid(u) = q
    <3>1. LoadFits(u) /\ tpc'[u] = tpc[u] /\ q' = q
      BY <1>1, <2>4 DEF ShareInv, Pid
    <3>2. Pid(u)' = q /\ InHand(Pid(u))' = InHand(q)' /\ handed[q] \in Nat
      BY <1>1, <1>2, <2>1, <2>4, <3>1 DEF Shapes
    <3> HIDE DEF n, q
    <3> QED
      BY <1>2, <1>3, <1>7, <2>1, <2>4, <3>1, <3>2 DEF LoadFits, At
  <2> QED
    BY <2>2, <2>3, <2>4
<1> QED
  BY <1>1, <1>8, <1>9 DEF ShareInv

LEMMA ShareStep ==
    ASSUME ShareInv, NEW t \in Threads, ProbeStep(t)
    PROVE  ShareInv'
<1>1. /\ Shapes /\ Shapes' /\ processOf' = processOf
      /\ \A u \in Threads \ {t} :
           tpc'[u] = tpc[u] /\ reg'[u] = reg[u] /\ size'[u] = size[u]
  BY OwnOnly DEF ShareInv
<1> USE DEF At, Goto, Shapes, Adding
<1>2. CASE ReadS(t) \/ ReadSTell(t) \/ PreadRawPlain(t) \/ BatchSubmitPlain(t)
           \/ BatchSubmit(t) \/ BatchTest(t) \/ BatchReport(t) \/ BatchFlush(t)
           \/ BatchReset(t)
           \/ LoadSeq(t) \/ StoreSeq(t) \/ Lookup(t) \/ LoadTotal(t)
  <2>1. fdInfo' = fdInfo /\ handed' = handed /\ size' = size
    BY <1>2 DEF ReadS, ReadSTell, PreadRawPlain, BatchSubmitPlain, BatchSubmit,
                BatchTest, BatchReport, BatchFlush, BatchReset, LoadSeq,
                StoreSeq, Lookup, LoadTotal, shared, history
  <2>2. CASE LoadTotal(t)
    BY <1>1, <2>1, <2>2, SharePlain DEF LoadTotal
  <2>3. CASE Lookup(t)
    BY <1>1, <2>1, <2>3, SharePlain DEF Lookup
  <2>4. CASE ReadS(t) \/ ReadSTell(t) \/ PreadRawPlain(t) \/ BatchSubmitPlain(t)
             \/ BatchSubmit(t) \/ BatchTest(t) \/ BatchReport(t)
             \/ BatchFlush(t)
             \/ BatchReset(t) \/ LoadSeq(t) \/ StoreSeq(t)
    <3>1. tpc[t] \notin Adding /\ tpc'[t] \notin Adding
      BY <1>1, <2>4 DEF ReadS, ReadSTell, PreadRawPlain, BatchSubmitPlain,
                        BatchSubmit, BatchTest, BatchReport, BatchFlush, BatchReset,
                        LoadSeq, StoreSeq
    <3> QED
      BY <1>1, <2>1, <3>1, SharePlain
  <2> QED
    BY <1>2, <2>2, <2>3, <2>4
<1>3. CASE PreadRaw(t) \/ PreadTell(t)
  <2>1. fdInfo' = fdInfo /\ handed' = handed
    BY <1>3 DEF PreadRaw, PreadTell, shared
  <2>2. tpc[t] \notin Adding /\ tpc'[t] \notin Adding
    BY <1>1, <1>3 DEF PreadRaw, PreadTell
  <2> QED
    BY <1>1, <2>1, <2>2, SharePlain
<1>4. CASE Emit(t)
  BY <1>4, ShareEmit
<1>5. CASE StoreTotal(t) \/ Insert(t)
  BY <1>5, ShareStore
<1> QED
  BY <1>2, <1>3, <1>4, <1>5 DEF ProbeStep

\* However many threads of a process add to its total at once, by loads and
\* stores that overlap as they please, batchSubmit never reports more than was
\* handed over.
THEOREM NeverTooMuch == Spec => []NeverOverReports
<1>1. ShareInv /\ [Next]_vars => ShareInv'
  <2> SUFFICES ASSUME ShareInv, [Next]_vars PROVE ShareInv'
    OBVIOUS
  <2>1. CASE Release \/ UNCHANGED vars
    <3>1. UNCHANGED <<processOf, tpc, reg, size, globalSeq, fdInfo, handed>>
      BY <2>1 DEF Release, vars, probes, shared, local, history
    <3> QED
      BY <3>1 DEF ShareInv, Shapes, Fits, LoadFits, InHand, Adding, At, Pid
  <2>2. ASSUME NEW t \in Threads, ProbeStep(t) PROVE ShareInv'
    BY <2>2, ShareStep
  <2> QED
    BY <2>1, <2>2 DEF Next
<1>2. ShareInv => NeverOverReports
  BY DEF ShareInv, Shapes, Fits, NeverOverReports
<1> QED
  BY ShareInit, <1>1, <1>2, PTL DEF Spec
=============================================================================
