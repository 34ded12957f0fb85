--------------------------- MODULE CountersProofs ---------------------------
(***************************************************************************)
(* The three counters, for any number of CPUs, inodes and counts, and for  *)
(* words and maps of any size.                                             *)
(*                                                                         *)
(* Write-back credits: TypeOK and NeverInvents are not inductive, since a  *)
(* probe stores what follows from a load that may be stale.  What makes    *)
(* them hold is that every load was bounded by what had been counted then, *)
(* that this history only grows, and that a waiter needs no more than it   *)
(* loaded (Bounded).                                                       *)
(*                                                                         *)
(* op_count: likewise every word loaded was at most the hits and the value *)
(* of the loader, so that none stored later is more (NoneTooHigh).         *)
(*                                                                         *)
(* Latency of fsync: start_map knows a thread only while it is in fsync    *)
(* (KnownInside), because the end of an fsync deletes the entry.           *)
(***************************************************************************)
EXTENDS Counters, TLAPS

Bounded == \A c \in Cpus :
    /\ cpc[c] = "add" => reg[c] <= earned
    /\ cpc[c] = "spend" => reg[c] <= earned /\ need[c] <= reg[c]

IInv == TypeOK /\ NeverInvents /\ Bounded

\* The probes start out with nothing loaded.
LEMMA Start == Init => IInv
  BY CreditsAssumption DEF Init, IInv, TypeOK, NeverInvents, Bounded, local

\* One step of a probe on one CPU.
LEMMA ProbePreserves ==
    ASSUME IInv, NEW c \in Cpus,
           \/ \E i \in Inodes : SubmitFd(c, i) \/ Writeback(c, i)
           \/ Count(c)
           \/ \E n \in Counts : Enter(c, n)
           \/ Skip(c)
    PROVE  IInv'
<1> USE DEF IInv
<1>0. /\ counter \in Nat /\ earned \in Nat /\ spent \in Nat /\ counter <= earned
      /\ \A d \in Cpus : reg[d] \in Nat /\ need[d] \in Nat
  <2>1. ASSUME NEW d \in Cpus PROVE reg[d] \in Nat /\ need[d] \in Counts \cup {0}
    BY DEF TypeOK
  <2>2. \A n \in Counts \cup {0} : n \in Nat
    BY CreditsAssumption
  <2>3. counter \in Nat /\ earned \in Nat /\ spent \in Nat /\ counter <= earned
    BY DEF TypeOK, NeverInvents
  <2> QED
    BY <2>1, <2>2, <2>3
<1>1. ASSUME NEW i \in Inodes, SubmitFd(c, i) PROVE IInv'
  <2>1. Key(i) \in Inodes
    BY CreditsAssumption
  <2> QED
    BY <1>1, <2>1 DEF SubmitFd, local, TypeOK, NeverInvents, Bounded
<1>2. ASSUME NEW i \in Inodes, Writeback(c, i) PROVE IInv'
  <2>1. TypeOK' /\ NeverInvents'
    BY <1>0, <1>2 DEF Writeback, Load, Goto, TypeOK, NeverInvents
  <2>2. Bounded'
    BY <1>0, <1>2 DEF Writeback, Load, Goto, TypeOK, Bounded
  <2> QED
    BY <2>1, <2>2
<1>3. ASSUME Count(c) PROVE IInv'
  <2>1. reg[c] <= earned /\ reg[c] \in Nat
    BY <1>0, <1>3 DEF Count, Bounded
  <2>2. counter' = reg[c] + 1 /\ earned' = earned + 1
    BY <1>3 DEF Count
  <2>3. TypeOK' /\ NeverInvents'
    BY <1>0, <1>3, <2>1, <2>2 DEF Count, Goto, TypeOK, NeverInvents
  <2>4. Bounded'
    <3>1. /\ cpc' = [cpc EXCEPT ![c] = "idle"] /\ need' = need
          /\ reg' = [reg EXCEPT ![c] = 0]
      BY <1>3 DEF Count, Goto
    <3>2. ASSUME NEW d \in Cpus
          PROVE  /\ cpc'[d] = "add" => reg'[d] <= earned'
                 /\ cpc'[d] = "spend" => reg'[d] <= earned' /\ need'[d] <= reg'[d]
      BY <1>0, <2>2, <3>1 DEF TypeOK, Bounded
    <3> QED
      BY <3>2 DEF Bounded
  <2> QED
    BY <2>3, <2>4
<1>4. ASSUME NEW n \in Counts, Enter(c, n) PROVE IInv'
  <2>1. TypeOK' /\ NeverInvents'
    BY <1>0, <1>4 DEF Enter, Load, Goto, TypeOK, NeverInvents
  <2>2. n \in Nat /\ n <= counter
    BY <1>0, <1>4, CreditsAssumption DEF Enter
  <2>3. Bounded'
    BY <1>0, <1>4, <2>2 DEF Enter, Load, Goto, TypeOK, Bounded
  <2> QED
    BY <2>1, <2>3
<1>5. ASSUME Skip(c) PROVE IInv'
  <2>1. reg[c] <= earned /\ need[c] <= reg[c] /\ reg[c] \in Nat /\ need[c] \in Nat
    BY <1>0, <1>5 DEF Skip, Bounded
  <2>2. counter' = reg[c] - need[c] /\ earned' = earned /\ spent' = spent + need[c]
    BY <1>5 DEF Skip
  <2>3. counter' \in Nat /\ counter' <= earned' /\ spent' \in Nat
    BY <1>0, <2>1, <2>2
  <2>4. TypeOK' /\ NeverInvents'
    BY <1>0, <1>5, <2>2, <2>3 DEF Skip, Goto, TypeOK, NeverInvents
  <2>5. Bounded'
    BY <1>0, <1>5 DEF Skip, Goto, TypeOK, Bounded
  <2> QED
    BY <2>4, <2>5
<1> QED
  BY <1>1, <1>2, <1>3, <1>4, <1>5

\* The strengthened invariant, for any number of CPUs.
LEMMA Invariance == Spec => []IInv
<1>1. IInv /\ UNCHANGED vars => IInv'
  BY DEF IInv, TypeOK, NeverInvents, Bounded, vars, local
<1>2. IInv /\ [Next]_vars => IInv'
  BY <1>1, ProbePreserves DEF Next
<1> QED
  BY <1>2, Start, PTL DEF Spec

\* The unsigned counter never wraps, whichever probes race on it.
THEOREM Types == Spec => []TypeOK
  BY Invariance, PTL DEF IInv

\* No race leaves more credits than write-backs were counted.
THEOREM NoInventedCredit == Spec => []NeverInvents
  BY Invariance, PTL DEF IInv

-----------------------------------------------------------------------------
\* While probes have not overlapped at most one is under way, and what it has
\* loaded is still what the counter holds.
Fresh == overlapped = 0 =>
    /\ counter + spent = earned
    /\ \A c \in Cpus : cpc[c] # "idle" => reg[c] = counter
    /\ \A c, d \in Cpus : cpc[c] # "idle" /\ cpc[d] # "idle" => c = d

\* One step of a probe keeps the books.
LEMMA FreshPreserved ==
    ASSUME TypeOK, Fresh, NEW c \in Cpus,
           \/ \E i \in Inodes : SubmitFd(c, i) \/ Writeback(c, i)
           \/ Count(c)
           \/ \E n \in Counts : Enter(c, n)
           \/ Skip(c)
    PROVE  Fresh'
<1>0. /\ counter \in Nat /\ earned \in Nat /\ spent \in Nat
      /\ reg[c] \in Nat /\ need[c] \in Nat
      /\ cpc \in [Cpus -> {"idle", "add", "spend"}]
      /\ reg \in [Cpus -> Nat]
  <2>1. need[c] \in Counts \cup {0}
    BY DEF TypeOK
  <2>2. \A n \in Counts \cup {0} : n \in Nat
    BY CreditsAssumption
  <2> QED
    BY <2>1, <2>2 DEF TypeOK
\* A load that overlaps ends the obligation; any other finds all CPUs idle.
<1>1. ASSUME NEW l \in {"add", "spend"}, cpc[c] = "idle", Load(c), Goto(c, l),
             UNCHANGED <<counter, earned, spent>>
      PROVE  Fresh'
  <2> SUFFICES ASSUME overlapped' = 0
               PROVE  /\ counter' + spent' = earned'
                      /\ \A d \in Cpus : cpc'[d] # "idle" => reg'[d] = counter'
                      /\ \A d, e \in Cpus :
                            cpc'[d] # "idle" /\ cpc'[e] # "idle" => d = e
    BY DEF Fresh
  <2>1. overlapped = 0 /\ \A d \in Cpus : cpc[d] = "idle"
    BY <1>1 DEF Load
  <2>2. \A d \in Cpus : cpc'[d] # "idle" => d = c
    BY <1>0, <1>1, <2>1 DEF Goto
  <2>3. reg'[c] = counter'
    BY <1>0, <1>1 DEF Load
  <2> QED
    BY <1>1, <2>1, <2>2, <2>3 DEF Fresh
\* A store ends the only probe under way.
<1>2. ASSUME cpc[c] # "idle", Goto(c, "idle"), UNCHANGED overlapped,
             overlapped = 0 /\ reg[c] = counter => counter' + spent' = earned'
      PROVE  Fresh'
  <2> SUFFICES ASSUME overlapped' = 0
               PROVE  /\ counter' + spent' = earned'
                      /\ \A d \in Cpus : cpc'[d] = "idle"
    BY DEF Fresh
  <2>1. overlapped = 0 /\ reg[c] = counter
    BY <1>2 DEF Fresh
  <2>2. \A d \in Cpus : cpc'[d] = "idle"
    BY <1>0, <1>2, <2>1 DEF Fresh, Goto
  <2> QED
    BY <1>2, <2>1, <2>2
<1>3. ASSUME NEW i \in Inodes, SubmitFd(c, i) PROVE Fresh'
  BY <1>3 DEF SubmitFd, Fresh, local
<1>4. ASSUME NEW i \in Inodes, Writeback(c, i) PROVE Fresh'
  BY <1>1, <1>4 DEF Writeback
<1>5. ASSUME NEW n \in Counts, Enter(c, n) PROVE Fresh'
  BY <1>1, <1>5 DEF Enter
<1>6. ASSUME Count(c) PROVE Fresh'
  <2>1. overlapped = 0 /\ reg[c] = counter => counter' + spent' = earned'
    BY <1>0, <1>6 DEF Count, Fresh
  <2> QED
    BY <1>2, <1>6, <2>1 DEF Count
<1>7. ASSUME Skip(c) PROVE Fresh'
  <2>1. overlapped = 0 /\ reg[c] = counter => counter' + spent' = earned'
    BY <1>0, <1>7 DEF Skip, Fresh
  <2> QED
    BY <1>2, <1>7, <2>1 DEF Skip
<1> QED
  BY <1>3, <1>4, <1>5, <1>6, <1>7

\* As long as no two probes have overlapped no credit is lost or resurrected:
\* in particular on one CPU, where they cannot.
THEOREM BalancedUntilOverlap == Spec => []Balanced
<1>1. Init => Fresh
  BY DEF Init, Fresh
<1>2. Fresh /\ UNCHANGED vars => Fresh'
  BY DEF Fresh, vars, local
<1>3. TypeOK /\ Fresh /\ [Next]_vars => Fresh'
  BY <1>2, FreshPreserved DEF Next
<1>4. Fresh => Balanced
  BY DEF Fresh, Balanced
<1> QED
  BY <1>1, <1>3, <1>4, Types, PTL DEF Spec

\* All of this holds of the composition, which only stutters otherwise.
THEOREM CreditsInCounters == CountersSpec => [](TypeOK /\ NeverInvents /\ Balanced)
<1>1. CountersInit => Init
  BY DEF CountersInit
<1>2. [CountersNext]_all => [Next]_vars
  BY DEF CountersNext, all
<1> QED
  BY <1>1, <1>2, Types, NoInventedCredit, BalancedUntilOverlap, PTL
  DEF CountersSpec, Spec

-----------------------------------------------------------------------------
\* Neither op_count nor any word a probe holds is more than the bound, nor is
\* what a probe is about to store: its own hit has been added to the bound.
Bound == hits + IF preset THEN Preset ELSE 0

NoneTooHigh ==
    /\ op_count \in Nat /\ hits \in Nat /\ preset \in BOOLEAN
    /\ cpuAt \in [Cpus -> {"idle", "add", "added", "copy"}]
    /\ word \in [Cpus -> Nat]
    /\ op_count <= Bound
    /\ \A c \in Cpus : /\ word[c] <= Bound
                       /\ cpuAt[c] = "add" => word[c] + 1 <= Bound

LEMMA BoundNat == ASSUME NoneTooHigh PROVE Bound \in Nat
BY CountersAssumption DEF NoneTooHigh, Bound

\* The loader's store raises the bound by what it stores.
LEMMA PresetBounded == ASSUME NoneTooHigh, Ops!StorePreset PROVE NoneTooHigh'
<1>1. /\ op_count' = Preset /\ preset' = TRUE /\ ~preset /\ Preset \in Nat
      /\ UNCHANGED <<cpuAt, word, hits>>
  BY CountersAssumption DEF Ops!StorePreset
<1>2. Bound = hits /\ Bound' = hits + Preset
  BY <1>1 DEF Bound, NoneTooHigh
<1> QED
  BY <1>1, <1>2 DEF NoneTooHigh

\* One step of a probe on one CPU: a load keeps below the bound, which the hit
\* has raised, and a store writes what was loaded below it.
LEMMA HitBounded ==
    ASSUME NoneTooHigh, NEW c \in Cpus,
           Ops!LoadWord(c) \/ Ops!AddOne(c) \/ Ops!Copy(c)
    PROVE  NoneTooHigh'
<1>1. CASE Ops!LoadWord(c) /\ cpuAt[c] = "idle"
  <2>1. /\ hits' = hits + 1 /\ UNCHANGED <<op_count, preset>>
        /\ cpuAt' = [cpuAt EXCEPT ![c] = "add"]
        /\ word' = [word EXCEPT ![c] = op_count]
    BY <1>1 DEF Ops!LoadWord
  <2>2. Bound' = Bound + 1
    BY <2>1, CountersAssumption DEF Bound, NoneTooHigh
  <2> QED
    BY <2>1, <2>2, BoundNat DEF NoneTooHigh
<1>2. CASE Ops!LoadWord(c) /\ cpuAt[c] # "idle"
  <2>1. /\ UNCHANGED <<op_count, preset, hits>>
        /\ cpuAt' = [cpuAt EXCEPT ![c] = "copy"]
        /\ word' = [word EXCEPT ![c] = op_count]
    BY <1>2 DEF Ops!LoadWord
  <2>2. Bound' = Bound
    BY <2>1 DEF Bound
  <2> QED
    BY <2>1, <2>2, BoundNat DEF NoneTooHigh
<1>3. CASE Ops!AddOne(c)
  <2>1. /\ cpuAt[c] = "add" /\ cpuAt' = [cpuAt EXCEPT ![c] = "added"]
        /\ op_count' = word[c] + 1 /\ UNCHANGED <<word, preset, hits>>
    BY <1>3 DEF Ops!AddOne
  <2>2. Bound' = Bound
    BY <2>1 DEF Bound
  <2> QED
    BY <2>1, <2>2, BoundNat DEF NoneTooHigh
<1>4. CASE Ops!Copy(c)
  <2>1. /\ cpuAt' = [cpuAt EXCEPT ![c] = "idle"]
        /\ word' = [word EXCEPT ![c] = 0]
        /\ op_count' = word[c] /\ UNCHANGED <<preset, hits>>
    BY <1>4 DEF Ops!Copy
  <2>2. Bound' = Bound
    BY <2>1 DEF Bound
  <2> QED
    BY <2>1, <2>2, BoundNat DEF NoneTooHigh
<1> QED
  BY <1>1, <1>2, <1>3, <1>4

\* However probes on any number of CPUs and the loader interleave, and whatever
\* the loader stores, op_count is never more than that and the probes hit.
THEOREM CountNeverTooHigh == CountersSpec => []NeverOvercounts
<1>1. ASSUME CountersInit PROVE NoneTooHigh
  <2>1. /\ op_count = 0 /\ hits = 0 /\ preset = FALSE
        /\ cpuAt = [c \in Cpus |-> "idle"] /\ word = [c \in Cpus |-> 0]
    BY <1>1 DEF CountersInit, Ops!CounterInit
  <2>2. Bound = 0
    BY <2>1 DEF Bound
  <2>3. \A c \in Cpus : word[c] = 0 /\ cpuAt[c] = "idle"
    BY <2>1
  <2>4. /\ cpuAt \in [Cpus -> {"idle", "add", "added", "copy"}]
        /\ word \in [Cpus -> Nat]
    BY <2>1
  <2>5. preset \in BOOLEAN
    BY <2>1
  <2>6. op_count \in Nat /\ hits \in Nat /\ op_count <= Bound
    BY <2>1, <2>2
  <2>7. \A c \in Cpus : /\ word[c] <= Bound
                        /\ cpuAt[c] = "add" => word[c] + 1 <= Bound
    <3> SUFFICES ASSUME NEW c \in Cpus
                 PROVE  word[c] <= Bound /\ cpuAt[c] # "add"
      OBVIOUS
    <3>1. word[c] = 0 /\ Bound = 0
      BY <2>2, <2>3
    <3>2. cpuAt[c] # "add"
      BY <2>3
    <3> QED
      BY <3>1, <3>2
  <2> QED
    BY <2>4, <2>5, <2>6, <2>7 DEF NoneTooHigh
<1>2. NoneTooHigh /\ UNCHANGED ovars => NoneTooHigh'
  BY DEF NoneTooHigh, Bound, ovars
<1>3. NoneTooHigh /\ [CountersNext]_all => NoneTooHigh'
  BY <1>2, PresetBounded, HitBounded DEF CountersNext, Ops!Counting, all
<1>4. NoneTooHigh => NeverOvercounts
  BY DEF NoneTooHigh, Bound, NeverOvercounts, Ops!NeverOvercounts
<1> QED
  BY <1>1, <1>3, <1>4, PTL DEF CountersSpec

-----------------------------------------------------------------------------
\* start_map knows a thread only while it is in fsync.
KnownInside ==
    /\ now \in Nat /\ start \in [Cpus -> Int]
    /\ Lats!Known \subseteq inside
    /\ ~stray

\* One step of a thread, or of its probe.
LEMMA LatencyPreserves ==
    ASSUME KnownInside, NEW t \in Cpus,
           \/ Lats!EnterFsync(t) \/ Lats!Writeback(t) \/ Lats!ExitFsync(t)
           \/ Lats!ExitUnknown(t) \/ Lats!StoreMean(t) \/ Lats!StoreCount(t)
    PROVE  KnownInside'
<1> USE DEF KnownInside, Lats!Known
<1>1. ASSUME Lats!EnterFsync(t) PROVE KnownInside'
  BY <1>1 DEF Lats!EnterFsync, Lats!seenf
<1>2. ASSUME NEW k \in {"write", "exit"}, Lats!Sample(t, k) PROVE KnownInside'
  BY <1>2 DEF Lats!Sample
<1>3. ASSUME Lats!ExitUnknown(t) PROVE KnownInside'
  BY <1>3 DEF Lats!ExitUnknown, Lats!seenf
<1>4. ASSUME Lats!StoreMean(t) PROVE KnownInside'
  BY <1>4 DEF Lats!StoreMean, Lats!seenf
<1>5. ASSUME Lats!StoreCount(t) PROVE KnownInside'
  BY <1>5 DEF Lats!StoreCount, Lats!seenf
<1> QED
  BY <1>1, <1>2, <1>3, <1>4, <1>5 DEF Lats!Writeback, Lats!ExitFsync

\* No write-back outside fsync is measured from an fsync before, whatever room
\* the map has and whichever threads found none.
THEOREM NoStraySample == CountersSpec => []OwnFsync
<1>1. CountersInit => KnownInside
  BY DEF CountersInit, Lats!LatencyInit, KnownInside, Lats!Known
<1>2. KnownInside /\ UNCHANGED lvars => KnownInside'
  BY DEF KnownInside, Lats!Known, lvars
<1>3. KnownInside /\ Lats!Tick => KnownInside'
  BY DEF KnownInside, Lats!Known, Lats!Tick, Lats!seenf
<1>4. KnownInside /\ [CountersNext]_all => KnownInside'
  BY <1>2, <1>3, LatencyPreserves DEF CountersNext, Lats!Latency, all
<1>5. KnownInside => OwnFsync
  BY DEF KnownInside, OwnFsync, Lats!OwnFsync
<1> QED
  BY <1>1, <1>4, <1>5, PTL DEF CountersSpec
=============================================================================
